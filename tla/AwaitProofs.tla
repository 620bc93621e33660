------------------------------ MODULE AwaitProofs ------------------------------
(***************************************************************************)
(* No tracked controller is forgotten (CtrlLife): the proof                *)
(*                                                                         *)
(* A controller that is not linked to its own live device must be waiting  *)
(* for something.  The invariant says for what, and it needs to know that  *)
(* the records, the entries and the kernel agree on whose name is whose:   *)
(*   - UseInv, MatchInv: a device name is used, in a .devid file or in an  *)
(*     entry, by one controller, whose device it is unless a foreign one   *)
(*     took it; a controller with a live device uses that name only;       *)
(*   - LinkInv, NameInv: the records and the entry of a controller stand   *)
(*     under the name in its .devid file;                                  *)
(*   - RecInv: a name that is, or is about to be, linked to the controller *)
(*     is that of its live device, or the removal of the device is queued; *)
(*   - DeviceInv: the same for the device of an entry;                     *)
(*   - WaitInv: without a device a timer runs, or a job will say more.     *)
(***************************************************************************)
EXTENDS CtrlLifeProofs

(* The removal of a device of name n is not handled yet. *)
RemovePending(n) ==
    \E k \in 1..Len(uevents) : uevents[k].act = "remove" /\ uevents[k].name = n

(* n is the live device of c, or its removal is still to be handled. *)
Minded(n, c) == Matches(n, c) \/ RemovePending(n)

(* c has the name n in its .devid file or in its entry. *)
Uses(c, n) == devid[c] = n \/ (ctrl[c] # None /\ ctrl[c].dev = n)

(* The end of a job of c that was done is not handled yet. *)
DoneOf(c) == \E k \in 1..Len(ends) : ends[k].of = c /\ ends[k].done

(* The end of one that was not. *)
FailOf(c) == \E k \in 1..Len(ends) : ends[k].of = c /\ ~ends[k].done

(* Without the daemon nothing is tracked. *)
DownInv == busy.in = "down" => \A c \in Ctrl : ctrl[c] = None

(* A name has one user, and no device of another controller has it. *)
UseInv ==
    \A c \in Ctrl, n \in Name : Uses(c, n) =>
        /\ dev[n] # None => dev[n].of \in {c, Foreign}
        /\ \A t \in Ctrl : Uses(t, n) => t = c

(* A controller has one live device, and uses no other name. *)
MatchInv ==
    \A c \in Ctrl, n \in Name : Matches(n, c) =>
        \A m \in Name : Matches(m, c) \/ Uses(c, m) => m = n

(* Records stand under the name in the .devid file. *)
LinkInv == \A n \in Name : link[n] # None => devid[link[n].of] = n

(* So does the entry, as long as there is a name. *)
NameInv(c) ==
    ctrl[c] # None /\ ctrl[c].dev # None => devid[c] \in {ctrl[c].dev, None, Empty}

(* A name that will be linked to c, or can be, is minded. *)
RecInv(c) ==
    \A n \in Name :
        devid[c] = n /\ (unit[c] = "post" \/ DoneOf(c) \/ LinksOf(c) # {}) => Minded(n, c)

(* The device of c is minded. *)
DeviceInv(c) == \A n \in Name : ctrl[c].dev = n => Minded(n, c)

(* A job of c runs whose end will say whether it is connected, or it ended. *)
Promised(c) ==
    \/ /\ c \in jobs
       /\ unit[c] = "connect" => c \in open
       /\ unit[c] = "post" => devid[c] \in Name
    \/ FailOf(c)
    \/ DoneOf(c) /\ unit[c] = "active" /\ devid[c] \in Name

(* Without a device c waits for a timer or a job. *)
WaitInv(c) == ctrl[c].dev = None => ctrl[c].retry \/ ctrl[c].poll \/ Promised(c)

(* What holds of a tracked controller. *)
AwaitInv(c) == ctrl[c] # None => RecInv(c) /\ DeviceInv(c) /\ WaitInv(c)

(* Who uses which name. *)
NamesInv ==
    /\ DownInv /\ UseInv /\ MatchInv /\ LinkInv
    /\ \A c \in Ctrl : NameInv(c)

(* The inductive invariant, on top of IInv. *)
WInv == NamesInv /\ \A c \in Ctrl : AwaitInv(c)

--------------------------------------------------------------------------------
(* The ends of jobs and the uevents. *)

(* The ends of the jobs of t stay. *)
SameEnds(t) == (DoneOf(t)' <=> DoneOf(t)) /\ (FailOf(t)' <=> FailOf(t))

(* Ends that do not change. *)
LEMMA EndsUnchanged ==
  ASSUME UNCHANGED ends
  PROVE  \A t \in Ctrl : SameEnds(t)
  BY DEF SameEnds, DoneOf, FailOf

(* A job of c ends, if it is tracked. *)
LEMMA EndAdded ==
  ASSUME SystemdType, NEW c \in Ctrl, NEW b \in BOOLEAN,
         ends' = IF c \in jobs THEN Append(ends, [of |-> c, done |-> b]) ELSE ends
  PROVE  /\ \A t \in Ctrl \ {c} : SameEnds(t)
         /\ DoneOf(c) => DoneOf(c)'
         /\ FailOf(c) => FailOf(c)'
         /\ DoneOf(c)' => DoneOf(c) \/ b
         /\ c \in jobs => IF b THEN DoneOf(c)' ELSE FailOf(c)'
PROOF
  <1>1. CASE c \notin jobs
    BY <1>1, EndsUnchanged DEF SameEnds
  <1>2. CASE c \in jobs
    <2> DEFINE x == [of |-> c, done |-> b]
    <2>1. x \in EndRecord /\ x.of = c /\ x.done = b
      BY DEF EndRecord
    <2>2. ends' = Append(ends, x)
      BY <1>2
    <2> HIDE DEF x
    <2>3. /\ Len(ends) \in Nat /\ Len(ends') = Len(ends) + 1
          /\ \A k \in 1..Len(ends) : ends'[k] = ends[k]
          /\ ends'[Len(ends) + 1] = x
      BY <2>1, <2>2, AppendEnds
    <2>4. \A k \in 1..Len(ends) : k \in 1..Len(ends')
      BY <2>3
    <2>5. \A k \in 1..Len(ends') : k \in 1..Len(ends) \/ k = Len(ends) + 1
      BY <2>3
    <2>6. Len(ends) + 1 \in 1..Len(ends')
      BY <2>3
    <2>7. \A t \in Ctrl : (DoneOf(t) => DoneOf(t)') /\ (FailOf(t) => FailOf(t)')
      BY <2>3, <2>4 DEF DoneOf, FailOf
    <2>8. \A t \in Ctrl \ {c} : (DoneOf(t)' => DoneOf(t)) /\ (FailOf(t)' => FailOf(t))
      BY <2>1, <2>3, <2>5 DEF DoneOf, FailOf
    <2>9. DoneOf(c)' => DoneOf(c) \/ b
      BY <2>1, <2>3, <2>5 DEF DoneOf
    <2>10. IF b THEN DoneOf(c)' ELSE FailOf(c)'
      BY <2>1, <2>3, <2>6 DEF DoneOf, FailOf
    <2> QED
      BY <1>2, <2>7, <2>8, <2>9, <2>10 DEF SameEnds
  <1> QED
    BY <1>1, <1>2

(* The first end, of a job of c, is taken. *)
LEMMA EndTaken ==
  ASSUME SystemdType, ends # <<>>, ends' = Tail(ends), NEW c, c = Head(ends).of
  PROVE  /\ \A t \in Ctrl \ {c} : SameEnds(t)
         /\ DoneOf(c)' => DoneOf(c)
         /\ Head(ends).done => DoneOf(c) /\ (FailOf(c) => FailOf(c)')
         /\ ~Head(ends).done => FailOf(c)
PROOF
  <1>1. /\ Len(ends) \in Nat /\ Len(ends) >= 1 /\ Len(ends') = Len(ends) - 1
        /\ Head(ends) = ends[1]
        /\ \A k \in 1..Len(ends') : ends'[k] = ends[k + 1]
    BY TailEnds
  <1>2. \A k \in 1..Len(ends') : k + 1 \in 1..Len(ends)
    BY <1>1
  <1>3. \A k \in 1..Len(ends) : k = 1 \/ (k - 1 \in 1..Len(ends') /\ (k - 1) + 1 = k)
    BY <1>1
  <1>4. \A t : (DoneOf(t)' => DoneOf(t)) /\ (FailOf(t)' => FailOf(t))
    BY <1>1, <1>2 DEF DoneOf, FailOf
  <1>5. \A k \in 1..Len(ends) : k = 1 \/ (k - 1 \in 1..Len(ends') /\ ends'[k - 1] = ends[k])
    BY <1>1, <1>3
  <1>6. ASSUME NEW t \in Ctrl \ {c}
        PROVE  (DoneOf(t) => DoneOf(t)') /\ (FailOf(t) => FailOf(t)')
    <2>1. \A k \in 1..Len(ends) : ends[k].of = t =>
             \E j \in 1..Len(ends') : ends'[j] = ends[k]
      BY <1>1, <1>5
    <2> QED
      BY <2>1 DEF DoneOf, FailOf
  <1>7. 1 \in 1..Len(ends)
    BY <1>1
  <1>8. Head(ends).done => DoneOf(c)
    BY <1>1, <1>7 DEF DoneOf
  <1>9. Head(ends).done => (FailOf(c) => FailOf(c)')
    BY <1>1, <1>5 DEF FailOf
  <1>10. ~Head(ends).done => FailOf(c)
    BY <1>1, <1>7 DEF FailOf
  <1> QED
    BY <1>4, <1>6, <1>8, <1>9, <1>10 DEF SameEnds

(* Emit() adds a uevent, and a removal is minded while the daemon runs. *)
LEMMA EmitPending ==
  ASSUME QueueType, NEW n \in Name, NEW act \in {"add", "remove", "change"}, Emit(act, n)
  PROVE  /\ \A m \in Name : RemovePending(m) => RemovePending(m)'
         /\ act = "remove" /\ busy.in # "down" => RemovePending(n)'
PROOF
  <1>1. CASE busy.in = "down"
    BY <1>1 DEF Emit, RemovePending
  <1>2. CASE busy.in # "down"
    <2> DEFINE u == [act |-> act, name |-> n]
    <2>1. u \in Uevent /\ u.act = act /\ u.name = n
      BY DEF Uevent
    <2>2. uevents' = Append(uevents, u)
      BY <1>2 DEF Emit
    <2> HIDE DEF u
    <2>3. uevents \in Seq(Uevent) /\ Len(uevents) \in Nat
      BY LenProperties DEF QueueType
    <2>4. Len(uevents') = Len(uevents) + 1
      BY <2>1, <2>2, <2>3, AppendProperties
    <2>5. \A k \in 1..Len(uevents) : uevents'[k] = uevents[k]
      BY <2>1, <2>2, <2>3, AppendProperties
    <2>6. uevents'[Len(uevents) + 1] = u
      BY <2>1, <2>2, <2>3, AppendProperties
    <2>7. /\ \A k \in 1..Len(uevents) : k \in 1..Len(uevents')
          /\ Len(uevents) + 1 \in 1..Len(uevents')
      BY <2>3, <2>4
    <2>8. \A m \in Name : RemovePending(m) => RemovePending(m)'
      BY <2>5, <2>7 DEF RemovePending
    <2>9. act = "remove" => RemovePending(n)'
      BY <2>1, <2>6, <2>7 DEF RemovePending
    <2> QED
      BY <2>8, <2>9
  <1> QED
    BY <1>1, <1>2

(* The first uevent is taken. *)
LEMMA UeventTaken ==
  ASSUME QueueType, uevents # <<>>, uevents' = Tail(uevents)
  PROVE  \A m \in Name : RemovePending(m) =>
            RemovePending(m)' \/ (Head(uevents).act = "remove" /\ Head(uevents).name = m)
PROOF
  <1>1. uevents \in Seq(Uevent)
    BY DEF QueueType
  <1>2. /\ Len(uevents) \in Nat /\ Len(uevents) >= 1 /\ Len(uevents') = Len(uevents) - 1
        /\ Head(uevents) = uevents[1]
        /\ \A k \in 1..Len(uevents') : uevents'[k] = uevents[k + 1]
    BY <1>1, HeadTailProperties, LenProperties, EmptySeq
  <1>3. \A k \in 1..Len(uevents) :
           k = 1 \/ (k - 1 \in 1..Len(uevents') /\ (k - 1) + 1 = k)
    BY <1>2
  <1>4. \A k \in 1..Len(uevents) :
           k = 1 \/ (k - 1 \in 1..Len(uevents') /\ uevents'[k - 1] = uevents[k])
    BY <1>2, <1>3
  <1> QED
    BY <1>2, <1>4 DEF RemovePending

--------------------------------------------------------------------------------
(* What a step leaves alone. *)

(* No controller uses one more name. *)
FewerUses == \A c \in Ctrl, n \in Name : Uses(c, n)' => Uses(c, n)

(* No device of a controller is new. *)
FewerDevices ==
    \A n \in Name :
        /\ \A c \in Ctrl : Matches(n, c)' => Matches(n, c)
        /\ dev'[n] # None =>
              dev'[n].of = Foreign \/ (dev[n] # None /\ dev'[n].of = dev[n].of)

(* What t uses stays minded. *)
StaysMinded(t) ==
    ctrl[t] # None => \A m \in Name : Uses(t, m) /\ Minded(m, t) => Minded(m, t)'

(* The step leaves t alone. *)
Untouched(t) ==
    /\ KeptEntry(t) /\ KeptUnit(t) /\ SameEnds(t) /\ KeptFiles(t)
    /\ t \in open' <=> t \in open

(* Fewer names and devices agree as before. *)
LEMMA FewerNames ==
  ASSUME UseInv, MatchInv, FewerUses, FewerDevices
  PROVE  UseInv' /\ MatchInv'
PROOF
  <1>1. ASSUME NEW c \in Ctrl, NEW n \in Name, Uses(c, n)'
        PROVE  /\ dev'[n] # None => dev'[n].of \in {c, Foreign}
               /\ \A t \in Ctrl : Uses(t, n)' => t = c
    <2>1. Uses(c, n)
      BY <1>1 DEF FewerUses
    <2> QED
      BY <2>1 DEF UseInv, FewerUses, FewerDevices
  <1>2. ASSUME NEW c \in Ctrl, NEW n \in Name, Matches(n, c)',
               NEW m \in Name, Matches(m, c)' \/ Uses(c, m)'
        PROVE  m = n
    <2>1. Matches(n, c) /\ (Matches(m, c) \/ Uses(c, m))
      BY <1>2 DEF FewerUses, FewerDevices
    <2> QED
      BY <2>1 DEF MatchInv
  <1>3. UseInv'
    BY <1>1 DEF UseInv
  <1>4. MatchInv'
    BY <1>2 DEF MatchInv
  <1> QED
    BY <1>3, <1>4

(* The entry of a controller. *)
LEMMA EntryOf ==
  ASSUME IInv, NEW c \in Ctrl
  PROVE  /\ ctrl[c] \in Entry \cup {None}
         /\ ctrl[c] # None => ctrl[c] \in Entry /\ ctrl[c].dev \in Name \cup {None}
         /\ devid[c] \in Name \cup {None, Empty} /\ unit[c] \in States
PROOF
  <1>1. ctrl[c] \in Entry \cup {None}
    BY DEF IInv, Types, DaemonType
  <1>2. devid[c] \in Name \cup {None, Empty} /\ unit[c] \in States
    BY DEF IInv, Types, FilesType, SystemdType
  <1> QED
    BY <1>1, <1>2, EntryFields

(* What a step leaves alone waits as before. *)
LEMMA UntouchedAwaits ==
  ASSUME IInv, NEW t \in Ctrl, Untouched(t), StaysMinded(t), NameInv(t), AwaitInv(t)
  PROVE  NameInv(t)' /\ AwaitInv(t)' /\ \A n \in Name : Uses(t, n)' => Uses(t, n)
PROOF
  <1>1. /\ devid'[t] = devid[t] /\ unit'[t] = unit[t] /\ (t \in jobs' <=> t \in jobs)
        /\ t \in open' <=> t \in open
        /\ DoneOf(t)' <=> DoneOf(t)
        /\ FailOf(t)' <=> FailOf(t)
    BY DEF Untouched, KeptUnit, KeptFiles, SameEnds
  <1>2. CASE ctrl[t] = None
    <2>1. ctrl'[t] = None
      BY <1>2 DEF Untouched, KeptEntry
    <2> QED
      BY <1>1, <1>2, <2>1 DEF NameInv, AwaitInv, Uses
  <1>3. CASE ctrl[t] # None
    <2>1. /\ ctrl'[t] # None /\ ctrl'[t].dev = ctrl[t].dev
          /\ ctrl'[t].retry = ctrl[t].retry /\ ctrl'[t].poll = ctrl[t].poll
      BY <1>3 DEF Untouched, KeptEntry
    <2>2. RecInv(t) /\ DeviceInv(t) /\ WaitInv(t)
      BY <1>3 DEF AwaitInv
    <2>3. \A m \in Name : Uses(t, m) /\ Minded(m, t) => Minded(m, t)'
      BY <1>3 DEF StaysMinded
    <2>4. LinksOf(t)' # {} => LinksOf(t) # {}
      BY DEF Untouched, KeptFiles, LinksOf
    <2>5. RecInv(t)'
      <3> SUFFICES ASSUME NEW n \in Name, devid'[t] = n,
                          unit'[t] = "post" \/ DoneOf(t)' \/ LinksOf(t)' # {}
                   PROVE  Minded(n, t)'
        BY DEF RecInv
      <3>1. Minded(n, t) /\ Uses(t, n)
        BY <1>1, <2>2, <2>4 DEF RecInv, Uses
      <3> QED
        BY <2>3, <3>1
    <2>6. DeviceInv(t)'
      <3> SUFFICES ASSUME NEW n \in Name, ctrl'[t].dev = n PROVE Minded(n, t)'
        BY DEF DeviceInv
      <3>1. Minded(n, t) /\ Uses(t, n)
        BY <1>3, <2>1, <2>2 DEF DeviceInv, Uses
      <3> QED
        BY <2>3, <3>1
    <2>7. WaitInv(t)'
      <3>1. Promised(t) => Promised(t)'
        BY <1>1 DEF Promised
      <3> QED
        BY <2>1, <2>2, <3>1 DEF WaitInv
    <2>8. NameInv(t)'
      BY <1>1, <1>3, <2>1 DEF NameInv
    <2>9. \A n \in Name : Uses(t, n)' => Uses(t, n)
      BY <1>1, <1>3, <2>1 DEF Uses
    <2> QED
      BY <2>5, <2>6, <2>7, <2>8, <2>9 DEF AwaitInv
  <1> QED
    BY <1>2, <1>3

(* A step of c, which uses no new name. Every action but a connect is one. *)
LEMMA OwnStep ==
  ASSUME IInv, WInv, NEW c \in Ctrl, DownInv', LinkInv', FewerDevices,
         \A t \in Ctrl \ {c} : Untouched(t) /\ StaysMinded(t),
         \A n \in Name : Uses(c, n)' => Uses(c, n),
         NameInv(c)', AwaitInv(c)'
  PROVE  WInv'
PROOF
  <1>1. ASSUME NEW t \in Ctrl
        PROVE  NameInv(t)' /\ AwaitInv(t)' /\ \A n \in Name : Uses(t, n)' => Uses(t, n)
    <2>1. CASE t = c
      BY <2>1
    <2>2. CASE t # c
      <3>1. t \in Ctrl \ {c} /\ NameInv(t) /\ AwaitInv(t)
        BY <2>2 DEF WInv, NamesInv
      <3> QED
        BY <3>1, UntouchedAwaits
    <2> QED
      BY <2>1, <2>2
  <1>2. FewerUses
    BY <1>1 DEF FewerUses
  <1>3. UseInv' /\ MatchInv'
    BY <1>2, FewerNames DEF WInv, NamesInv
  <1> QED
    BY <1>1, <1>3 DEF WInv, NamesInv

(* A step of nobody. *)
LEMMA NobodysStep ==
  ASSUME IInv, WInv, DownInv', LinkInv', FewerDevices,
         \A t \in Ctrl : Untouched(t) /\ StaysMinded(t)
  PROVE  WInv'
PROOF
  <1>1. ASSUME NEW t \in Ctrl
        PROVE  NameInv(t)' /\ AwaitInv(t)' /\ \A n \in Name : Uses(t, n)' => Uses(t, n)
    <2>1. NameInv(t) /\ AwaitInv(t)
      BY DEF WInv, NamesInv
    <2> QED
      BY <2>1, UntouchedAwaits
  <1>2. FewerUses
    BY <1>1 DEF FewerUses
  <1>3. UseInv' /\ MatchInv'
    BY <1>2, FewerNames DEF WInv, NamesInv
  <1> QED
    BY <1>1, <1>3 DEF WInv, NamesInv

(* Devices that do not change, and no removal that is taken. *)
LEMMA SameDevices ==
  ASSUME UNCHANGED dev, \A m \in Name : RemovePending(m) => RemovePending(m)'
  PROVE  FewerDevices /\ \A t \in Ctrl : StaysMinded(t)
PROOF
  <1>1. \A n, c : Matches(n, c)' <=> Matches(n, c)
    BY DEF Matches
  <1>2. FewerDevices
    BY <1>1 DEF FewerDevices
  <1>3. \A t \in Ctrl : StaysMinded(t)
    BY <1>1 DEF StaysMinded, Minded
  <1> QED
    BY <1>2, <1>3

(* Uevents that do not change. *)
LEMMA SamePending ==
  ASSUME UNCHANGED uevents
  PROVE  \A m \in Name : RemovePending(m)' <=> RemovePending(m)
  BY DEF RemovePending

(* The daemon is still there, or still down. *)
LEMMA StillUp ==
  ASSUME DownInv, busy'.in # "down" \/ UNCHANGED <<busy, ctrl>>
  PROVE  DownInv'
  BY DEF DownInv

(* Records that go together with the .devid file, or stay with it. *)
LEMMA LinksShrink ==
  ASSUME IInv, LinkInv, NEW c \in Ctrl, FilesShrink,
         \A t \in Ctrl \ {c} : devid'[t] = devid[t],
         devid'[c] = devid[c] \/ LinksOf(c)' = {}
  PROVE  LinkInv'
PROOF
  <1> SUFFICES ASSUME NEW n \in Name, link'[n] # None PROVE devid'[link'[n].of] = n
    BY DEF LinkInv
  <1>1. link'[n] = link[n]
    BY DEF FilesShrink
  <1>2. link[n].of \in Ctrl /\ devid[link[n].of] = n
    BY <1>1 DEF LinkInv, IInv, Types, FilesType, LinkRecord
  <1>3. link[n].of = c => devid'[c] = devid[c]
    BY <1>1 DEF LinksOf
  <1> QED
    BY <1>1, <1>2, <1>3

(* The records of c stand under one name, and none without it. *)
LEMMA LinksUnder ==
  ASSUME LinkInv, NEW c \in Ctrl
  PROVE  LinksOf(c) \subseteq {devid[c]} /\ LinksOf(c) \subseteq LinkedTo(c, {devid[c]})
         /\ (devid[c] \notin Name => LinksOf(c) = {})
PROOF
  <1>1. \A n \in LinksOf(c) : n \in Name /\ link[n] # None /\ link[n].of = c /\ devid[c] = n
    BY DEF LinkInv, LinksOf
  <1> QED
    BY <1>1 DEF LinkedTo

(* A controller that is not tracked any more. *)
LEMMA GoneAwaits ==
  ASSUME NEW c, ctrl'[c] = None
  PROVE  NameInv(c)' /\ AwaitInv(c)'
  BY DEF NameInv, AwaitInv

(* A controller that has neither a device nor a name. *)
LEMMA NamelessAwaits ==
  ASSUME NEW c, ctrl'[c] # None => ctrl'[c].dev = None, devid'[c] \notin Name,
         ctrl'[c] # None => ctrl'[c].retry \/ ctrl'[c].poll \/ Promised(c)'
  PROVE  NameInv(c)' /\ AwaitInv(c)' /\ \A n \in Name : ~Uses(c, n)'
PROOF
  <1>1. RecInv(c)'
    BY DEF RecInv
  <1>2. ctrl'[c] # None => DeviceInv(c)' /\ WaitInv(c)'
    BY Constants DEF DeviceInv, WaitInv
  <1>3. NameInv(c)'
    BY DEF NameInv
  <1>4. \A n \in Name : ~Uses(c, n)'
    BY Constants DEF Uses
  <1> QED
    BY <1>1, <1>2, <1>3, <1>4 DEF AwaitInv

--------------------------------------------------------------------------------
(* The handlers of the daemon. *)

(* A call for the unit of c. *)
LEMMA CallOthers ==
  ASSUME SystemdType, NEW c \in Ctrl,
         unit_stop(c) \/ unit_restart(c) \/ unit_start(c) \/ UNCHANGED systemd
  PROVE  /\ \A t \in Ctrl \ {c} : KeptUnit(t) /\ SameEnds(t)
         /\ DoneOf(c)' => DoneOf(c)
         /\ FailOf(c) => FailOf(c)'
         /\ unit'[c] = "post" => unit[c] = "post"
PROOF
  <1>1. CASE unit_stop(c)
    <2>1. ends' = IF c \in jobs THEN Append(ends, [of |-> c, done |-> FALSE]) ELSE ends
      BY <1>1 DEF unit_stop
    <2>2. /\ \A t \in Ctrl \ {c} : SameEnds(t)
          /\ DoneOf(c)' => DoneOf(c)
          /\ FailOf(c) => FailOf(c)'
      BY <2>1, EndAdded
    <2>3. unit[c] \in States /\ unit'[c] = Stopping(unit[c])
          /\ \A t \in Ctrl \ {c} : KeptUnit(t)
      BY <1>1, StopCall DEF SystemdType
    <2>4. unit'[c] # "post"
      BY <2>3, StoppingType
    <2> QED
      BY <2>2, <2>3, <2>4
  <1>2. CASE unit_restart(c)
    <2>1. /\ unit[c] \in States /\ unit'[c] = Stopping(unit[c]) /\ ends' = ends
          /\ \A t \in Ctrl \ {c} : KeptUnit(t)
      BY <1>2, RestartCall DEF SystemdType
    <2>2. unit'[c] # "post"
      BY <2>1, StoppingType
    <2> QED
      BY <2>1, <2>2, EndsUnchanged DEF SameEnds
  <1>3. CASE unit_start(c)
    <2>1. unit'[c] = "start" /\ ends' = ends /\ \A t \in Ctrl \ {c} : KeptUnit(t)
      BY <1>3, StartCall
    <2> QED
      BY <2>1, EndsUnchanged DEF SameEnds
  <1>4. CASE UNCHANGED systemd
    <2>1. ends' = ends /\ unit' = unit /\ \A t \in Ctrl : KeptUnit(t)
      BY <1>4, SystemdSame DEF systemd
    <2> QED
      BY <2>1, EndsUnchanged DEF SameEnds
  <1> QED
    BY <1>1, <1>2, <1>3, <1>4

(* A job that was just called for: its end will come. *)
LEMMA CallPromises ==
  ASSUME SystemdType, NEW c \in Ctrl, unit_restart(c) \/ unit_start(c)
  PROVE  Promised(c)'
PROOF
  <1>1. CASE unit_restart(c)
    <2>1. c \in jobs' /\ unit[c] \in States /\ unit'[c] = Stopping(unit[c])
      BY <1>1, RestartCall DEF SystemdType
    <2>2. unit'[c] \notin {"connect", "post"}
      BY <2>1, StoppingType
    <2> QED
      BY <2>1, <2>2 DEF Promised
  <1>2. CASE unit_start(c)
    BY <1>2, StartCall DEF Promised
  <1> QED
    BY <1>1, <1>2

(* The files of others stay when those of c go. *)
LEMMA ForgetOthers ==
  ASSUME FilesType, NEW c \in Ctrl, NEW N, Forget({c}, N)
  PROVE  /\ \A t \in Ctrl \ {c} : /\ KeptFiles(t) /\ devid'[t] = devid[t]
                                  /\ (t \in open' <=> t \in open)
         /\ FilesShrink /\ devid'[c] = None
         /\ LinksOf(c) \subseteq N => LinksOf(c)' = {}
PROOF
  <1>1. {c} \in SUBSET Ctrl
    OBVIOUS
  <1>2. /\ FilesShrink /\ \A t \in Ctrl : t \notin {c} => KeptFiles(t)
        /\ devid'[c] = None
        /\ \A n \in Name : link'[n] = IF n \in N THEN None ELSE link[n]
    BY <1>1, ForgetFacts
  <1>3. \A t \in Ctrl \ {c} : t \in open' <=> t \in open
    BY DEF Forget
  <1>4. LinksOf(c) \subseteq N => LinksOf(c)' = {}
    BY <1>2, ForgottenLinks
  <1> QED
    BY <1>2, <1>3, <1>4 DEF KeptFiles

(* The step changes the entry of c, which keeps its device or gets the one *)
(* in its .devid file.                                                     *)
LEMMA EntryAwaits ==
  ASSUME IInv, NEW c \in Ctrl, NameInv(c), AwaitInv(c), UNCHANGED <<files, dev>>,
         \A m \in Name : RemovePending(m) => RemovePending(m)',
         ctrl[c] # None, ctrl'[c] # None,
         \/ ctrl'[c].dev = ctrl[c].dev
         \/ devid[c] \in Name /\ ctrl'[c].dev = devid[c] /\ Minded(devid[c], c),
         unit'[c] = "post" => unit[c] = "post", DoneOf(c)' => DoneOf(c),
         ctrl'[c].dev = None => ctrl'[c].retry \/ ctrl'[c].poll \/ Promised(c)'
  PROVE  NameInv(c)' /\ AwaitInv(c)' /\ \A n \in Name : Uses(c, n)' => Uses(c, n)
PROOF
  <1>1. devid' = devid /\ link' = link
    BY DEF files
  <1>2. RecInv(c) /\ DeviceInv(c)
    BY DEF AwaitInv
  <1>3. \A n \in Name : Minded(n, c) => Minded(n, c)'
    BY DEF Minded, Matches
  <1>4. RecInv(c)'
    <2> SUFFICES ASSUME NEW n \in Name, devid'[c] = n,
                        unit'[c] = "post" \/ DoneOf(c)' \/ LinksOf(c)' # {}
                 PROVE  Minded(n, c)'
      BY DEF RecInv
    <2>1. Minded(n, c)
      BY <1>1, <1>2 DEF RecInv, LinksOf
    <2> QED
      BY <1>3, <2>1
  <1>5. DeviceInv(c)'
    <2> SUFFICES ASSUME NEW n \in Name, ctrl'[c].dev = n PROVE Minded(n, c)'
      BY DEF DeviceInv
    <2>1. Minded(n, c)
      BY <1>2 DEF DeviceInv
    <2> QED
      BY <1>3, <2>1
  <1>6. WaitInv(c)'
    BY DEF WaitInv
  <1>7. NameInv(c)'
    BY <1>1 DEF NameInv
  <1>8. \A n \in Name : Uses(c, n)' => Uses(c, n)
    BY <1>1 DEF Uses
  <1> QED
    BY <1>4, <1>5, <1>6, <1>7, <1>8 DEF AwaitInv

(* The same for the step. *)
LEMMA EntryWaits ==
  ASSUME IInv, WInv, NEW c \in Ctrl, UNCHANGED <<files, dev>>, busy'.in # "down",
         \A m \in Name : RemovePending(m) => RemovePending(m)',
         \A t \in Ctrl \ {c} : KeptEntry(t) /\ KeptUnit(t) /\ SameEnds(t),
         \/ ctrl'[c] = None
         \/ /\ ctrl[c] # None /\ ctrl'[c] # None
            /\ \/ ctrl'[c].dev = ctrl[c].dev
               \/ devid[c] \in Name /\ ctrl'[c].dev = devid[c] /\ Minded(devid[c], c)
            /\ unit'[c] = "post" => unit[c] = "post"
            /\ DoneOf(c)' => DoneOf(c)
            /\ ctrl'[c].dev = None => ctrl'[c].retry \/ ctrl'[c].poll \/ Promised(c)'
  PROVE  WInv'
PROOF
  <1>1. devid' = devid /\ link' = link /\ open' = open
    BY DEF files
  <1>2. LinkInv' /\ DownInv'
    BY <1>1 DEF WInv, NamesInv, LinkInv, DownInv
  <1>3. FewerDevices /\ \A t \in Ctrl : StaysMinded(t)
    BY SameDevices
  <1>4. \A t \in Ctrl : KeptFiles(t)
    BY FilesSame DEF IInv, Types
  <1>5. \A t \in Ctrl \ {c} : Untouched(t)
    BY <1>1, <1>4 DEF Untouched
  <1>6. NameInv(c) /\ AwaitInv(c)
    BY DEF WInv, NamesInv
  <1>7. NameInv(c)' /\ AwaitInv(c)' /\ \A n \in Name : Uses(c, n)' => Uses(c, n)
    <2>1. CASE ctrl'[c] = None
      BY <1>1, <2>1, GoneAwaits DEF Uses
    <2>2. CASE ctrl'[c] # None
      BY <1>6, <2>2, EntryAwaits
    <2> QED
      BY <2>1, <2>2
  <1> QED
    BY <1>2, <1>3, <1>5, <1>7, OwnStep

(* A unit that is not loaded has no name. *)
LEMMA UnloadedNameless ==
  ASSUME IInv, NEW c \in Ctrl, unit[c] = "none"
  PROVE  devid[c] = None /\ devid[c] \notin Name
  BY Constants DEF IInv, DevidInv

(* unit_start() of a new entry. *)
LEMMA StartedWaits ==
  ASSUME IInv, WInv, NEW c \in Ctrl, unit_start(c), ctrl' = [ctrl EXCEPT ![c] = NewEntry],
         UNCHANGED <<files, dev, uevents>>, busy'.in # "down"
  PROVE  WInv'
PROOF
  <1>1. SystemdType /\ DaemonType /\ FilesType
    BY DEF IInv, Types
  <1>2. unit[c] = "none" /\ \A t \in Ctrl \ {c} : KeptUnit(t) /\ SameEnds(t)
    BY <1>1, CallOthers, StartCall
  <1>3. ctrl'[c] = NewEntry /\ \A t \in Ctrl \ {c} : KeptEntry(t)
    BY <1>1, OneEntry, Constants
  <1>4. ctrl'[c].dev = None
    BY <1>3 DEF NewEntry
  <1>5. devid' = devid /\ link' = link /\ open' = open
    BY DEF files
  <1>6. NameInv(c)' /\ AwaitInv(c)' /\ \A n \in Name : ~Uses(c, n)'
    BY <1>1, <1>2, <1>4, <1>5, UnloadedNameless, CallPromises, NamelessAwaits
  <1>7. LinkInv' /\ DownInv'
    BY <1>5 DEF WInv, NamesInv, LinkInv, DownInv
  <1>8. FewerDevices /\ \A t \in Ctrl : StaysMinded(t)
    BY SameDevices, SamePending
  <1>9. \A t \in Ctrl \ {c} : Untouched(t)
    BY <1>1, <1>2, <1>3, <1>5, FilesSame DEF Untouched
  <1> QED
    BY <1>6, <1>7, <1>8, <1>9, OwnStep

(* start_ctrl(): a new unit is waited for, an adopted one is connected. *)
LEMMA StartCtrlWaits ==
  ASSUME IInv, WInv, NEW c \in Ctrl, start_ctrl(c)
  PROVE  WInv'
PROOF
  <1>1. busy = Idle /\ c \notin Tracked /\ ctrl[c] = None /\ UNCHANGED <<dev, uevents>>
    BY DEF start_ctrl, Ready, Tracked
  <1>2. SystemdType /\ DaemonType /\ FilesType /\ LinkInv /\ DownInv
    BY DEF IInv, Types, WInv, NamesInv
  <1>3. FewerDevices /\ \A t \in Ctrl : StaysMinded(t)
    BY <1>1, SameDevices, SamePending
  <1>4. CASE unit_start(c) /\ ctrl' = [ctrl EXCEPT ![c] = NewEntry] /\ UNCHANGED <<files, busy>>
    <2>1. busy'.in # "down"
      BY <1>1, <1>4 DEF Idle
    <2> QED
      BY <1>1, <1>4, <2>1, StartedWaits
  <1>5. CASE /\ Matches(devid[c], c)
             /\ ctrl' = [ctrl EXCEPT ![c] = Linked(c, NewEntry, devid[c])]
             /\ UNCHANGED <<systemd, files, busy>>
    <2>1. PICK n \in Name : n = devid[c]
      BY <1>5 DEF Matches
    <2> DEFINE e == Linked(c, NewEntry, n)
    <2>2. e \in Entry /\ e.dev = n /\ n # None
      BY LinkedFields, Constants DEF NewEntry
    <2>3. ctrl' = [ctrl EXCEPT ![c] = e]
      BY <1>5, <2>1
    <2> HIDE DEF e
    <2>4. ctrl'[c] = e /\ \A t \in Ctrl \ {c} : KeptEntry(t)
      BY <1>2, <2>2, <2>3, OneEntry
    <2>5. devid' = devid /\ link' = link /\ open' = open /\ busy' = Idle
      BY <1>1, <1>5 DEF files
    <2>6. \A t \in Ctrl \ {c} : Untouched(t)
      BY <1>2, <1>5, <2>4, <2>5, FilesSame, CallOthers DEF Untouched
    <2>7. Matches(n, c)' /\ Minded(n, c)'
      BY <1>1, <1>5, <2>1 DEF Matches, Minded
    <2>8. RecInv(c)' /\ DeviceInv(c)' /\ WaitInv(c)' /\ NameInv(c)'
      BY <2>1, <2>2, <2>4, <2>5, <2>7 DEF RecInv, DeviceInv, WaitInv, NameInv
    <2>9. \A m \in Name : Uses(c, m)' => Uses(c, m)
      BY <2>1, <2>2, <2>4, <2>5 DEF Uses
    <2>10. LinkInv' /\ DownInv'
      BY <1>2, <2>5 DEF LinkInv, DownInv, Idle
    <2> QED
      BY <1>3, <2>6, <2>8, <2>9, <2>10, OwnStep DEF AwaitInv
  <1>6. CASE /\ Forget({c}, LinkedTo(c, {devid[c]})) /\ unit_stop(c)
             /\ busy' = [in |-> "replace", of |-> c] /\ UNCHANGED ctrl
    <2>1. /\ \A t \in Ctrl \ {c} : /\ KeptFiles(t) /\ devid'[t] = devid[t]
                                   /\ (t \in open' <=> t \in open)
          /\ FilesShrink /\ devid'[c] = None
          /\ LinksOf(c)' = {}
      BY <1>2, <1>6, ForgetOthers, LinksUnder
    <2>2. \A t \in Ctrl \ {c} : Untouched(t)
      BY <1>2, <1>6, <2>1, CallOthers, EntriesSame DEF Untouched
    <2>3. LinkInv'
      BY <1>2, <2>1, LinksShrink
    <2>4. DownInv'
      BY <1>2, <1>6, StillUp
    <2>5. ctrl'[c] = None
      BY <1>1, <1>6
    <2>6. NameInv(c)' /\ AwaitInv(c)' /\ \A n \in Name : ~Uses(c, n)'
      BY <2>1, <2>5, GoneAwaits, Constants DEF Uses
    <2> QED
      BY <1>3, <2>2, <2>3, <2>4, <2>6, OwnStep
  <1> QED
    BY <1>4, <1>5, <1>6 DEF start_ctrl

(* unit_wait_gone(): the replaced unit is started, or nothing happens. *)
LEMMA WaitGoneWaits ==
  ASSUME IInv, WInv, unit_wait_gone
  PROVE  WInv'
PROOF
  <1>1. PICK c \in Ctrl : c = busy.of
    BY DEF unit_wait_gone, IInv, BusyInv
  <1>2. busy' = Idle /\ busy'.in # "down" /\ UNCHANGED <<files, dev, uevents>>
    BY DEF unit_wait_gone, Idle
  <1>3. CASE unit_start(c) /\ ctrl' = [ctrl EXCEPT ![c] = NewEntry]
    BY <1>2, <1>3, StartedWaits
  <1>4. CASE UNCHANGED <<systemd, ctrl>>
    <2>1. LinkInv' /\ DownInv'
      BY <1>2 DEF files, LinkInv, DownInv, WInv, NamesInv
    <2>2. FewerDevices /\ \A t \in Ctrl : StaysMinded(t)
      BY <1>2, SameDevices, SamePending
    <2>3. \A t \in Ctrl : KeptEntry(t) /\ KeptUnit(t) /\ KeptFiles(t)
      BY <1>2, <1>4, EntriesSame, SystemdSame, FilesSame DEF IInv, Types
    <2>4. \A t \in Ctrl : SameEnds(t) /\ (t \in open' <=> t \in open)
      BY <1>2, <1>4, EndsUnchanged DEF files, systemd
    <2> QED
      BY <2>1, <2>2, <2>3, <2>4, NobodysStep DEF Untouched
  <1> QED
    BY <1>1, <1>3, <1>4 DEF unit_wait_gone

(* retry_timeout() and epcsd_poll_timeout(): the timer's turn is handed to *)
(* a job, or to the retry timer.                                           *)
LEMMA TimeoutWaits ==
  ASSUME IInv, WInv, NEW c \in Ctrl, ctrl[c] # None, busy = Idle,
         NEW e \in Entry, e.dev = ctrl[c].dev, Timeout(c, e)
  PROVE  WInv'
PROOF
  <1>1. UNCHANGED <<files, dev, uevents, busy>> /\ busy'.in # "down"
    BY DEF Timeout, Idle
  <1>2. SystemdType /\ DaemonType /\ e # None
    BY Constants DEF IInv, Types
  <1>3. \A m \in Name : RemovePending(m) => RemovePending(m)'
    BY <1>1, SamePending
  <1>4. CASE (unit_restart(c) \/ unit_start(c)) /\ ctrl' = [ctrl EXCEPT ![c] = e]
    <2>1. ctrl'[c] = e /\ \A t \in Ctrl \ {c} : KeptEntry(t)
      BY <1>2, <1>4, OneEntry
    <2>2. Promised(c)'
      BY <1>2, <1>4, CallPromises
    <2>3. /\ \A t \in Ctrl \ {c} : KeptUnit(t) /\ SameEnds(t)
          /\ DoneOf(c)' => DoneOf(c)
          /\ unit'[c] = "post" => unit[c] = "post"
      BY <1>2, <1>4, CallOthers
    <2> QED
      BY <1>1, <1>2, <1>3, <2>1, <2>2, <2>3, EntryWaits
  <1>5. CASE ctrl' = [ctrl EXCEPT ![c] = [e EXCEPT !.retry = TRUE]] /\ UNCHANGED systemd
    <2> DEFINE f == [e EXCEPT !.retry = TRUE]
    <2>1. f \in Entry /\ f.dev = e.dev /\ f.retry = TRUE
      BY EntryFields
    <2>2. ctrl' = [ctrl EXCEPT ![c] = f]
      BY <1>5
    <2> HIDE DEF f
    <2>3. ctrl'[c] = f /\ \A t \in Ctrl \ {c} : KeptEntry(t)
      BY <1>2, <2>1, <2>2, OneEntry
    <2>4. /\ \A t \in Ctrl \ {c} : KeptUnit(t) /\ SameEnds(t)
          /\ DoneOf(c)' => DoneOf(c)
          /\ unit'[c] = "post" => unit[c] = "post"
      BY <1>2, <1>5, CallOthers
    <2> QED
      BY <1>1, <1>2, <1>3, <2>1, <2>3, <2>4, EntryWaits, Constants
  <1>6. CASE ctrl_remove(c) /\ UNCHANGED systemd
    <2>1. ctrl' = [ctrl EXCEPT ![c] = None]
      BY <1>6 DEF ctrl_remove
    <2>2. ctrl'[c] = None /\ \A t \in Ctrl \ {c} : KeptEntry(t)
      BY <1>2, <2>1, OneEntry
    <2>3. \A t \in Ctrl \ {c} : KeptUnit(t) /\ SameEnds(t)
      BY <1>2, <1>6, CallOthers
    <2> QED
      BY <1>1, <1>3, <2>2, <2>3, EntryWaits
  <1> QED
    BY <1>4, <1>5, <1>6 DEF Timeout, restart_or_start

(* The two timers. *)
LEMMA TimeoutsWait ==
  ASSUME IInv, WInv, NEW c \in Ctrl, retry_timeout(c) \/ epcsd_poll_timeout(c)
  PROVE  WInv'
PROOF
  <1>1. busy = Idle /\ c \in Tracked /\ ctrl[c] # None
    BY DEF retry_timeout, epcsd_poll_timeout, Ready, Tracked
  <1>2. ctrl[c] \in Entry
    BY <1>1, EntryOf
  <1> DEFINE e == [ctrl[c] EXCEPT !.retry = FALSE]
             f == [ctrl[c] EXCEPT !.poll = FALSE]
  <1>3. e \in Entry /\ e.dev = ctrl[c].dev /\ f \in Entry /\ f.dev = ctrl[c].dev
    BY <1>2, EntryFields
  <1>4. Timeout(c, e) \/ Timeout(c, f)
    BY DEF retry_timeout, epcsd_poll_timeout
  <1> HIDE DEF e, f
  <1> QED
    BY <1>1, <1>3, <1>4, TimeoutWaits

(* on_job_done(): a done job's name is minded and linked; an end without a *)
(* name was not the one that c waits for.                                  *)
LEMMA JobDoneWaits ==
  ASSUME IInv, WInv, on_job_done
  PROVE  WInv'
PROOF
  <1>1. /\ busy = Idle /\ ends # <<>> /\ ends' = Tail(ends)
        /\ UNCHANGED <<busy, uevents, unit, job, jobs, files, dev>>
        /\ busy'.in # "down"
    BY DEF on_job_done, Ready, Idle
  <1>2. SystemdType /\ DaemonType
    BY DEF IInv, Types
  <1>3. PICK c \in Ctrl : c = Head(ends).of
    BY <1>1, <1>2, TailEnds DEF EndRecord
  <1>4. /\ \A t \in Ctrl \ {c} : SameEnds(t)
        /\ DoneOf(c)' => DoneOf(c)
        /\ Head(ends).done => DoneOf(c) /\ (FailOf(c) => FailOf(c)')
    BY <1>1, <1>2, <1>3, EndTaken
  <1>5. Head(ends).done \in BOOLEAN
    BY <1>1, <1>2, TailEnds DEF EndRecord
  <1>6. \A t \in Ctrl \ {c} : KeptUnit(t)
    BY <1>1 DEF KeptUnit
  <1>7. \A m \in Name : RemovePending(m) => RemovePending(m)'
    BY <1>1, SamePending
  <1>8. /\ ctrl[c] = None => ctrl' = [ctrl EXCEPT ![c] = None]
        /\ ctrl[c] # None /\ ~Head(ends).done =>
              ctrl' = [ctrl EXCEPT ![c] = [ctrl[c] EXCEPT !.retry = TRUE]]
        /\ ctrl[c] # None /\ Head(ends).done /\ devid[c] \in Name =>
              ctrl' = [ctrl EXCEPT ![c] = Linked(c, ctrl[c], devid[c])]
        /\ ctrl[c] # None /\ Head(ends).done /\ devid[c] \notin Name =>
              ctrl' = [ctrl EXCEPT ![c] = ctrl[c]]
    BY <1>2, <1>3 DEF on_job_done, DaemonType
  <1>9. CASE ctrl[c] = None
    <2>1. ctrl'[c] = None /\ \A t \in Ctrl \ {c} : KeptEntry(t)
      BY <1>2, <1>8, <1>9, OneEntry
    <2> QED
      BY <1>1, <1>4, <1>6, <1>7, <2>1, EntryWaits
  <1>10. CASE ctrl[c] # None /\ ~Head(ends).done
    <2> DEFINE f == [ctrl[c] EXCEPT !.retry = TRUE]
    <2>1. f \in Entry /\ f.dev = ctrl[c].dev /\ f.retry = TRUE
      BY <1>10, EntryOf, EntryFields
    <2>2. ctrl' = [ctrl EXCEPT ![c] = f]
      BY <1>8, <1>10
    <2> HIDE DEF f
    <2>3. ctrl'[c] = f /\ f # None /\ \A t \in Ctrl \ {c} : KeptEntry(t)
      BY <1>2, <2>1, <2>2, OneEntry, Constants
    <2> QED
      BY <1>1, <1>4, <1>6, <1>7, <1>10, <2>1, <2>3, EntryWaits
  <1>11. CASE ctrl[c] # None /\ Head(ends).done /\ devid[c] \in Name
    <2> DEFINE f == Linked(c, ctrl[c], devid[c])
    <2>1. f \in Entry /\ f.dev = IF ctrl[c].dev # None THEN ctrl[c].dev ELSE devid[c]
      BY <1>11, EntryOf, LinkedFields
    <2>2. ctrl' = [ctrl EXCEPT ![c] = f]
      BY <1>8, <1>11
    <2> HIDE DEF f
    <2>3. ctrl'[c] = f /\ f # None /\ f.dev # None /\ \A t \in Ctrl \ {c} : KeptEntry(t)
      BY <1>2, <1>11, <2>1, <2>2, OneEntry, Constants
    <2>4. Minded(devid[c], c)
      BY <1>4, <1>11 DEF WInv, AwaitInv, RecInv
    <2> QED
      BY <1>1, <1>4, <1>6, <1>7, <1>11, <2>1, <2>3, <2>4, EntryWaits
  <1>12. CASE ctrl[c] # None /\ Head(ends).done /\ devid[c] \notin Name
    <2>1. ctrl' = ctrl /\ \A t \in Ctrl \ {c} : KeptEntry(t)
      BY <1>2, <1>8, <1>12, EntriesSame DEF DaemonType
    <2>2. WaitInv(c)
      BY <1>12 DEF WInv, AwaitInv
    <2>3. Promised(c) => Promised(c)'
      BY <1>1, <1>4, <1>12 DEF Promised, files
    <2> QED
      BY <1>1, <1>4, <1>6, <1>7, <1>12, <2>1, <2>2, <2>3, EntryWaits DEF WaitInv
  <1> QED
    BY <1>5, <1>9, <1>10, <1>11, <1>12

(* on_dlp_read(): a DC that is parked has the poll timer. *)
LEMMA DlpReadWaits ==
  ASSUME IInv, WInv, NEW c \in Ctrl, NEW epcsd \in BOOLEAN, on_dlp_read(c, epcsd)
  PROVE  WInv'
PROOF
  <1> DEFINE read == [ctrl[c] EXCEPT !.read = "no"]
             e == IF ctrl[c].read = "again" /\ read.dev # None THEN Fetch(read) ELSE read
  <1>1. /\ busy = Idle /\ ctrl[c] # None /\ UNCHANGED <<busy, uevents, files, dev>>
        /\ busy'.in # "down"
    BY DEF on_dlp_read, Ready, Idle, Tracked
  <1>2. SystemdType /\ DaemonType /\ ctrl[c] \in Entry /\ WaitInv(c)
    BY <1>1, EntryOf DEF IInv, Types, WInv, AwaitInv
  <1>3. \/ ctrl' = [ctrl EXCEPT ![c] = e] /\ UNCHANGED systemd
        \/ ctrl' = [ctrl EXCEPT ![c] = [e EXCEPT !.poll = TRUE]] /\ unit_stop(c)
    BY DEF on_dlp_read, epcsd_park
  <1>4. /\ read \in Entry /\ read.dev = ctrl[c].dev /\ read.retry = ctrl[c].retry
        /\ read.poll = ctrl[c].poll
    BY <1>2, EntryFields
  <1> HIDE DEF read
  <1>5. e \in Entry /\ e.dev = ctrl[c].dev /\ e.retry = ctrl[c].retry /\ e.poll = ctrl[c].poll
        /\ e # None
    BY <1>4, FetchFields, Constants
  <1> HIDE DEF e
  <1>6. \A m \in Name : RemovePending(m) => RemovePending(m)'
    BY <1>1, SamePending
  <1>7. /\ \A t \in Ctrl \ {c} : KeptUnit(t) /\ SameEnds(t)
        /\ DoneOf(c)' => DoneOf(c)
        /\ unit'[c] = "post" => unit[c] = "post"
    BY <1>2, <1>3, CallOthers
  <1>8. CASE ctrl' = [ctrl EXCEPT ![c] = e] /\ UNCHANGED systemd
    <2>1. ctrl'[c] = e /\ \A t \in Ctrl \ {c} : KeptEntry(t)
      BY <1>2, <1>5, <1>8, OneEntry
    <2>2. Promised(c) => Promised(c)'
      BY <1>1, <1>8 DEF Promised, files, systemd, DoneOf, FailOf
    <2> QED
      BY <1>1, <1>2, <1>5, <1>6, <1>7, <2>1, <2>2, EntryWaits DEF WaitInv
  <1>9. CASE ctrl' = [ctrl EXCEPT ![c] = [e EXCEPT !.poll = TRUE]] /\ unit_stop(c)
    <2> DEFINE f == [e EXCEPT !.poll = TRUE]
    <2>1. f \in Entry /\ f.dev = e.dev /\ f.poll = TRUE
      BY <1>5, EntryFields
    <2>2. ctrl' = [ctrl EXCEPT ![c] = f]
      BY <1>9
    <2> HIDE DEF f
    <2>3. ctrl'[c] = f /\ f # None /\ \A t \in Ctrl \ {c} : KeptEntry(t)
      BY <1>2, <2>1, <2>2, OneEntry, Constants
    <2> QED
      BY <1>1, <1>5, <1>6, <1>7, <2>1, <2>3, EntryWaits
  <1> QED
    BY <1>3, <1>8, <1>9

(* on_nvme_remove() of n, whose removal is not queued any more. A new      *)
(* device on n is its user's; else the records go, and with them the name; *)
(* a user whose device it was gets a timer or a job.                       *)
LEMMA NvmeRemoveWaits ==
  ASSUME IInv, WInv, NEW n \in Name, on_nvme_remove(n), ~EndDue(n), busy = Idle,
         UNCHANGED <<busy, dev>>,
         \A m \in Name : RemovePending(m) => m = n \/ RemovePending(m)'
  PROVE  WInv'
PROOF
  <1>1. SystemdType /\ DaemonType /\ FilesType
    BY DEF IInv, Types
  <1>2. DownInv /\ UseInv /\ MatchInv /\ LinkInv /\ \A c \in Ctrl : NameInv(c) /\ AwaitInv(c)
    BY DEF WInv, NamesInv
  <1>3. FewerDevices
    BY DEF FewerDevices, Matches
  <1>4. \A m \in Name : \A t : Minded(m, t) => m = n \/ Minded(m, t)'
    BY DEF Minded, Matches
  <1>5. DownInv'
    BY <1>2, StillUp DEF Idle
  <1>6. ASSUME NEW t \in Ctrl, ~Uses(t, n) PROVE StaysMinded(t)
    BY <1>4, <1>6 DEF StaysMinded
  <1>7. CASE NewDeviceOn(n) /\ UNCHANGED <<ctrl, systemd, files>>
    <2>1. dev[n] # None /\ link[n] # None /\ link[n].ino = dev[n].ino /\ ~dev[n].deleting
      BY <1>7 DEF NewDeviceOn, state_ctrl_present
    <2>2. PICK c \in Ctrl : c = link[n].of
      BY <1>1, <2>1 DEF FilesType, LinkRecord
    <2>3. dev[n].of = c /\ Uses(c, n)
      BY <1>2, <2>1, <2>2 DEF IInv, OwnInv, LinkInv, Uses
    <2>4. ASSUME NEW t \in Ctrl, Uses(t, n) PROVE Minded(n, t)'
      <3>1. t = c
        BY <1>2, <2>3, <2>4 DEF UseInv
      <3> QED
        BY <2>1, <2>3, <3>1 DEF Minded, Matches
    <2>5. \A t \in Ctrl : StaysMinded(t)
      BY <1>4, <2>4 DEF StaysMinded
    <2>6. \A t \in Ctrl : KeptEntry(t) /\ KeptUnit(t) /\ KeptFiles(t)
      BY <1>1, <1>7, EntriesSame, SystemdSame, FilesSame
    <2>7. \A t \in Ctrl : SameEnds(t) /\ (t \in open' <=> t \in open)
      BY <1>7, EndsUnchanged DEF files, systemd
    <2>8. LinkInv'
      BY <1>2, <1>7 DEF files, LinkInv
    <2> QED
      BY <1>3, <1>5, <2>5, <2>6, <2>7, <2>8, NobodysStep DEF Untouched
  <1>8. CASE /\ {c \in Tracked : ctrl[c].dev = n} = {}
             /\ Forget({}, {n}) /\ UNCHANGED <<ctrl, systemd>>
    <2>1. /\ FilesShrink /\ \A t \in Ctrl : KeptFiles(t) /\ devid'[t] = devid[t]
          /\ \A m \in Name : link'[m] = IF m \in {n} THEN None ELSE link[m]
      <3>1. {} \in SUBSET Ctrl
        OBVIOUS
      <3> QED
        BY <1>1, <1>8, <3>1, ForgetFacts DEF KeptFiles
    <2>2. open' = open
      BY <1>8 DEF Forget
    <2>3. \A t \in Ctrl : KeptEntry(t) /\ KeptUnit(t)
      BY <1>1, <1>8, EntriesSame, SystemdSame
    <2>4. \A t \in Ctrl : SameEnds(t)
      BY <1>8, EndsUnchanged DEF systemd
    <2>5. \A t \in Ctrl : Untouched(t)
      BY <2>1, <2>2, <2>3, <2>4 DEF Untouched
    <2>6. LinkInv'
      <3> SUFFICES ASSUME NEW m \in Name, link'[m] # None PROVE devid'[link'[m].of] = m
        BY DEF LinkInv
      <3>1. link'[m] = link[m] /\ link[m].of \in Ctrl
        BY <1>1, <2>1 DEF FilesType, LinkRecord
      <3> QED
        BY <1>2, <2>1, <3>1 DEF LinkInv
    <2>7. \A t \in Ctrl : ctrl[t] # None => ctrl[t].dev # n
      BY <1>8 DEF Tracked
    <2>8. CASE \A t \in Ctrl : devid[t] # n
      <3>1. \A t \in Ctrl : ~Uses(t, n)
        BY <2>7, <2>8 DEF Uses
      <3> QED
        BY <1>3, <1>5, <1>6, <2>5, <2>6, <3>1, NobodysStep
    <2>9. ASSUME NEW c \in Ctrl, devid[c] = n PROVE WInv'
      <3>1. Uses(c, n)
        BY <2>9 DEF Uses
      <3>2. \A t \in Ctrl \ {c} : StaysMinded(t)
        BY <1>2, <1>6, <3>1 DEF UseInv
      <3>3. LinksOf(c)' = {}
        BY <1>2, <2>1, <2>9, LinksUnder, ForgottenLinks
      <3>4. unit[c] # "post" /\ ~EndOf(c)
        BY <2>9 DEF EndDue
      <3>5. ~DoneOf(c) /\ ~FailOf(c)
        BY <3>4 DEF EndOf, DoneOf, FailOf
      <3>6. unit' = unit /\ jobs' = jobs /\ ctrl' = ctrl /\ devid'[c] = devid[c]
            /\ ~DoneOf(c)' /\ ~FailOf(c)'
        BY <1>8, <2>1, <2>4, <3>5 DEF systemd, SameEnds
      <3>7. NameInv(c)' /\ \A m \in Name : Uses(c, m)' => Uses(c, m)
        BY <1>2, <3>6 DEF NameInv, Uses
      <3>8. RecInv(c)'
        BY <3>3, <3>4, <3>6 DEF RecInv
      <3>9. ctrl[c] # None => DeviceInv(c)'
        <4> SUFFICES ASSUME ctrl[c] # None, NEW m \in Name, ctrl'[c].dev = m
                     PROVE  Minded(m, c)'
          BY DEF DeviceInv
        <4>1. m # n /\ Minded(m, c)
          BY <1>2, <2>7, <3>6 DEF AwaitInv, DeviceInv
        <4> QED
          BY <1>4, <4>1
      <3>10. ctrl[c] # None => WaitInv(c)'
        <4>1. Promised(c) => Promised(c)'
          BY <2>2, <3>5, <3>6 DEF Promised
        <4> QED
          BY <1>2, <3>6, <4>1 DEF AwaitInv, WaitInv
      <3> QED
        BY <1>3, <1>5, <2>5, <2>6, <3>2, <3>6, <3>7, <3>8, <3>9, <3>10, OwnStep DEF AwaitInv
    <2> QED
      BY <2>8, <2>9
  <1>9. ASSUME NEW c \in Tracked, ctrl[c].dev = n, Forget({c}, {n}),
               LET e == [ctrl[c] EXCEPT !.dev = None]
               IN  \/ unit_stop(c) /\ ctrl_remove(c)
                   \/ e.poll /\ ctrl' = [ctrl EXCEPT ![c] = e] /\ UNCHANGED systemd
                   \/ ctrl_remove(c) /\ UNCHANGED systemd
                   \/ restart_or_start(c, e)
        PROVE  WInv'
    <2> DEFINE e == [ctrl[c] EXCEPT !.dev = None]
    <2>1. c \in Ctrl /\ ctrl[c] # None /\ ctrl[c] \in Entry
      BY <1>1 DEF Tracked, DaemonType
    <2>2. e \in Entry /\ e.dev = None
      BY <2>1 DEF Entry
    <2>3. \/ unit_stop(c) /\ ctrl' = [ctrl EXCEPT ![c] = None]
          \/ UNCHANGED systemd /\ ctrl' = [ctrl EXCEPT ![c] = None]
          \/ e.poll /\ ctrl' = [ctrl EXCEPT ![c] = e] /\ UNCHANGED systemd
          \/ (unit_restart(c) \/ unit_start(c)) /\ ctrl' = [ctrl EXCEPT ![c] = e]
          \/ ctrl' = [ctrl EXCEPT ![c] = [e EXCEPT !.retry = TRUE]] /\ UNCHANGED systemd
      BY <1>9 DEF ctrl_remove, restart_or_start
    <2> HIDE DEF e
    <2>4. Uses(c, n)
      BY <1>9, <2>1 DEF Uses
    <2>5. \A t \in Ctrl \ {c} : StaysMinded(t)
      BY <1>2, <1>6, <2>1, <2>4 DEF UseInv
    <2>6. LinksOf(c) \subseteq {n}
      BY <1>2, <1>9, <2>1, LinksUnder, Constants DEF NameInv
    <2>7. /\ \A t \in Ctrl \ {c} : /\ KeptFiles(t) /\ devid'[t] = devid[t]
                                   /\ (t \in open' <=> t \in open)
          /\ FilesShrink /\ devid'[c] = None /\ LinksOf(c)' = {}
      BY <1>1, <1>9, <2>1, <2>6, ForgetOthers
    <2>8. LinkInv'
      BY <1>2, <2>1, <2>7, LinksShrink
    <2>9. \A t \in Ctrl \ {c} : KeptUnit(t) /\ SameEnds(t)
      BY <1>1, <2>1, <2>3, CallOthers
    <2>10. /\ \A t \in Ctrl \ {c} : KeptEntry(t)
           /\ ctrl'[c] # None => /\ ctrl'[c].dev = None
                                 /\ ctrl'[c].retry \/ ctrl'[c].poll \/ Promised(c)'
      <3>1. CASE ctrl' = [ctrl EXCEPT ![c] = None]
        BY <1>1, <2>1, <3>1, OneEntry
      <3>2. CASE ctrl' = [ctrl EXCEPT ![c] = e] /\ (e.poll \/ Promised(c)')
        BY <1>1, <2>1, <2>2, <3>2, OneEntry
      <3>3. CASE ctrl' = [ctrl EXCEPT ![c] = [e EXCEPT !.retry = TRUE]]
        <4> DEFINE f == [e EXCEPT !.retry = TRUE]
        <4>1. f \in Entry /\ f.dev = None /\ f.retry = TRUE
          BY <2>2, EntryFields
        <4>2. ctrl' = [ctrl EXCEPT ![c] = f]
          BY <3>3
        <4> HIDE DEF f
        <4> QED
          BY <1>1, <2>1, <4>1, <4>2, OneEntry
      <3>4. unit_restart(c) \/ unit_start(c) => Promised(c)'
        BY <1>1, <2>1, CallPromises
      <3> QED
        BY <2>3, <3>1, <3>2, <3>3, <3>4
    <2>11. NameInv(c)' /\ AwaitInv(c)' /\ \A m \in Name : ~Uses(c, m)'
      BY <2>7, <2>10, NamelessAwaits, Constants
    <2>12. \A t \in Ctrl \ {c} : Untouched(t)
      BY <2>7, <2>9, <2>10 DEF Untouched
    <2> QED
      BY <1>3, <1>5, <2>1, <2>5, <2>8, <2>11, <2>12, OwnStep
  <1> QED
    BY <1>7, <1>8, <1>9 DEF on_nvme_remove

(* handle_nvme(): only a removal that is handled was minded. *)
LEMMA HandleNvmeWaits ==
  ASSUME "late" \notin Races, IInv, WInv, handle_nvme
  PROVE  WInv'
PROOF
  <1>1. /\ busy = Idle /\ uevents # <<>> /\ uevents' = Tail(uevents)
        /\ UNCHANGED <<busy, dev>>
    BY DEF handle_nvme, Ready
  <1>2. SystemdType /\ DaemonType /\ FilesType /\ QueueType
    BY DEF IInv, Types
  <1>3. PICK n \in Name : n = Head(uevents).name
    BY <1>1, <1>2, QueueFacts
  <1>4. \A m \in Name : RemovePending(m) =>
           RemovePending(m)' \/ (Head(uevents).act = "remove" /\ n = m)
    BY <1>1, <1>2, <1>3, UeventTaken
  <1>5. CASE Head(uevents).act # "remove"
    <2>1. FewerDevices /\ \A t \in Ctrl : StaysMinded(t)
      BY <1>1, <1>4, <1>5, SameDevices
    <2>2. UNCHANGED <<systemd, files>> /\ (UNCHANGED ctrl \/ on_dc_changed(n))
      BY <1>3, <1>5 DEF handle_nvme
    <2>3. \A t \in Ctrl : KeptEntry(t)
      <3>1. CASE UNCHANGED ctrl
        BY <3>1, EntriesSame
      <3>2. CASE on_dc_changed(n)
        <4> SUFFICES ASSUME NEW t \in Ctrl PROVE KeptEntry(t)
          OBVIOUS
        <4>1. ctrl'[t] = IF t \in Tracked /\ ctrl[t].dev = n THEN Fetch(ctrl[t]) ELSE ctrl[t]
          BY <3>2 DEF on_dc_changed
        <4>2. CASE ctrl[t] = None
          BY <4>1, <4>2 DEF KeptEntry, Tracked
        <4>3. CASE ctrl[t] # None
          <5>1. /\ Fetch(ctrl[t]) \in Entry /\ Fetch(ctrl[t]).dev = ctrl[t].dev
                /\ Fetch(ctrl[t]).retry = ctrl[t].retry /\ Fetch(ctrl[t]).poll = ctrl[t].poll
            BY <4>3, EntryOf, FetchFields
          <5> QED
            BY <4>1, <4>3, <5>1, Constants DEF KeptEntry
        <4> QED
          BY <4>2, <4>3
      <3> QED
        BY <2>2, <3>1, <3>2
    <2>4. \A t \in Ctrl : KeptUnit(t) /\ KeptFiles(t) /\ SameEnds(t)
      BY <1>2, <2>2, SystemdSame, FilesSame, EndsUnchanged DEF systemd
    <2>5. \A t \in Ctrl : Untouched(t)
      BY <2>2, <2>3, <2>4 DEF Untouched, files
    <2>6. LinkInv' /\ DownInv'
      BY <1>1, <2>2, StillUp DEF files, LinkInv, WInv, NamesInv, Idle
    <2> QED
      BY <2>1, <2>5, <2>6, NobodysStep
  <1>6. CASE Head(uevents).act = "remove"
    <2>1. on_nvme_remove(n) /\ ~EndDue(n)
      BY <1>3, <1>6 DEF handle_nvme
    <2> QED
      BY <1>1, <1>4, <2>1, NvmeRemoveWaits
  <1> QED
    BY <1>5, <1>6

(* soak_timeout(): the recorded name of the device is minded. *)
LEMMA SoakWaits ==
  ASSUME "late" \notin Races, IInv, WInv, soak_timeout
  PROVE  WInv'
PROOF
  <1>1. /\ busy = Idle /\ soak # <<>> /\ UNCHANGED <<busy, uevents, dev>> /\ busy'.in # "down"
    BY DEF soak_timeout, Ready, Idle
  <1>2. SystemdType /\ DaemonType /\ FilesType /\ QueueType
    BY DEF IInv, Types
  <1>3. PICK n \in Name : n = Head(soak)
    BY <1>1, <1>2, QueueFacts
  <1>4. \A m \in Name : RemovePending(m) => RemovePending(m)'
    BY <1>1, SamePending
  <1>5. CASE on_nvme_remove(n)
    <2>1. ~EndDue(n)
      BY <1>3 DEF soak_timeout
    <2> QED
      BY <1>1, <1>4, <1>5, <2>1, NvmeRemoveWaits
  <1>6. CASE /\ ctrl' = [c \in Ctrl |->
                            IF c \in Tracked /\ link[n] # None /\ link[n].of = c
                            THEN Linked(c, ctrl[c], n) ELSE ctrl[c]]
             /\ UNCHANGED <<systemd, files>>
    <2>1. \A t \in Ctrl : ctrl'[t] = IF t \in Tracked /\ link[n] # None /\ link[n].of = t
                                     THEN Linked(t, ctrl[t], n) ELSE ctrl[t]
      BY <1>6
    <2>2. \A t \in Ctrl : KeptUnit(t) /\ KeptFiles(t) /\ SameEnds(t)
      BY <1>2, <1>6, SystemdSame, FilesSame, EndsUnchanged DEF systemd
    <2>3. CASE link[n] = None \/ link[n].of \notin Tracked
      <3>1. \A t \in Ctrl : Untouched(t)
        BY <1>6, <2>1, <2>2, <2>3 DEF Untouched, files, KeptEntry
      <3>2. FewerDevices /\ \A t \in Ctrl : StaysMinded(t)
        BY <1>1, <1>4, SameDevices
      <3>3. LinkInv' /\ DownInv'
        BY <1>1, <1>6, StillUp DEF files, LinkInv, WInv, NamesInv
      <3> QED
        BY <3>1, <3>2, <3>3, NobodysStep
    <2>4. CASE link[n] # None /\ link[n].of \in Tracked
      <3>1. PICK c \in Ctrl : c = link[n].of /\ ctrl[c] # None
        BY <2>4 DEF Tracked
      <3>2. devid[c] = n /\ n \in LinksOf(c)
        BY <2>4, <3>1 DEF WInv, NamesInv, LinkInv, LinksOf
      <3>3. Minded(n, c)
        BY <3>1, <3>2 DEF WInv, AwaitInv, RecInv
      <3>4. /\ Linked(c, ctrl[c], n) \in Entry
            /\ Linked(c, ctrl[c], n).dev = IF ctrl[c].dev # None THEN ctrl[c].dev ELSE n
        BY <3>1, EntryOf, LinkedFields
      <3>5. ctrl'[c] = Linked(c, ctrl[c], n)
        BY <2>1, <2>4, <3>1
      <3>6. \A t \in Ctrl \ {c} : KeptEntry(t)
        BY <2>1, <3>1 DEF KeptEntry
      <3>7. unit' = unit /\ (DoneOf(c)' => DoneOf(c))
        BY <1>6, <2>2 DEF systemd, SameEnds
      <3>8. ctrl'[c] # None /\ ctrl'[c].dev # None
        BY <3>4, <3>5, Constants
      <3> QED
        BY <1>1, <1>4, <1>6, <2>2, <3>1, <3>2, <3>3, <3>4, <3>5, <3>6, <3>7, <3>8, EntryWaits
    <2> QED
      BY <2>3, <2>4
  <1> QED
    BY <1>3, <1>5, <1>6 DEF soak_timeout

(* release_unit(): all records of c go. *)
LEMMA ReleaseWaits ==
  ASSUME "stale" \notin Races, IInv, WInv, NEW c \in Ctrl, release_unit(c)
  PROVE  WInv'
PROOF
  <1> DEFINE n == IF c \in Tracked /\ ctrl[c].dev # None THEN ctrl[c].dev ELSE devid[c]
             named == IF c \in Tracked \/ Matches(n, c) THEN {n} ELSE {}
  <1>1. /\ ctrl' = [ctrl EXCEPT ![c] = None] /\ busy'.in = "release"
        /\ UNCHANGED <<uevents, systemd, dev>>
        /\ Forget({c}, LinkedTo(c, named))
        /\ c \in Tracked \/ Matches(devid[c], c) \/ LinkedTo(c, {devid[c]}) = {}
    BY DEF release_unit, ctrl_remove, ReleaseFiles
  <1>2. SystemdType /\ DaemonType /\ FilesType
    BY DEF IInv, Types
  <1>3. DownInv /\ LinkInv /\ NameInv(c)
    BY DEF WInv, NamesInv
  <1>4. LinksOf(c) \subseteq {devid[c]} /\ LinksOf(c) \subseteq LinkedTo(c, {devid[c]})
        /\ (devid[c] \notin Name => LinksOf(c) = {})
    BY <1>3, LinksUnder
  <1>5. LinksOf(c) \subseteq LinkedTo(c, named)
    <2>1. CASE c \in Tracked /\ ctrl[c].dev # None
      <3>1. devid[c] = ctrl[c].dev \/ LinksOf(c) = {}
        BY <1>3, <1>4, <2>1, Constants DEF NameInv, Tracked
      <3>2. named = {ctrl[c].dev}
        BY <2>1
      <3> QED
        BY <1>4, <3>1, <3>2
    <2>2. CASE ~(c \in Tracked /\ ctrl[c].dev # None)
      <3>1. n = devid[c]
        BY <2>2
      <3>2. named = {devid[c]} \/ LinkedTo(c, {devid[c]}) = {}
        BY <1>1, <3>1
      <3> QED
        BY <1>4, <3>2
    <2> QED
      BY <2>1, <2>2
  <1> HIDE DEF named
  <1>6. /\ \A t \in Ctrl \ {c} : /\ KeptFiles(t) /\ devid'[t] = devid[t]
                                 /\ (t \in open' <=> t \in open)
        /\ FilesShrink /\ devid'[c] = None /\ LinksOf(c)' = {}
    BY <1>1, <1>2, <1>5, ForgetOthers
  <1>7. LinkInv'
    BY <1>3, <1>6, LinksShrink
  <1>8. DownInv'
    BY <1>1, <1>3, StillUp
  <1>9. ctrl'[c] = None /\ \A t \in Ctrl \ {c} : KeptEntry(t)
    BY <1>1, <1>2, OneEntry
  <1>10. \A t \in Ctrl \ {c} : Untouched(t)
    BY <1>1, <1>2, <1>6, <1>9, CallOthers DEF Untouched
  <1>11. FewerDevices /\ \A t \in Ctrl : StaysMinded(t)
    BY <1>1, SameDevices, SamePending
  <1>12. NameInv(c)' /\ AwaitInv(c)' /\ \A m \in Name : ~Uses(c, m)'
    BY <1>6, <1>9, GoneAwaits, Constants DEF Uses
  <1> QED
    BY <1>7, <1>8, <1>10, <1>11, <1>12, OwnStep

(* The StopUnit call of release_unit(): the controller is not tracked. *)
LEMMA ReleaseStopWaits ==
  ASSUME IInv, WInv, release_stop
  PROVE  WInv'
PROOF
  <1>1. /\ busy.in = "release" /\ unit_stop(busy.of) /\ busy' = Idle /\ busy'.in # "down"
        /\ UNCHANGED <<ctrl, uevents, files, dev>>
    BY DEF release_stop, Idle
  <1>2. PICK c \in Ctrl : c = busy.of
    BY <1>1 DEF IInv, BusyInv
  <1>3. ctrl'[c] = None
    BY <1>1, <1>2 DEF IInv, BusyInv, Tracked
  <1>4. \A t \in Ctrl \ {c} : KeptEntry(t) /\ KeptUnit(t) /\ SameEnds(t)
    BY <1>1, <1>2, EntriesSame, CallOthers DEF IInv, Types
  <1>5. \A m \in Name : RemovePending(m) => RemovePending(m)'
    BY <1>1, SamePending
  <1> QED
    BY <1>1, <1>3, <1>4, <1>5, EntryWaits

--------------------------------------------------------------------------------
(* The unit. *)

(* The unit of c makes a step, its entry stays. *)
LEMMA UnitAwaits ==
  ASSUME IInv, NEW c \in Ctrl, NameInv(c), AwaitInv(c), UNCHANGED ctrl,
         StaysMinded(c), devid'[c] \in {devid[c], None, Empty},
         devid'[c] = devid[c] /\ devid[c] \in Name
            /\ (unit'[c] = "post" \/ DoneOf(c)' \/ LinksOf(c)' # {})
            => unit[c] = "post" \/ DoneOf(c) \/ LinksOf(c) # {},
         ctrl[c] # None /\ Promised(c) => Promised(c)'
  PROVE  NameInv(c)' /\ AwaitInv(c)' /\ \A n \in Name : Uses(c, n)' => Uses(c, n)
PROOF
  <1>1. NameInv(c)'
    BY DEF NameInv
  <1>2. \A n \in Name : Uses(c, n)' => Uses(c, n)
    BY Constants DEF Uses
  <1>3. ASSUME ctrl[c] # None PROVE RecInv(c)' /\ DeviceInv(c)' /\ WaitInv(c)'
    <2>1. RecInv(c) /\ DeviceInv(c) /\ WaitInv(c)
      BY <1>3 DEF AwaitInv
    <2>2. \A m \in Name : Uses(c, m) /\ Minded(m, c) => Minded(m, c)'
      BY <1>3 DEF StaysMinded
    <2>3. RecInv(c)'
      <3> SUFFICES ASSUME NEW n \in Name, devid'[c] = n,
                          unit'[c] = "post" \/ DoneOf(c)' \/ LinksOf(c)' # {}
                   PROVE  Minded(n, c)'
        BY DEF RecInv
      <3>1. devid[c] = n
        BY Constants
      <3>2. Minded(n, c) /\ Uses(c, n)
        BY <2>1, <3>1 DEF RecInv, Uses
      <3> QED
        BY <2>2, <3>2
    <2>4. DeviceInv(c)'
      <3> SUFFICES ASSUME NEW n \in Name, ctrl'[c].dev = n PROVE Minded(n, c)'
        BY DEF DeviceInv
      <3>1. Minded(n, c) /\ Uses(c, n)
        BY <1>3, <2>1 DEF DeviceInv, Uses
      <3> QED
        BY <2>2, <3>1
    <2>5. WaitInv(c)'
      BY <1>3, <2>1 DEF WaitInv
    <2> QED
      BY <2>3, <2>4, <2>5
  <1> QED
    BY <1>1, <1>2, <1>3 DEF AwaitInv

(* The same for the step. *)
LEMMA UnitWaits ==
  ASSUME IInv, WInv, NEW c \in Ctrl, UNCHANGED <<ctrl, busy, dev, uevents>>, LinkInv',
         \A t \in Ctrl \ {c} : /\ KeptUnit(t) /\ SameEnds(t) /\ KeptFiles(t)
                               /\ (t \in open' <=> t \in open),
         devid'[c] \in {devid[c], None, Empty},
         devid'[c] = devid[c] /\ devid[c] \in Name
            /\ (unit'[c] = "post" \/ DoneOf(c)' \/ LinksOf(c)' # {})
            => unit[c] = "post" \/ DoneOf(c) \/ LinksOf(c) # {},
         ctrl[c] # None /\ Promised(c) => Promised(c)'
  PROVE  WInv'
PROOF
  <1>1. DownInv' /\ NameInv(c) /\ AwaitInv(c)
    BY StillUp DEF WInv, NamesInv
  <1>2. FewerDevices /\ \A t \in Ctrl : StaysMinded(t)
    BY SameDevices, SamePending
  <1>3. \A t \in Ctrl \ {c} : Untouched(t)
    BY EntriesSame DEF Untouched
  <1>4. NameInv(c)' /\ AwaitInv(c)' /\ \A n \in Name : Uses(c, n)' => Uses(c, n)
    BY <1>1, <1>2, UnitAwaits
  <1> QED
    BY <1>1, <1>2, <1>3, <1>4, OwnStep

(* The unit of c changes its state, and no job ends. *)
LEMMA NewState ==
  ASSUME SystemdType, NEW c \in Ctrl, NEW s, unit' = [unit EXCEPT ![c] = s],
         UNCHANGED <<job, jobs, ends>>
  PROVE  /\ unit'[c] = s
         /\ \A t \in Ctrl \ {c} : KeptUnit(t)
         /\ \A t \in Ctrl : SameEnds(t)
  BY EndsUnchanged DEF SystemdType, KeptUnit

(* The connect opens its .devid file: it will write the name. *)
LEMMA OpenWaits ==
  ASSUME IInv, WInv, NEW c \in Ctrl, open_devid_file(c)
  PROVE  WInv'
PROOF
  <1>1. /\ unit[c] = "start" /\ unit' = [unit EXCEPT ![c] = "connect"]
        /\ devid' = [devid EXCEPT ![c] = IF devid[c] = None THEN Empty ELSE devid[c]]
        /\ open' = open \cup {c}
        /\ UNCHANGED <<ctrl, busy, uevents, job, jobs, ends, link, dev>>
    BY DEF open_devid_file, Step, daemon
  <1>2. SystemdType /\ FilesType /\ LinkInv
    BY DEF IInv, Types, WInv, NamesInv
  <1>3. devid[c] = None
    BY <1>1 DEF IInv, DevidInv
  <1>4. devid'[c] = Empty /\ \A t \in Ctrl \ {c} : devid'[t] = devid[t]
    BY <1>1, <1>2, <1>3 DEF FilesType
  <1>5. /\ unit'[c] = "connect" /\ \A t \in Ctrl \ {c} : KeptUnit(t)
        /\ \A t \in Ctrl : SameEnds(t)
    BY <1>1, <1>2, NewState
  <1>6. \A t \in Ctrl \ {c} : KeptFiles(t) /\ (t \in open' <=> t \in open)
    BY <1>1, <1>4 DEF KeptFiles
  <1>7. LinkInv'
    <2> SUFFICES ASSUME NEW n \in Name, link[n] # None PROVE devid'[link[n].of] = n
      BY <1>1 DEF LinkInv
    <2>1. link[n].of \in Ctrl /\ devid[link[n].of] = n /\ n # None
      BY <1>2, Constants DEF LinkInv, FilesType, LinkRecord
    <2> QED
      BY <1>3, <1>4, <2>1
  <1>8. Promised(c) => Promised(c)'
    BY <1>1, <1>5 DEF Promised, SameEnds
  <1> QED
    BY <1>1, <1>3, <1>4, <1>5, <1>6, <1>7, <1>8, UnitWaits, Constants

(* ExecStart= fails: the job goes on to its end. *)
LEMMA ConnectFailsWaits ==
  ASSUME IInv, WInv, NEW c \in Ctrl, ConnectFails(c)
  PROVE  WInv'
PROOF
  <1>1. /\ unit[c] = "connect" /\ unit' = [unit EXCEPT ![c] = "stop-post"]
        /\ devid' = [devid EXCEPT ![c] = IF devid[c] = Empty THEN None ELSE devid[c]]
        /\ open' = open \ {c}
        /\ UNCHANGED <<ctrl, busy, uevents, job, jobs, ends, link, dev>>
    BY DEF ConnectFails, Step, daemon
  <1>2. SystemdType /\ FilesType /\ LinkInv
    BY DEF IInv, Types, WInv, NamesInv
  <1>3. devid[c] \in {None, Empty}
    BY <1>1 DEF IInv, DevidInv
  <1>4. devid'[c] = None /\ \A t \in Ctrl \ {c} : devid'[t] = devid[t]
    BY <1>1, <1>2, <1>3 DEF FilesType
  <1>5. /\ unit'[c] = "stop-post" /\ \A t \in Ctrl \ {c} : KeptUnit(t)
        /\ \A t \in Ctrl : SameEnds(t)
    BY <1>1, <1>2, NewState
  <1>6. \A t \in Ctrl \ {c} : KeptFiles(t) /\ (t \in open' <=> t \in open)
    BY <1>1, <1>4 DEF KeptFiles
  <1>7. LinkInv'
    <2> SUFFICES ASSUME NEW n \in Name, link[n] # None PROVE devid'[link[n].of] = n
      BY <1>1 DEF LinkInv
    <2>1. link[n].of \in Ctrl /\ devid[link[n].of] = n /\ n \notin {None, Empty}
      BY <1>2, Constants DEF LinkInv, FilesType, LinkRecord
    <2> QED
      BY <1>3, <1>4, <2>1
  <1>8. Promised(c) => Promised(c)'
    BY <1>1, <1>5 DEF Promised, SameEnds
  <1> QED
    BY <1>1, <1>3, <1>4, <1>5, <1>6, <1>7, <1>8, UnitWaits, Constants

(* ExecStopPost= removes the records; the job goes on, or its end comes. *)
LEMMA StopPostWaits ==
  ASSUME IInv, WInv, NEW c \in Ctrl, ExecStopPost(c)
  PROVE  WInv'
PROOF
  <1>1. /\ unit[c] = "stop-post" /\ Forget({c}, LinkedTo(c, {devid[c]}))
        /\ UNCHANGED <<ctrl, busy, uevents, dev>>
    BY DEF ExecStopPost, Step, daemon
  <1>2. SystemdType /\ FilesType /\ LinkInv
    BY DEF IInv, Types, WInv, NamesInv
  <1>3. /\ \A t \in Ctrl \ {c} : /\ KeptFiles(t) /\ devid'[t] = devid[t]
                                 /\ (t \in open' <=> t \in open)
        /\ FilesShrink /\ devid'[c] = None /\ LinksOf(c)' = {}
    BY <1>1, <1>2, ForgetOthers, LinksUnder
  <1>4. LinkInv'
    BY <1>2, <1>3, LinksShrink
  <1>5. CASE /\ unit' = [unit EXCEPT ![c] = "start"] /\ job' = [job EXCEPT ![c] = "start"]
             /\ UNCHANGED <<jobs, ends>>
    <2>1. /\ unit'[c] = "start"
          /\ \A t \in Ctrl \ {c} : KeptUnit(t)
          /\ \A t \in Ctrl : SameEnds(t)
      BY <1>2, <1>5, EndsUnchanged DEF SystemdType, KeptUnit
    <2>2. Promised(c) => Promised(c)'
      BY <1>1, <1>5, <2>1 DEF Promised, SameEnds
    <2> QED
      BY <1>1, <1>3, <1>4, <2>1, <2>2, UnitWaits, Constants
  <1>6. CASE unit' = [unit EXCEPT ![c] = "none"] /\ JobEnds(c, FALSE)
    <2>1. "none" \in States
      BY DEF States
    <2>2. \A t \in Ctrl \ {c} : KeptUnit(t)
      BY <1>2, <1>6, <2>1, JobEndsCall
    <2>3. ends' = IF c \in jobs THEN Append(ends, [of |-> c, done |-> FALSE]) ELSE ends
      BY <1>6 DEF JobEnds
    <2>4. /\ \A t \in Ctrl \ {c} : SameEnds(t)
          /\ FailOf(c) => FailOf(c)'
          /\ c \in jobs => FailOf(c)'
      BY <1>2, <2>3, EndAdded
    <2>5. Promised(c) => Promised(c)'
      BY <1>1, <2>4 DEF Promised
    <2> QED
      BY <1>1, <1>3, <1>4, <2>2, <2>4, <2>5, UnitWaits, Constants
  <1> QED
    BY <1>5, <1>6 DEF ExecStopPost

(* ExecStartPost= records the device: the name was minded before. *)
LEMMA StartPostWaits ==
  ASSUME IInv, WInv, NEW c \in Ctrl, ExecStartPost(c)
  PROVE  WInv'
PROOF
  <1>1. /\ unit[c] = "post" /\ UNCHANGED <<ctrl, busy, uevents, devid, open, dev>>
        /\ \A m \in Name : m # devid[c] => link'[m] = link[m]
        /\ devid[c] \in Name => link'[devid[c]].of = c
    BY DEF ExecStartPost, Step, daemon
  <1>2. SystemdType /\ FilesType /\ LinkInv
    BY DEF IInv, Types, WInv, NamesInv
  <1>3. \A t \in Ctrl \ {c} : KeptFiles(t)
    BY <1>1 DEF KeptFiles
  <1>4. LinkInv'
    BY <1>1, <1>2 DEF LinkInv
  <1>5. CASE unit' = [unit EXCEPT ![c] = "stop-post"] /\ UNCHANGED <<job, jobs, ends>>
    <2>1. /\ unit'[c] = "stop-post" /\ \A t \in Ctrl \ {c} : KeptUnit(t)
          /\ \A t \in Ctrl : SameEnds(t)
      BY <1>2, <1>5, NewState
    <2>2. Promised(c) => Promised(c)'
      BY <1>1, <1>5, <2>1 DEF Promised, SameEnds
    <2> QED
      BY <1>1, <1>3, <1>4, <2>1, <2>2, UnitWaits
  <1>6. CASE unit' = [unit EXCEPT ![c] = "active"] /\ JobEnds(c, TRUE)
    <2>1. "active" \in States
      BY DEF States
    <2>2. unit'[c] = "active" /\ \A t \in Ctrl \ {c} : KeptUnit(t)
      BY <1>2, <1>6, <2>1, JobEndsCall
    <2>3. ends' = IF c \in jobs THEN Append(ends, [of |-> c, done |-> TRUE]) ELSE ends
      BY <1>6 DEF JobEnds
    <2>4. /\ \A t \in Ctrl \ {c} : SameEnds(t)
          /\ FailOf(c) => FailOf(c)'
          /\ c \in jobs => DoneOf(c)'
      BY <1>2, <2>3, EndAdded
    <2>5. Promised(c) => Promised(c)'
      BY <1>1, <2>2, <2>4 DEF Promised
    <2> QED
      BY <1>1, <1>3, <1>4, <2>2, <2>4, <2>5, UnitWaits
  <1> QED
    BY <1>5, <1>6 DEF ExecStartPost

(* A device is marked: its removal is queued while the daemon runs. *)
LEMMA MarkedMinded ==
  ASSUME IInv, DownInv, NEW n \in Name, dev[n] # None,
         dev' = [dev EXCEPT ![n].deleting = TRUE], Emit("remove", n)
  PROVE  FewerDevices /\ \A t \in Ctrl : StaysMinded(t)
PROOF
  <1>1. dev \in [Name -> Device \cup {None}] /\ QueueType
    BY DEF IInv, Types, DevType
  <1>2. dev[n] \in Device /\ dev'[n] = [dev[n] EXCEPT !.deleting = TRUE]
        /\ \A m \in Name : m # n => dev'[m] = dev[m]
    BY <1>1
  <1>3. dev'[n].of = dev[n].of /\ dev'[n].deleting = TRUE
    BY <1>2 DEF Device
  <1>4. \A m \in Name : \A c : Matches(m, c)' <=> Matches(m, c) /\ m # n
    BY <1>2, <1>3 DEF Matches
  <1>5. FewerDevices
    BY <1>2, <1>3, <1>4 DEF FewerDevices
  <1>6. ASSUME NEW t \in Ctrl PROVE StaysMinded(t)
    <2> SUFFICES ASSUME ctrl[t] # None, NEW m \in Name, Minded(m, t) PROVE Minded(m, t)'
      BY DEF StaysMinded
    <2>1. busy.in # "down"
      BY DEF DownInv
    <2>2. (RemovePending(m) => RemovePending(m)') /\ RemovePending(n)'
      BY <1>1, <2>1, EmitPending
    <2> QED
      BY <1>4, <2>2 DEF Minded
  <1> QED
    BY <1>5, <1>6

(* Nothing but devices and uevents changes. *)
LEMMA KernelWaits ==
  ASSUME IInv, WInv, UNCHANGED <<ctrl, busy, systemd, files>>, FewerDevices,
         \A t \in Ctrl : StaysMinded(t)
  PROVE  WInv'
PROOF
  <1>1. LinkInv' /\ DownInv'
    BY StillUp DEF files, LinkInv, WInv, NamesInv
  <1>2. \A t \in Ctrl : KeptEntry(t) /\ KeptUnit(t) /\ KeptFiles(t)
    BY EntriesSame, SystemdSame, FilesSame DEF IInv, Types
  <1>3. \A t \in Ctrl : SameEnds(t) /\ (t \in open' <=> t \in open)
    BY EndsUnchanged DEF files, systemd
  <1> QED
    BY <1>1, <1>2, <1>3, NobodysStep DEF Untouched

(* ExecStop=: the device is marked, or the unit goes on. *)
LEMMA ExecStopWaits ==
  ASSUME IInv, WInv, NEW c \in Ctrl, ExecStop(c)
  PROVE  WInv'
PROOF
  <1>1. unit[c] = "stop" /\ UNCHANGED <<ctrl, busy, job, jobs, ends, files>>
    BY DEF ExecStop, Step, daemon
  <1>2. SystemdType /\ FilesType /\ LinkInv /\ DownInv
    BY DEF IInv, Types, WInv, NamesInv
  <1>3. ASSUME NEW n \in Disconnected(c), dev' = [dev EXCEPT ![n].deleting = TRUE],
               Emit("remove", n), UNCHANGED unit
        PROVE  WInv'
    <2>1. n \in Name /\ dev[n] # None
      BY <1>3 DEF Disconnected, LinkedTo
    <2>2. FewerDevices /\ \A t \in Ctrl : StaysMinded(t)
      BY <1>2, <1>3, <2>1, MarkedMinded
    <2> QED
      BY <1>1, <1>3, <2>2, KernelWaits DEF systemd
  <1>4. CASE unit' = [unit EXCEPT ![c] = "stop-post"] /\ UNCHANGED <<dev, uevents>>
    <2>1. /\ unit'[c] = "stop-post" /\ \A t \in Ctrl \ {c} : KeptUnit(t)
          /\ \A t \in Ctrl : SameEnds(t)
      BY <1>1, <1>2, <1>4, NewState
    <2>2. Promised(c) => Promised(c)'
      BY <1>1, <2>1 DEF Promised, SameEnds, files
    <2>3. devid' = devid /\ link' = link /\ open' = open /\ \A t \in Ctrl : KeptFiles(t)
      BY <1>1, <1>2, FilesSame DEF files
    <2>4. LinkInv' /\ LinksOf(c)' = LinksOf(c)
      BY <1>2, <2>3 DEF LinkInv, LinksOf
    <2> QED
      BY <1>1, <1>4, <2>1, <2>2, <2>3, <2>4, UnitWaits DEF SameEnds
  <1> QED
    BY <1>3, <1>4 DEF ExecStop

(* A new device of c, or of another program: nobody minded its name. *)
LEMMA NewDeviceMinded ==
  ASSUME IInv, NEW c \in Ctrl \cup {Foreign}, NewDevice(c)
  PROVE  /\ \A t \in Ctrl : StaysMinded(t)
         /\ \A n \in Name : n = NewName => Matches(n, c)'
         /\ \A m \in Name : \A t : Matches(m, t)' => Matches(m, t) \/ (m = NewName /\ t = c)
PROOF
  <1>1. Types /\ QueueType
    BY DEF IInv, Types
  <1>2. PICK n \in Name : n = NewName
    BY <1>1, NewDeviceType
  <1> DEFINE d == [ino |-> inos + 1, of |-> c, deleting |-> FALSE]
  <1>3. dev[n] = None /\ dev'[n] = d /\ (\A m \in Name : m # n => dev'[m] = dev[m])
    BY <1>1, <1>2, NewDeviceType
  <1>4. d # None
    <2>1. inos + 1 \in 1..MaxIno
      BY <1>1, Constants DEF NewDevice, Types, DevType
    <2>2. d \in Device
      BY <2>1 DEF Device
    <2> QED
      BY <2>2, CtrlLifeAssumption DEF CtrlLifeAssumption
  <1>5. d.of = c /\ d.deleting = FALSE
    OBVIOUS
  <1> HIDE DEF d
  <1>6. \A m \in Name : RemovePending(m) => RemovePending(m)'
    <2>1. Emit("add", n)
      BY <1>2 DEF NewDevice
    <2> QED
      BY <1>1, <2>1, EmitPending
  <1>7. \A m \in Name : \A t : Matches(m, t) => Matches(m, t)'
    BY <1>3 DEF Matches
  <1>8. \A t \in Ctrl : StaysMinded(t)
    BY <1>6, <1>7 DEF StaysMinded, Minded
  <1>9. Matches(n, c)'
    BY <1>3, <1>4, <1>5 DEF Matches
  <1>10. \A m \in Name : \A t : Matches(m, t)' => Matches(m, t) \/ (m = n /\ t = c)
    BY <1>3, <1>5 DEF Matches
  <1> QED
    BY <1>2, <1>8, <1>9, <1>10

(* ExecStart= succeeds: the live device is the only one of c, and nobody   *)
(* else uses its name. "reuse" and "rename" are closed for this.           *)
LEMMA ConnectWaits ==
  ASSUME Races = {}, IInv, WInv, NEW c \in Ctrl, libnvmf_connect(c)
  PROVE  WInv'
PROOF
  <1> DEFINE found == {n \in Name : Matches(n, c)}
             name == IF found # {} THEN CHOOSE m \in found : TRUE ELSE NewName
  <1>1. /\ unit[c] = "connect" /\ unit' = [unit EXCEPT ![c] = "post"] /\ open' = open \ {c}
        /\ devid' = [devid EXCEPT ![c] = IF c \in open THEN name ELSE devid[c]]
        /\ \/ found # {} /\ UNCHANGED <<dev, uevents>>
           \/ found = {} /\ NewDevice(c)
        /\ UNCHANGED <<ctrl, busy, job, jobs, ends, link>>
    BY DEF libnvmf_connect, Step, daemon
  <1>2. Types /\ SystemdType /\ FilesType
    BY DEF IInv, Types
  <1>3. DownInv /\ UseInv /\ MatchInv /\ LinkInv /\ \A t \in Ctrl : NameInv(t) /\ AwaitInv(t)
    BY DEF WInv, NamesInv
  <1>4. devid[c] = IF c \in open THEN Empty ELSE None
    BY <1>1 DEF IInv, DevidInv
  <1>5. PICK n \in Name :
           /\ n = name /\ Matches(n, c)'
           /\ \A m \in Name : Matches(m, c) => m = n
           /\ \A m \in Name, t \in Ctrl : Matches(m, t)' => Matches(m, t) \/ (m = n /\ t = c)
           /\ \A m \in Name : m # n => dev'[m] = dev[m]
           /\ \A t \in Ctrl : StaysMinded(t)
           /\ \A t \in Ctrl \ {c} : ~Uses(t, n)
           /\ ctrl[c] # None => ctrl[c].dev \in {None, n}
    <2>1. CASE found # {} /\ UNCHANGED <<dev, uevents>>
      <3>1. PICK n \in Name : n = name /\ Matches(n, c)
        <4>1. (CHOOSE m \in found : TRUE) \in found
          BY <2>1, Zenon
        <4> QED
          BY <2>1, <4>1
      <3>2. \A m \in Name : \A t : Matches(m, t)' <=> Matches(m, t)
        BY <2>1 DEF Matches
      <3>3. \A t \in Ctrl : StaysMinded(t)
        BY <2>1, SameDevices, SamePending
      <3>4. \A m \in Name : Matches(m, c) \/ Uses(c, m) => m = n
        BY <1>3, <3>1 DEF MatchInv
      <3>5. \A t \in Ctrl \ {c} : ~Uses(t, n)
        <4>1. dev[n] # None /\ dev[n].of = c /\ c # Foreign
          BY <3>1, Constants DEF Matches
        <4> QED
          BY <1>3, <4>1 DEF UseInv
      <3>6. ctrl[c] # None => ctrl[c].dev \in {None, n}
        BY <3>4, EntryOf DEF Uses
      <3>7. \A m \in Name : dev'[m] = dev[m]
        BY <2>1
      <3> HIDE DEF found, name
      <3> QED
        BY <3>1, <3>2, <3>3, <3>4, <3>5, <3>6, <3>7
    <2>2. CASE found = {} /\ NewDevice(c)
      <3>1. PICK n \in Name : n = NewName
        BY <1>2, <2>2, NewDeviceType
      <3>2. n = name
        BY <2>2, <3>1
      <3>3. \A m \in Name : ~Matches(m, c)
        BY <2>2
      <3> HIDE DEF found, name
      <3>4. /\ Matches(n, c)' /\ \A t \in Ctrl : StaysMinded(t)
            /\ \A m \in Name, t \in Ctrl : Matches(m, t)' => Matches(m, t) \/ (m = n /\ t = c)
        BY <2>2, <3>1, NewDeviceMinded
      <3>5. \A m \in Name : m # n => dev'[m] = dev[m]
        BY <1>2, <2>2, <3>1, NewDeviceType
      <3>6. c # Foreign
        BY Constants
      <3>7. /\ Settled(n, c)
            /\ ctrl[c] # None => ctrl[c].dev \in {None, n}
        BY <2>2, <3>1, <3>6 DEF NewDevice, Tracked
      <3>8. \A t \in Ctrl \ {c} : ~Uses(t, n)
        BY <3>7 DEF Settled, Uses, Tracked
      <3> QED
        BY <3>2, <3>3, <3>4, <3>5, <3>7, <3>8
    <2> QED
      BY <1>1, <2>1, <2>2
  <1> HIDE DEF found, name
  <1>6. /\ devid'[c] = IF c \in open THEN n ELSE None
        /\ \A t \in Ctrl \ {c} : devid'[t] = devid[t]
    BY <1>1, <1>2, <1>4, <1>5 DEF FilesType
  <1>7. /\ unit'[c] = "post" /\ \A t \in Ctrl \ {c} : KeptUnit(t)
        /\ \A t \in Ctrl : SameEnds(t)
    BY <1>1, <1>2, NewState
  <1>8. \A t \in Ctrl \ {c} : Untouched(t)
    BY <1>1, <1>6, <1>7, EntriesSame DEF Untouched, KeptFiles
  <1>9. ASSUME NEW t \in Ctrl \ {c}
        PROVE  NameInv(t)' /\ AwaitInv(t)' /\ \A m \in Name : Uses(t, m)' => Uses(t, m)
    BY <1>3, <1>5, <1>8, UntouchedAwaits
  <1>10. \A m \in Name : Uses(c, m)' => m = n
    BY <1>1, <1>5, <1>6, Constants DEF Uses
  <1>12. dev'[n].of = c
    BY <1>5 DEF Matches
  <1>13. UseInv'
    <2> SUFFICES ASSUME NEW t \in Ctrl, NEW m \in Name, Uses(t, m)'
                 PROVE  /\ dev'[m] # None => dev'[m].of \in {t, Foreign}
                        /\ \A u \in Ctrl : Uses(u, m)' => u = t
      BY DEF UseInv
    <2>1. CASE t = c
      <3>1. m = n
        BY <1>10, <2>1
      <3> QED
        BY <1>5, <1>9, <1>12, <2>1, <3>1
    <2>2. CASE t # c
      <3>1. Uses(t, m) /\ m # n
        BY <1>5, <1>9, <2>2
      <3>2. dev'[m] = dev[m]
        BY <1>5, <3>1
      <3>3. ASSUME NEW u \in Ctrl, Uses(u, m)' PROVE u = t
        <4>1. u # c
          BY <1>10, <3>1, <3>3
        <4>2. Uses(u, m)
          BY <1>9, <3>3, <4>1
        <4> QED
          BY <1>3, <3>1, <4>2 DEF UseInv
      <3> QED
        BY <1>3, <3>1, <3>2, <3>3 DEF UseInv
    <2> QED
      BY <2>1, <2>2
  <1>14. MatchInv'
    <2> SUFFICES ASSUME NEW t \in Ctrl, NEW k \in Name, Matches(k, t)',
                        NEW m \in Name, Matches(m, t)' \/ Uses(t, m)'
                 PROVE  m = k
      BY DEF MatchInv
    <2>1. CASE t = c
      <3>1. k = n
        BY <1>5, <2>1
      <3>2. m = n
        BY <1>5, <1>10, <2>1
      <3> QED
        BY <3>1, <3>2
    <2>2. CASE t # c
      <3>1. Matches(k, t)
        BY <1>5, <2>2
      <3>2. Matches(m, t) \/ Uses(t, m)
        BY <1>5, <1>9, <2>2
      <3> QED
        BY <1>3, <3>1, <3>2 DEF MatchInv
    <2> QED
      BY <2>1, <2>2
  <1>15. LinkInv'
    <2> SUFFICES ASSUME NEW m \in Name, link[m] # None PROVE devid'[link[m].of] = m
      BY <1>1 DEF LinkInv
    <2>1. link[m].of \in Ctrl /\ devid[link[m].of] = m /\ m \notin {None, Empty}
      BY <1>2, <1>3, Constants DEF LinkInv, FilesType, LinkRecord
    <2> QED
      BY <1>4, <1>6, <2>1
  <1>16. NameInv(c)'
    BY <1>1, <1>5, <1>6 DEF NameInv
  <1>17. Minded(n, c)'
    BY <1>5 DEF Minded
  <1>18. RecInv(c)'
    BY <1>6, <1>17, Constants DEF RecInv
  <1>19. ASSUME ctrl[c] # None PROVE DeviceInv(c)' /\ WaitInv(c)'
    <2>1. DeviceInv(c)'
      BY <1>1, <1>5, <1>17, <1>19, Constants DEF DeviceInv
    <2>2. Promised(c) => Promised(c)'
      BY <1>1, <1>5, <1>6, <1>7 DEF Promised, SameEnds
    <2> QED
      BY <1>1, <1>3, <1>19, <2>1, <2>2 DEF AwaitInv, WaitInv
  <1>20. AwaitInv(c)'
    BY <1>1, <1>18, <1>19 DEF AwaitInv
  <1>21. DownInv'
    BY <1>1, <1>3, StillUp
  <1> QED
    BY <1>9, <1>13, <1>14, <1>15, <1>16, <1>20, <1>21 DEF WInv, NamesInv

--------------------------------------------------------------------------------
(* The kernel, other programs and the administrator. *)

(* Devices are lost, go and change. *)
LEMMA DeviceWaits ==
  ASSUME IInv, WInv, NEW n \in Name, DeviceLost(n) \/ DeviceGone(n) \/ DeviceChanged(n)
  PROVE  WInv'
PROOF
  <1>1. UNCHANGED <<ctrl, busy, systemd, files>> /\ dev[n] # None
    BY DEF DeviceLost, DeviceGone, DeviceChanged, daemon
  <1>2. dev \in [Name -> Device \cup {None}] /\ QueueType /\ DownInv
    BY DEF IInv, Types, DevType, WInv, NamesInv
  <1>3. CASE DeviceLost(n)
    <2>1. FewerDevices /\ \A t \in Ctrl : StaysMinded(t)
      BY <1>1, <1>2, <1>3, MarkedMinded DEF DeviceLost
    <2> QED
      BY <1>1, <2>1, KernelWaits
  <1>4. CASE DeviceGone(n)
    <2>1. /\ dev[n].deleting /\ dev' = [dev EXCEPT ![n] = None] /\ UNCHANGED uevents
      BY <1>4 DEF DeviceGone
    <2>2. dev'[n] = None /\ \A m \in Name : m # n => dev'[m] = dev[m]
      BY <1>2, <2>1
    <2>3. \A m \in Name : \A t : Matches(m, t)' <=> Matches(m, t)
      BY <2>1, <2>2 DEF Matches
    <2>4. FewerDevices
      BY <2>2, <2>3 DEF FewerDevices
    <2>5. \A m \in Name : RemovePending(m) => RemovePending(m)'
      BY <2>1, SamePending
    <2>6. \A t \in Ctrl : StaysMinded(t)
      BY <2>3, <2>5 DEF StaysMinded, Minded
    <2> QED
      BY <1>1, <2>4, <2>6, KernelWaits
  <1>5. CASE DeviceChanged(n)
    <2>1. UNCHANGED dev /\ \A m \in Name : RemovePending(m) => RemovePending(m)'
      BY <1>2, <1>5, EmitPending DEF DeviceChanged
    <2> QED
      BY <1>1, <2>1, SameDevices, KernelWaits
  <1> QED
    BY <1>3, <1>4, <1>5

(* Another program connects something. *)
LEMMA ForeignWaits ==
  ASSUME IInv, WInv, ForeignConnect
  PROVE  WInv'
PROOF
  <1>1. UNCHANGED <<ctrl, busy, systemd, files>> /\ NewDevice(Foreign)
    BY DEF ForeignConnect, daemon
  <1>2. Types /\ Foreign \notin Ctrl
    BY Constants DEF IInv
  <1>3. PICK n \in Name : n = NewName
    BY <1>1, <1>2, NewDeviceType
  <1>4. /\ dev'[n] = [ino |-> inos + 1, of |-> Foreign, deleting |-> FALSE]
        /\ \A m \in Name : m # n => dev'[m] = dev[m]
    BY <1>1, <1>2, <1>3, NewDeviceType
  <1>5. dev'[n].of = Foreign
    BY <1>4
  <1>6. /\ \A t \in Ctrl : StaysMinded(t)
        /\ \A m \in Name, t \in Ctrl : Matches(m, t)' => Matches(m, t)
    BY <1>1, <1>2, NewDeviceMinded
  <1>7. FewerDevices
    BY <1>4, <1>5, <1>6 DEF FewerDevices
  <1> QED
    BY <1>1, <1>6, <1>7, KernelWaits

(* What is desired changes, or nothing does. *)
LEMMA EditWaits ==
  ASSUME IInv, WInv, UNCHANGED <<ctrl, busy, systemd, files, dev, uevents>>
  PROVE  WInv'
  BY SameDevices, SamePending, KernelWaits

(* The daemon ends, or begins: nothing is tracked. *)
LEMMA DaemonWaits ==
  ASSUME IInv, WInv, Crash \/ Boot
  PROVE  WInv'
PROOF
  <1>1. /\ UNCHANGED dev
        /\ \A c \in Ctrl : ctrl'[c] = None /\ devid'[c] = devid[c]
        /\ \A n \in Name : link'[n] = link[n] \/ link'[n] = None
    <2>1. CASE Crash
      BY <2>1 DEF Crash, files
    <2>2. CASE Boot
      <3>1. \A c \in Ctrl : ctrl'[c] = None
        BY <2>2 DEF Boot, WInv, NamesInv, DownInv
      <3>2. /\ UNCHANGED dev /\ \A c \in Ctrl : devid'[c] = devid[c]
            /\ \A n \in Name : link'[n] = link[n] \/ link'[n] = None
        BY <2>2 DEF Boot, Forget
      <3> QED
        BY <3>1, <3>2
    <2> QED
      BY <2>1, <2>2
  <1>2. \A c \in Ctrl : NameInv(c)' /\ AwaitInv(c)'
    BY <1>1, GoneAwaits
  <1>3. FewerUses
    BY <1>1 DEF FewerUses, Uses
  <1>4. FewerDevices
    BY <1>1 DEF FewerDevices, Matches
  <1>5. UseInv' /\ MatchInv'
    BY <1>3, <1>4, FewerNames DEF WInv, NamesInv
  <1>6. LinkInv'
    <2> SUFFICES ASSUME NEW n \in Name, link'[n] # None PROVE devid'[link'[n].of] = n
      BY DEF LinkInv
    <2>1. link'[n] = link[n]
      BY <1>1
    <2>2. link[n].of \in Ctrl /\ devid[link[n].of] = n
      BY <2>1 DEF IInv, Types, FilesType, LinkRecord, WInv, NamesInv, LinkInv
    <2> QED
      BY <1>1, <2>1, <2>2
  <1>7. DownInv'
    BY <1>1 DEF DownInv
  <1> QED
    BY <1>2, <1>5, <1>6, <1>7 DEF WInv, NamesInv

--------------------------------------------------------------------------------
(* WInv holds initially. *)
LEMMA InitWaits == Init => WInv
PROOF
  <1> SUFFICES ASSUME Init PROVE WInv
    OBVIOUS
  <1>1. /\ \A c \in Ctrl : ctrl[c] = None /\ devid[c] = None
        /\ \A n \in Name : link[n] = None /\ dev[n] = None
    BY DEF Init
  <1>2. /\ \A c \in Ctrl, n \in Name : ~Uses(c, n)
        /\ \A c \in Ctrl, n \in Name : ~Matches(n, c)
    BY <1>1, Constants DEF Uses, Matches
  <1>3. DownInv /\ UseInv /\ MatchInv /\ LinkInv
    BY <1>1, <1>2 DEF DownInv, UseInv, MatchInv, LinkInv
  <1>4. \A c \in Ctrl : NameInv(c) /\ AwaitInv(c)
    BY <1>1 DEF NameInv, AwaitInv
  <1> QED
    BY <1>3, <1>4 DEF WInv, NamesInv

(* Every step keeps WInv. *)
LEMMA NextWaits ==
  ASSUME Races = {}, IInv, WInv, [Next]_vars
  PROVE  WInv'
PROOF
  <1>1. CASE Daemon
    BY <1>1, HandleNvmeWaits, SoakWaits, JobDoneWaits, WaitGoneWaits, ReleaseStopWaits,
       StartCtrlWaits, ReleaseWaits, TimeoutsWait, DlpReadWaits DEF Daemon
  <1>2. CASE Units
    BY <1>2, OpenWaits, ConnectWaits, ConnectFailsWaits, StartPostWaits, ExecStopWaits,
       StopPostWaits DEF Units
  <1>3. CASE \E c \in Ctrl : Edit(c)
    BY <1>3, EditWaits DEF Edit, daemon
  <1>4. CASE Outside
    BY <1>3, <1>4, DeviceWaits, ForeignWaits, DaemonWaits DEF Outside
  <1>5. CASE UNCHANGED vars
    BY <1>5, EditWaits DEF vars, daemon
  <1> QED
    BY <1>1, <1>2, <1>4, <1>5 DEF Next

(* A controller with a minded device, or that waits, is not forgotten. *)
LEMMA AwaitedHolds ==
  ASSUME IInv, WInv
  PROVE  NothingForgotten
PROOF
  <1> SUFFICES ASSUME NEW c \in Tracked PROVE Matches(ctrl[c].dev, c) \/ Awaited(c)
    BY DEF NothingForgotten
  <1>1. c \in Ctrl /\ ctrl[c] # None /\ ctrl[c].dev \in Name \cup {None}
    BY EntryOf DEF Tracked
  <1>2. DeviceInv(c) /\ WaitInv(c)
    BY <1>1 DEF WInv, AwaitInv
  <1>3. CASE ctrl[c].dev \in Name
    BY <1>2, <1>3 DEF DeviceInv, Minded, RemovePending, Awaited
  <1>4. CASE ctrl[c].dev = None
    BY <1>2, <1>4 DEF WaitInv, Promised, DoneOf, FailOf, Awaited, EndOf
  <1> QED
    BY <1>1, <1>3, <1>4

(* With every window closed, for any controllers, device names and number  *)
(* of devices and faults: in whatever order the ends of jobs and the       *)
(* uevents arrive, whichever calls fail and whatever is lost, released,    *)
(* parked or restarted, a tracked controller that is not linked to its own *)
(* live device has a timer, a job or a uevent that makes the daemon look   *)
(* at it again (on_job_done(), on_nvme_remove(), soak_timeout(),           *)
(* retry_timeout()).                                                       *)
THEOREM NothingIsForgotten ==
  ASSUME Races = {}
  PROVE  Spec => []NothingForgotten
PROOF
  <1>1. Spec => []IInv
    BY Invariance
  <1>2. Init => WInv
    BY InitWaits
  <1>3. IInv /\ WInv /\ [Next]_vars => WInv'
    BY NextWaits
  <1>4. IInv /\ WInv => NothingForgotten
    BY AwaitedHolds
  <1> QED
    BY <1>1, <1>2, <1>3, <1>4, PTL DEF Spec

================================================================================
