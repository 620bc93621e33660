---------------------------- MODULE RegistryProofs ----------------------------
(***************************************************************************)
(* Proofs about the ownership registry, for any number of programs and of   *)
(* uevents: the model keeps its types whatever windows are open, and with   *)
(* the narrow windows closed a recorded owner is kept and a device of       *)
(* another owner is never disconnected by disconnect-all.                   *)
(***************************************************************************)
EXTENDS Registry, FiniteSetTheorems, SequenceTheorems, TLAPS

(* Who has a directory open: a program that unlinks the owner, and the      *)
(* shell of the rule while it unlinks files.                                *)
FdInv ==
    /\ \A p \in Proc : proc[p].fd # 0 <=> At(p, "unlink")
    /\ rule.fd # 0 <=> rule.pc = "unlink"

TypeInv == TypeOK /\ FdInv

(* The numbers: what waits for udev is older than the device that is there, *)
(* and no stamp is from the future.                                         *)
KernelInv ==
    /\ dev <= seq
    /\ \A k \in 1..Len(events) : events[k] <= seq /\ (dev # 0 => events[k] < dev)
    /\ rule.seq <= seq /\ (dev # 0 => rule.seq < dev)
    /\ \A d \in Dir : dir[d].seqnum <= seq

(* A program works for the device that is there, the entry it is about to   *)
(* make is not older than that device, and what it found when it looked at  *)
(* the owner still holds when it acts on it.                                *)
LocalInv(p) ==
    /\ ~At(p, "idle") => proc[p].id # 0 /\ (dev # 0 => proc[p].id = dev)
    /\ proc[p].stamp <= seq
    /\ proc[p].pc \in {"remove", "reveal"} => dev <= proc[p].stamp
    /\ At(p, "open-fd") => Owner \in {p, None}
    /\ At(p, "unlink") => dir[proc[p].fd].owner \in {p, None}
    /\ At(p, "drop") => claim \in {None, proc[p].want}

ProcInv == \A p \in Proc : LocalInv(p)

(* A program that will take the old entry away. *)
Clears(p) ==
    \/ proc[p].pc \in {"clear", "remove"}
    \/ At(p, "stamp") /\ proc[p].replace

(* An entry from before the device is claimed by nobody, and the connect    *)
(* that made the device will take it away.                                  *)
OldEntryInv ==
    dev # 0 /\ entry # 0 /\ dir[entry].seqnum < dev
        => claim = None /\ \E p \in Proc : Clears(p)

(* The shell past its checks has such an entry before it, or none. *)
RuleInv ==
    /\ rule.pc = "unlink" /\ entry # 0 => entry = rule.fd
    /\ rule.pc \in {"rm", "unlink"} /\ dev # 0 /\ entry # 0 => dir[entry].seqnum < dev

(* A claim is that of the device that is there.  It is in the entry, or a   *)
(* program that has taken the entry away is about to make the next one.     *)
ClaimInv ==
    claim # None =>
        /\ dev # 0
        /\ entry # 0 => dir[entry].owner = claim
        /\ entry = 0 => \E p \in Proc : At(p, "reveal")

IInv == TypeInv /\ KernelInv /\ ProcInv /\ OldEntryInv /\ RuleInv /\ ClaimInv

-----------------------------------------------------------------------------

(* There is always a directory for an entry that is about to be revealed:   *)
(* the program that reveals it has none open itself, so that the others,    *)
(* the shell and the entry leave one (mkdtemp() in create_entry()).         *)
LEMMA NewDirExists ==
    ASSUME TypeInv, NEW p \in Proc, At(p, "reveal")
    PROVE  NewDir \in Dir /\ NewDir \notin InUse
  <1> DEFINE others == {proc[q].fd : q \in Proc \ {p}}
             used == {entry, rule.fd} \cup others
  <1>1. IsFiniteSet(Proc) /\ Cardinality(Proc) \in Nat
    BY RegistryAssumption, FS_CardinalityType
  <1>2. IsFiniteSet(Proc \ {p}) /\ Cardinality(Proc \ {p}) = Cardinality(Proc) - 1
    BY <1>1, FS_RemoveElement
  <1>3. IsFiniteSet(others) /\ Cardinality(others) <= Cardinality(Proc) - 1
    <2> DEFINE open == [q \in Proc \ {p} |-> proc[q].fd]
    <2>1. open \in Surjection(Proc \ {p}, others)
      BY DEF Surjection
    <2> HIDE DEF open
    <2> QED  BY <2>1, <1>1, <1>2, FS_Surjection
  <1>4. /\ IsFiniteSet({entry, rule.fd}) /\ Cardinality({entry, rule.fd}) <= 2
        /\ Cardinality({entry, rule.fd}) \in Nat
    <2>1. IsFiniteSet({rule.fd}) /\ Cardinality({rule.fd}) = 1
      BY FS_Singleton
    <2>2. /\ IsFiniteSet({rule.fd} \cup {entry})
          /\ Cardinality({rule.fd} \cup {entry}) \in {1, 2}
      BY <2>1, FS_AddElement
    <2>3. {rule.fd} \cup {entry} = {entry, rule.fd}
      OBVIOUS
    <2> QED  BY <2>2, <2>3
  <1>5. IsFiniteSet(used) /\ Cardinality(used) <= Cardinality(Proc) + 1
    <2>1. /\ IsFiniteSet(used)
          /\ Cardinality(used) = Cardinality({entry, rule.fd}) + Cardinality(others)
                                 - Cardinality({entry, rule.fd} \cap others)
      BY <1>3, <1>4, FS_Union
    <2>2. IsFiniteSet({entry, rule.fd} \cap others)
      BY <1>3, FS_Intersection
    <2>3. /\ Cardinality({entry, rule.fd} \cap others) \in Nat
          /\ Cardinality(others) \in Nat
      BY <2>2, <1>3, FS_CardinalityType
    <2> QED  BY <2>1, <2>3, <1>1, <1>3, <1>4
  <1>6. IsFiniteSet(Dir) /\ Cardinality(Dir) = Cardinality(Proc) + 2
    <2>1. Cardinality(Proc) + 2 \in Nat /\ 1 <= Cardinality(Proc) + 2
      BY <1>1
    <2>2. /\ IsFiniteSet(1..Cardinality(Proc) + 2)
          /\ Cardinality(1..Cardinality(Proc) + 2) = Cardinality(Proc) + 2 - 1 + 1
      BY <2>1, <1>1, FS_Interval
    <2> QED  BY <2>2, <1>1 DEF Dir
  <1>7. PICK d \in Dir : d \notin used
    <2>1. ~(Dir \subseteq used)
      <3>1. SUFFICES ASSUME Dir \subseteq used PROVE FALSE
        OBVIOUS
      <3>2. Cardinality(Dir) <= Cardinality(used)
        BY <3>1, <1>5, FS_Subset
      <3>3. Cardinality(used) \in Nat
        BY <1>5, FS_CardinalityType
      <3> QED  BY <3>2, <3>3, <1>1, <1>5, <1>6
    <2> QED  BY <2>1
  <1>8. d \notin InUse
    <2>1. proc[p].fd = 0
      BY DEF TypeInv, FdInv, At
    <2>2. d # 0
      BY <1>1 DEF Dir
    <2> QED  BY <1>7, <2>1, <2>2 DEF InUse
  <1> QED  BY <1>7, <1>8 DEF NewDir

(* The types of the programs, of which only the one at "unlink" has a       *)
(* directory open.                                                          *)
ProcTyped ==
    /\ proc \in [Proc -> Local]
    /\ \A p \in Proc : proc[p].fd # 0 <=> At(p, "unlink")

(* A program that ends or is killed keeps the types, and so does one that   *)
(* goes to a step without a directory.                                      *)
LEMMA DoneTyped ==
    ASSUME ProcTyped, NEW p \in Proc, Done(p)
    PROVE  ProcTyped'
  BY RegistryAssumption DEF ProcTyped, Done, Idle, Local, Recording, At

LEMMA GotoTyped ==
    ASSUME ProcTyped, NEW p \in Proc, ~At(p, "unlink"),
           NEW pc \in Recording \cup {"open", "write", "check", "open-fd", "match", "drop"},
           Goto(p, pc)
    PROVE  ProcTyped'
  BY DEF ProcTyped, Goto, Local, Recording, At

(* Every step keeps the types. *)
LEMMA TypeStep ==
    ASSUME TypeInv, [Next]_vars
    PROVE  TypeInv'
  <1> USE DEF TypeInv
  <1>1. CASE UNCHANGED vars
    BY <1>1 DEF vars, kernel, disk, TypeOK, FdInv, At
  <1>2. CASE DeviceLost
    <2>1. TypeOK'
      BY <1>2, RegistryAssumption, AppendProperties
         DEF DeviceLost, RemoveDevice, TypeOK, disk
    <2>2. FdInv'
      BY <1>2 DEF DeviceLost, FdInv, At, disk
    <2> QED  BY <2>1, <2>2
  <1>3. CASE Rule
    <2>1. CASE rule_exists
      <3>1. Head(events) \in 1..MaxSeq /\ Tail(events) \in Seq(1..MaxSeq)
        BY <2>1, HeadTailProperties DEF rule_exists, TypeOK
      <3>2. [rule EXCEPT !.pc = "cat", !.seq = Head(events)] \in Shell
        <4>1. \A h \in 0..MaxSeq : [[rule EXCEPT !.pc = "cat"] EXCEPT !.seq = h] \in Shell
          BY DEF TypeOK, Shell
        <4>2. Head(events) \in 0..MaxSeq
          BY <3>1, RegistryAssumption
        <4> QED  BY <4>1, <4>2
      <3>3. rule' \in Shell
        BY <2>1, <3>2 DEF rule_exists, TypeOK
      <3>4. TypeOK'
        BY <2>1, <3>1, <3>3 DEF rule_exists, TypeOK, disk
      <3>5. FdInv'
        BY <2>1 DEF rule_exists, TypeOK, FdInv, At, disk, Shell
      <3> QED  BY <3>4, <3>5
    <2>2. CASE rule_cat
      <3>1. [rule EXCEPT !.pc = "rm"] \in Shell /\ NoShell \in Shell
        BY RegistryAssumption DEF TypeOK, Shell, NoShell
      <3>2. rule' \in Shell
        BY <2>2, <3>1 DEF rule_cat
      <3>3. rule'.fd # 0 <=> rule'.pc = "unlink"
        BY <2>2 DEF rule_cat, NoShell, TypeOK, Shell, FdInv
      <3> QED  BY <2>2, <3>2, <3>3 DEF rule_cat, TypeOK, FdInv, At, disk, kernel
    <2>3. CASE rule_rm
      <3>1. CASE entry = 0
        BY <2>3, <3>1, RegistryAssumption
           DEF rule_rm, TypeOK, FdInv, At, disk, kernel, Shell, NoShell
      <3>2. CASE entry # 0
        <4> DEFINE left == {f \in File : dir[entry][f] # EmptyDir[f]}
        <4>1. rule' = [rule EXCEPT !.pc = "unlink", !.fd = entry, !.left = left]
          BY <2>3, <3>2 DEF rule_rm
        <4>2. left \in SUBSET File /\ entry \in Dir
          BY <3>2 DEF TypeOK
        <4> HIDE DEF left
        <4>3. rule' \in Shell /\ rule'.fd = entry /\ rule'.pc = "unlink"
          BY <4>1, <4>2 DEF TypeOK, Shell
        <4> QED  BY <2>3, <3>2, <4>3 DEF rule_rm, TypeOK, FdInv, At, disk, kernel
      <3> QED  BY <3>1, <3>2
    <2>4. CASE rule_unlink
      <3>1. rule.fd \in Dir /\ rule \in Shell
        BY <2>4 DEF rule_unlink, TypeOK, FdInv, Shell
      <3>2. dir' \in [Dir -> Content]
        <4>1. ASSUME NEW f \in rule.left,
                     dir' = [dir EXCEPT ![rule.fd][f] = EmptyDir[f]]
              PROVE  dir' \in [Dir -> Content]
          <5>1. f \in {"seqnum", "owner"}
            BY <3>1, <4>1 DEF Shell, File
          <5>2. dir[rule.fd] \in Content
            BY <3>1 DEF TypeOK
          <5>3. [dir[rule.fd] EXCEPT ![f] = EmptyDir[f]] \in Content
            BY <5>1, <5>2, RegistryAssumption DEF Content, EmptyDir
          <5> QED  BY <4>1, <5>3 DEF TypeOK
        <4> QED  BY <4>1, <2>4 DEF rule_unlink, TypeOK
      <3>3. rule' \in Shell /\ (rule'.fd # 0 <=> rule'.pc = "unlink")
        BY <2>4, <3>1, RegistryAssumption DEF rule_unlink, Shell, NoShell, FdInv
      <3> QED  BY <2>4, <3>2, <3>3 DEF rule_unlink, TypeOK, FdInv, At, kernel
    <2> QED  BY <1>3, <2>1, <2>2, <2>3, <2>4 DEF Rule
  <1>4. ASSUME NEW p \in Proc, Starts(p)
        PROVE  TypeInv'
    <2>1. ASSUME NEW pc \in {"stamp", "clear", "open", "check", "match"},
                 NEW id \in 0..MaxSeq, NEW replace \in BOOLEAN,
                 NEW want \in Proc \cup {None}, Begin(p, pc, id, replace, want)
          PROVE  /\ proc' \in [Proc -> Local]
                 /\ \A q \in Proc : proc'[q].fd # 0 <=> proc'[q].pc = "unlink"
      <3> DEFINE l == [Idle EXCEPT !.pc = pc, !.id = id, !.replace = replace, !.want = want]
      <3>1. l \in Local /\ l.fd = 0 /\ l.pc # "unlink"
        <4> DEFINE with(r) == [[[r EXCEPT !.id = id] EXCEPT !.replace = replace]
                                  EXCEPT !.want = want]
                   at(r) == [r EXCEPT !.pc = pc]
        <4>1. \A r \in Local : at(r) \in Local /\ at(r).fd = r.fd /\ at(r).pc # "unlink"
          BY DEF Local, Recording
        <4>2. \A r \in Local : with(r) \in Local /\ with(r).fd = r.fd /\ with(r).pc = r.pc
          BY DEF Local
        <4>3. Idle \in Local /\ Idle.fd = 0
          BY RegistryAssumption DEF Idle, Local, Recording
        <4>4. l = with(at(Idle))
          OBVIOUS
        <4> HIDE DEF l, with, at
        <4> QED  BY <4>1, <4>2, <4>3, <4>4
      <3>2. proc' = [proc EXCEPT ![p] = l]
        BY <2>1 DEF Begin
      <3> HIDE DEF l
      <3> QED  BY <3>1, <3>2 DEF TypeOK, FdInv, At
    <2>2. CASE Connect(p)
      <3>1. dev' \in 0..MaxSeq /\ seq' \in 0..MaxSeq
        BY <2>2, RegistryAssumption DEF Connect, TypeOK
      <3>2. /\ proc' \in [Proc -> Local]
            /\ \A q \in Proc : proc'[q].fd # 0 <=> proc'[q].pc = "unlink"
        BY <2>2, <2>1, <3>1 DEF Connect
      <3> QED  BY <2>2, <3>1, <3>2 DEF Connect, TypeOK, FdInv, At, disk
    <2>3. CASE UNCHANGED <<kernel, rule, disk, claim>> /\ ~Connect(p)
      <3>1. /\ proc' \in [Proc -> Local]
            /\ \A q \in Proc : proc'[q].fd # 0 <=> proc'[q].pc = "unlink"
        BY <1>4, <2>1, <2>3
           DEF Starts, AlreadyConnected, registry_update, release_unit,
               disconnect_all, TypeOK
      <3> QED  BY <2>3, <3>1 DEF TypeOK, FdInv, At, kernel, disk
    <2> QED
      BY <1>4, <2>2, <2>3
         DEF Starts, AlreadyConnected, registry_update, release_unit, disconnect_all
  <1>5. ProcTyped
    BY DEF TypeOK, FdInv, ProcTyped
  <1>6. ASSUME NEW p \in Proc, Steps(p)
        PROVE  TypeInv'
    <2>1. ASSUME ProcTyped', UNCHANGED <<kernel, rule, disk, claim>>
          PROVE  TypeInv'
      BY <2>1 DEF ProcTyped, TypeOK, FdInv, At, kernel, disk
    <2>2. CASE read_uevent_seqnum(p)
      <3>1. ProcTyped'
        BY <2>2, <1>5 DEF read_uevent_seqnum, ProcTyped, Local, Recording, At, TypeOK
      <3> QED  BY <2>1, <2>2, <3>1 DEF read_uevent_seqnum
    <2>3. CASE delete_dir_atomic(p)
      <3>1. ProcTyped'
        BY <2>3, <1>5, GotoTyped DEF delete_dir_atomic, At, Recording
      <3> QED  BY <2>3, <3>1 DEF delete_dir_atomic, ProcTyped, TypeOK, FdInv, At, kernel
    <2>4. CASE reveal(p)
      <3>1. ProcTyped'
        BY <2>4, <1>5, GotoTyped, DoneTyped DEF reveal, At
      <3>2. NewDir \in Dir
        BY <2>4, NewDirExists DEF reveal
      <3>3. Revealed(p) \in Content
        BY <1>5 DEF Revealed, Content, ProcTyped, Local
      <3>4. entry' \in Dir \cup {0} /\ dir' \in [Dir -> Content]
        BY <2>4, <3>2, <3>3 DEF reveal, TypeOK, disk
      <3>5. claim' \in Proc \cup {None}
        BY <2>4 DEF reveal, TypeOK, Claims
      <3> QED  BY <2>4, <3>1, <3>4, <3>5 DEF reveal, ProcTyped, TypeOK, FdInv, At, kernel
    <2>5. CASE libnvmf_registry_delete(p)
      <3>1. ProcTyped'
        BY <2>5, <1>5, DoneTyped DEF libnvmf_registry_delete
      <3> QED
        BY <2>5, <3>1
           DEF libnvmf_registry_delete, Claims, ProcTyped, TypeOK, FdInv, At, kernel
    <2>6. CASE open_entry(p)
      <3>1. ProcTyped'
        BY <2>6, <1>5, GotoTyped DEF open_entry, At, Recording
      <3> QED  BY <2>1, <2>6, <3>1 DEF open_entry
    <2>7. CASE write_attr_atomic(p)
      <3>1. ProcTyped'
        BY <2>7, <1>5, DoneTyped DEF write_attr_atomic
      <3>2. dir' \in [Dir -> Content]
        BY <2>7 DEF write_attr_atomic, TypeOK, Content
      <3>3. claim' \in Proc \cup {None}
        BY <2>7 DEF write_attr_atomic, TypeOK, Claims
      <3> QED
        BY <2>7, <3>1, <3>2, <3>3 DEF write_attr_atomic, ProcTyped, TypeOK, FdInv, At, kernel
    <2>8. CASE attr_equal(p)
      <3>1. ProcTyped'
        BY <2>8, <1>5, GotoTyped, DoneTyped DEF attr_equal, At
      <3> QED  BY <2>1, <2>8, <3>1 DEF attr_equal
    <2>9. CASE open_fd(p)
      <3>1. CASE entry = 0
        BY <2>1, <2>9, <3>1, <1>5, DoneTyped DEF open_fd
      <3>2. CASE entry # 0
        <4>1. entry \in Dir /\ entry # 0
          BY <3>2 DEF TypeOK
        <4>2. ProcTyped'
          BY <2>9, <4>1, <1>5 DEF open_fd, ProcTyped, Local, At
        <4> QED  BY <2>1, <2>9, <4>2 DEF open_fd
      <3> QED  BY <3>1, <3>2
    <2>10. CASE unlink_owner(p)
      <3>1. ProcTyped'
        BY <2>10, <1>5, DoneTyped DEF unlink_owner
      <3>2. proc[p].fd \in Dir
        BY <2>10, <1>5 DEF unlink_owner, ProcTyped, Local
      <3>3. dir' \in [Dir -> Content]
        BY <2>10, <3>2 DEF unlink_owner, TypeOK, Content
      <3>4. claim' \in Proc \cup {None}
        BY <2>10 DEF unlink_owner, TypeOK, Claims
      <3> QED
        BY <2>10, <3>1, <3>3, <3>4 DEF unlink_owner, ProcTyped, TypeOK, FdInv, At, kernel
    <2>11. CASE disconnect_all_match(p)
      <3>1. ProcTyped'
        BY <2>11, <1>5, GotoTyped, DoneTyped DEF disconnect_all_match, At
      <3> QED  BY <2>1, <2>11, <3>1 DEF disconnect_all_match
    <2>12. CASE disconnect_ctrl(p)
      <3>1. ProcTyped'
        BY <2>12, <1>5, DoneTyped DEF disconnect_ctrl
      <3>2. /\ seq' \in 0..MaxSeq /\ dev' \in 0..MaxSeq /\ events' \in Seq(1..MaxSeq)
            /\ claim' \in Proc \cup {None}
        BY <2>12, RegistryAssumption, AppendProperties
           DEF disconnect_ctrl, RemoveDevice, TypeOK, kernel
      <3> QED  BY <2>12, <3>1, <3>2 DEF disconnect_ctrl, ProcTyped, TypeOK, FdInv, At, disk
    <2> QED
      BY <1>6, <2>2, <2>3, <2>4, <2>5, <2>6, <2>7, <2>8, <2>9, <2>10, <2>11, <2>12 DEF Steps
  <1>7. ASSUME NEW p \in Proc, Kill(p)
        PROVE  TypeInv'
    <2>1. ProcTyped'
      BY <1>7, <1>5, DoneTyped DEF Kill
    <2> QED  BY <1>7, <2>1 DEF Kill, ProcTyped, TypeOK, FdInv, At, kernel, disk
  <1> QED  BY <1>1, <1>2, <1>3, <1>4, <1>6, <1>7 DEF Next

(* The model keeps its types, whatever windows are open: a reveal always    *)
(* finds a fresh directory (create_entry()), and a program or the shell     *)
(* that unlinks a file has the directory open (libnvmf_registry_update(),   *)
(* 70-nvmf-registry.rules).                                                 *)
THEOREM TypeCorrect == Spec => []TypeOK
  <1>1. Init => TypeInv
    BY RegistryAssumption, EmptySeq
       DEF Init, TypeInv, TypeOK, FdInv, At, Idle, NoShell, Local, Shell, Recording,
           Content, EmptyDir, Dir
  <1>2. TypeInv /\ [Next]_vars => TypeInv'
    BY TypeStep
  <1> QED  BY <1>1, <1>2, PTL DEF Spec, TypeInv

-----------------------------------------------------------------------------

(* The numbers that the arguments below compare. *)
LEMMA Numbers ==
    ASSUME TypeOK
    PROVE  /\ seq \in Nat /\ dev \in Nat /\ rule.seq \in Nat
           /\ \A d \in Dir : dir[d].seqnum \in Nat /\ d # 0
           /\ \A p \in Proc : proc[p].stamp \in Nat /\ proc[p].id \in Nat
           /\ \A k \in 1..Len(events) : events[k] \in Nat
           /\ Len(events) \in Nat
           /\ entry # 0 => entry \in Dir
  <1>1. \A d \in Dir : dir[d].seqnum \in Nat /\ d # 0
    BY RegistryAssumption, FS_CardinalityType DEF TypeOK, Content, Dir
  <1>2. \A p \in Proc : proc[p].stamp \in Nat /\ proc[p].id \in Nat
    BY RegistryAssumption DEF TypeOK, Local
  <1>3. Len(events) \in Nat /\ \A k \in 1..Len(events) : events[k] \in Nat
    BY RegistryAssumption, LenProperties, ElementOfSeq DEF TypeOK
  <1> QED  BY <1>1, <1>2, <1>3, RegistryAssumption DEF TypeOK, Shell

(* What a program does to its own place leaves the others where they are.   *)
LEMMA Places ==
    ASSUME TypeOK, NEW p \in Proc
    PROVE  /\ Done(p) => proc'[p] = Idle
           /\ \A pc : Goto(p, pc) => /\ proc'[p].pc = pc
                                     /\ proc'[p].id = proc[p].id
                                     /\ proc'[p].stamp = proc[p].stamp
                                     /\ proc'[p].fd = proc[p].fd
                                     /\ proc'[p].want = proc[p].want
                                     /\ proc'[p].replace = proc[p].replace
           /\ \A pc, id, replace, want :
                Begin(p, pc, id, replace, want) => /\ proc'[p].pc = pc
                                                   /\ proc'[p].id = id
                                                   /\ proc'[p].stamp = 0
                                                   /\ proc'[p].replace = replace
                                                   /\ proc'[p].want = want
           /\ \/ Done(p) \/ (\E pc : Goto(p, pc))
              \/ (\E pc, id, replace, want : Begin(p, pc, id, replace, want))
              => \A q \in Proc \ {p} : proc'[q] = proc[q]
  <1>1. proc \in [Proc -> Local]
    BY DEF TypeOK
  <1>2. Done(p) => proc'[p] = Idle /\ \A q \in Proc \ {p} : proc'[q] = proc[q]
    BY <1>1 DEF Done
  <1>3. ASSUME NEW pc, Goto(p, pc)
        PROVE  /\ proc'[p].pc = pc
               /\ proc'[p].id = proc[p].id
               /\ proc'[p].stamp = proc[p].stamp
               /\ proc'[p].fd = proc[p].fd
               /\ proc'[p].want = proc[p].want
               /\ proc'[p].replace = proc[p].replace
               /\ \A q \in Proc \ {p} : proc'[q] = proc[q]
    BY <1>1, <1>3 DEF Goto, Local
  <1>4. ASSUME NEW pc, NEW id, NEW replace, NEW want, Begin(p, pc, id, replace, want)
        PROVE  /\ proc'[p].pc = pc
               /\ proc'[p].id = id
               /\ proc'[p].stamp = 0
               /\ proc'[p].replace = replace
               /\ proc'[p].want = want
               /\ \A q \in Proc \ {p} : proc'[q] = proc[q]
    BY <1>1, <1>4 DEF Begin, Idle
  <1> QED  BY <1>2, <1>3, <1>4

(* A step that changes nothing but the place of one program. *)
LEMMA LocalStep ==
    ASSUME IInv, TypeInv', NEW p \in Proc,
           UNCHANGED <<kernel, rule, disk, claim>>,
           \A q \in Proc \ {p} : proc'[q] = proc[q],
           Clears(p) => Clears(p)', ~At(p, "reveal"), LocalInv(p)'
    PROVE  IInv'
  <1>1. KernelInv' /\ RuleInv'
    BY DEF IInv, KernelInv, RuleInv, kernel, disk
  <1>2. ProcInv'
    BY DEF IInv, ProcInv, LocalInv, At, Owner, kernel, disk
  <1>3. OldEntryInv'
    BY DEF IInv, OldEntryInv, Clears, At, kernel, disk
  <1>4. ClaimInv'
    BY DEF IInv, ClaimInv, At, kernel, disk
  <1> QED  BY <1>1, <1>2, <1>3, <1>4 DEF IInv

(* The steps of one program that only look: at the device when it begins,   *)
(* at the sequence number, at the entry and its owner; and its death.       *)
LEMMA LookStep ==
    ASSUME Races = {}, IInv, TypeInv', NEW p \in Proc,
           \/ AlreadyConnected(p) \/ registry_update(p) \/ release_unit(p)
           \/ disconnect_all(p) \/ read_uevent_seqnum(p) \/ open_entry(p)
           \/ attr_equal(p) \/ open_fd(p) \/ disconnect_all_match(p) \/ Kill(p)
    PROVE  IInv'
  <1> USE Numbers, Places DEF IInv, TypeInv
  <1>1. ASSUME NEW pc \in {"stamp", "clear", "open", "check", "match"},
               NEW replace, NEW want, Begin(p, pc, dev, replace, want), dev # 0,
               UNCHANGED <<kernel, rule, disk, claim>>
        PROVE  IInv'
    <2>1. LocalInv(p)'
      BY <1>1 DEF LocalInv, At, kernel
    <2>2. ~Clears(p) /\ ~At(p, "reveal")
      BY <1>1 DEF Begin, At, Clears
    <2> QED  BY <1>1, <2>1, <2>2, LocalStep
  <1>2. CASE AlreadyConnected(p) \/ registry_update(p) \/ release_unit(p) \/ disconnect_all(p)
    BY <1>1, <1>2 DEF AlreadyConnected, registry_update, release_unit, disconnect_all
  <1>3. ASSUME Done(p), ~Clears(p), ~At(p, "reveal"), UNCHANGED <<kernel, rule, disk, claim>>
        PROVE  IInv'
    <2>1. LocalInv(p)'
      BY <1>3 DEF LocalInv, At, Idle, kernel
    <2> QED  BY <1>3, <2>1, LocalStep
  <1>4. CASE read_uevent_seqnum(p)
    <2>1. /\ proc'[p].stamp = seq /\ proc'[p].id = proc[p].id
          /\ proc'[p].pc = IF proc[p].replace THEN "remove" ELSE "reveal"
          /\ \A q \in Proc \ {p} : proc'[q] = proc[q]
      BY <1>4 DEF read_uevent_seqnum, TypeOK, Local
    <2>2. At(p, "stamp") /\ UNCHANGED <<kernel, rule, disk, claim>>
      BY <1>4 DEF read_uevent_seqnum
    <2>3. LocalInv(p)'
      BY <2>1, <2>2 DEF LocalInv, ProcInv, KernelInv, At, kernel
    <2>4. (Clears(p) => Clears(p)') /\ ~At(p, "reveal")
      BY <2>1, <2>2 DEF Clears, At
    <2> QED  BY <2>1, <2>2, <2>3, <2>4, LocalStep
  <1>5. CASE open_entry(p)
    <2>1. /\ At(p, "open") /\ UNCHANGED <<kernel, rule, disk, claim>>
          /\ Goto(p, IF entry = 0 THEN "stamp" ELSE "write")
      BY <1>5 DEF open_entry
    <2>2. LocalInv(p)'
      BY <2>1 DEF LocalInv, ProcInv, At, kernel
    <2>3. ~Clears(p) /\ ~At(p, "reveal")
      BY <2>1 DEF Clears, At
    <2> QED  BY <2>1, <2>2, <2>3, LocalStep
  <1>6. CASE attr_equal(p)
    <2>1. At(p, "check") /\ UNCHANGED <<kernel, rule, disk, claim>>
      BY <1>6 DEF attr_equal
    <2>2. ~Clears(p) /\ ~At(p, "reveal")
      BY <2>1 DEF Clears, At
    <2>3. CASE Owner = p /\ Goto(p, "open-fd")
      <3>1. Owner' = p
        BY <2>1, <2>3 DEF Owner, disk
      <3>2. LocalInv(p)'
        BY <2>1, <2>3, <3>1 DEF LocalInv, ProcInv, At, kernel
      <3> QED  BY <2>1, <2>2, <2>3, <3>2, LocalStep
    <2> QED  BY <1>3, <1>6, <2>1, <2>2, <2>3 DEF attr_equal
  <1>7. CASE open_fd(p)
    <2>1. At(p, "open-fd") /\ UNCHANGED <<kernel, rule, disk, claim>>
      BY <1>7 DEF open_fd
    <2>2. ~Clears(p) /\ ~At(p, "reveal")
      BY <2>1 DEF Clears, At
    <2>3. CASE entry # 0
      <3>1. /\ proc'[p].pc = "unlink" /\ proc'[p].fd = entry
            /\ proc'[p].id = proc[p].id /\ proc'[p].stamp = proc[p].stamp
            /\ \A q \in Proc \ {p} : proc'[q] = proc[q]
        BY <1>7, <2>3 DEF open_fd, TypeOK, Local
      <3>2. dir'[entry].owner \in {p, None}
        BY <2>1, <2>3 DEF ProcInv, LocalInv, Owner, disk
      <3>3. LocalInv(p)'
        BY <2>1, <3>1, <3>2 DEF LocalInv, ProcInv, At, kernel
      <3> QED  BY <2>1, <2>2, <3>1, <3>3, LocalStep
    <2> QED  BY <1>3, <1>7, <2>1, <2>2, <2>3 DEF open_fd
  <1>8. CASE disconnect_all_match(p)
    <2>1. At(p, "match") /\ UNCHANGED <<kernel, rule, disk, claim>> /\ NoneAt(p, Recording)
      BY <1>8 DEF disconnect_all_match
    <2>2. ~Clears(p) /\ ~At(p, "reveal")
      BY <2>1 DEF Clears, At
    <2>3. CASE OwnerMatches(proc[p].want) /\ Goto(p, "drop")
      <3>1. ~\E q \in Proc : At(q, "reveal")
        BY <2>1, <2>2 DEF NoneAt, At, Recording
      <3>2. claim \in {None, proc[p].want}
        BY <2>3, <3>1 DEF ClaimInv, OwnerMatches, Owner
      <3>3. LocalInv(p)'
        BY <2>1, <2>3, <3>2 DEF LocalInv, ProcInv, At, kernel
      <3> QED  BY <2>1, <2>2, <2>3, <3>3, LocalStep
    <2> QED  BY <1>3, <1>8, <2>1, <2>2, <2>3 DEF disconnect_all_match
  <1>9. CASE Kill(p)
    <2>1. ~Clears(p) /\ ~At(p, "reveal")
      BY <1>9 DEF Kill, Clears, At, Recording
    <2> QED  BY <1>3, <1>9, <2>1 DEF Kill
  <1> QED  BY <1>2, <1>4, <1>5, <1>6, <1>7, <1>8, <1>9

(* The device goes, and with it the claim.  The program p may have ended. *)
LEMMA RemovalStep ==
    ASSUME IInv, TypeInv', RemoveDevice, UNCHANGED <<rule, disk>>,
           \A q \in Proc : proc'[q] = proc[q] \/ proc'[q] = Idle
    PROVE  IInv'
  <1> USE Numbers DEF IInv, TypeInv
  <1>1. dev' = 0 /\ seq' = seq + 1 /\ claim' = None
    BY DEF RemoveDevice
  <1>2. KernelInv'
    <2>1. \A k \in 1..Len(events') : events'[k] <= seq'
      <3>1. /\ Len(events') = Len(events) + 1
            /\ \A k \in 1..Len(events) : events'[k] = events[k]
            /\ events'[Len(events) + 1] = seq + 1
        BY AppendProperties DEF RemoveDevice, TypeOK
      <3> QED  BY <1>1, <3>1 DEF KernelInv
    <2> QED  BY <1>1, <2>1 DEF KernelInv, disk
  <1>3. ProcInv'
    BY <1>1 DEF ProcInv, LocalInv, At, Owner, Idle, disk
  <1> QED  BY <1>1, <1>2, <1>3 DEF OldEntryInv, RuleInv, ClaimInv, disk

(* A connect makes the device.  All programs are idle, every number so far  *)
(* is older than the device, and the connect will take the old entry away.  *)
LEMMA ConnectStep ==
    ASSUME Races = {}, IInv, TypeInv', NEW p \in Proc, Connect(p)
    PROVE  IInv'
  <1> USE Numbers DEF IInv, TypeInv
  <1>1. /\ dev = 0 /\ dev' = seq + 1 /\ seq' = seq + 1 /\ claim = None
        /\ UNCHANGED <<events, rule, disk, claim>>
        /\ \A q \in Proc : At(q, "idle")
    BY DEF Connect, ClaimInv
  <1>2. /\ proc'[p].pc \in {"stamp", "clear"} /\ proc'[p].id = seq + 1
        /\ proc'[p].stamp = 0 /\ (proc'[p].pc = "stamp" => proc'[p].replace)
        /\ \A q \in Proc \ {p} : proc'[q] = proc[q]
    <2>1. Begin(p, "stamp", seq + 1, TRUE, None) \/ Begin(p, "clear", seq + 1, FALSE, None)
      BY <1>1 DEF Connect
    <2>2. ASSUME NEW pc, NEW replace, Begin(p, pc, seq + 1, replace, None)
          PROVE  /\ proc'[p].pc = pc /\ proc'[p].id = seq + 1
                 /\ proc'[p].stamp = 0 /\ proc'[p].replace = replace
                 /\ \A q \in Proc \ {p} : proc'[q] = proc[q]
      BY <2>2, Places
    <2> QED  BY <2>1, <2>2
  <1>3. KernelInv'
    BY <1>1 DEF KernelInv, disk
  <1>4. ProcInv'
    BY <1>1, <1>2 DEF ProcInv, LocalInv, At
  <1>5. OldEntryInv'
    BY <1>1, <1>2 DEF OldEntryInv, Clears, At
  <1>6. RuleInv' /\ ClaimInv'
    BY <1>1 DEF KernelInv, RuleInv, ClaimInv, disk
  <1> QED  BY <1>3, <1>4, <1>5, <1>6

(* The shell of the rule.  It unlinks files of an entry that is older than  *)
(* the device, so that it never meets a claim.                              *)
LEMMA RuleStep ==
    ASSUME IInv, TypeInv', Rule
    PROVE  IInv'
  <1> USE Numbers DEF IInv, TypeInv
  <1>1. CASE rule_exists
    <2>1. UNCHANGED <<seq, dev, disk, proc, claim>>
      BY <1>1 DEF rule_exists
    <2>2. /\ rule.pc = "idle"
          /\ \/ rule' = rule
             \/ dev = 0 /\ rule'.seq = Head(events) /\ rule'.pc = "cat"
      BY <1>1 DEF rule_exists, TypeOK, Shell
    <2>3. /\ Len(events') = Len(events) - 1 /\ Head(events) = events[1]
          /\ Len(events) # 0
          /\ \A k \in 1..(Len(events) - 1) : events'[k] = events[k + 1]
      BY <1>1, HeadTailProperties, EmptySeq DEF rule_exists, TypeOK
    <2>4. KernelInv'
      <3>1. \A k \in 1..Len(events') : events'[k] <= seq /\ (dev # 0 => events'[k] < dev)
        <4>1. ASSUME NEW k \in 1..Len(events')
              PROVE  k + 1 \in 1..Len(events) /\ events'[k] = events[k + 1]
          BY <2>3, <4>1
        <4> QED  BY <4>1 DEF KernelInv
      <3>2. Head(events) <= seq
        BY <2>3 DEF KernelInv
      <3> QED  BY <2>1, <2>2, <3>1, <3>2 DEF KernelInv, disk
    <2>5. ProcInv' /\ OldEntryInv' /\ ClaimInv'
      BY <2>1 DEF ProcInv, LocalInv, OldEntryInv, ClaimInv, Clears, At, Owner, disk
    <2>6. RuleInv'
      BY <2>1, <2>2 DEF RuleInv, disk
    <2> QED  BY <2>4, <2>5, <2>6
  <1>2. CASE rule_cat
    <2>1. UNCHANGED <<kernel, disk, proc, claim>>
      BY <1>2 DEF rule_cat
    <2>2. \/ rule'.pc = "rm" /\ rule'.seq = rule.seq /\ rule.seq > Stamp
          \/ rule'.pc = "idle" /\ rule'.seq = 0
      BY <1>2 DEF rule_cat, Stale, NoShell, TypeOK, Shell
    <2>3. KernelInv'
      BY <2>1, <2>2 DEF KernelInv, kernel, disk
    <2>4. ProcInv' /\ OldEntryInv' /\ ClaimInv'
      BY <2>1 DEF ProcInv, LocalInv, OldEntryInv, ClaimInv, Clears, At, Owner, disk, kernel
    <2>5. RuleInv'
      BY <2>1, <2>2 DEF RuleInv, KernelInv, Stamp, kernel, disk
    <2> QED  BY <2>3, <2>4, <2>5
  <1>3. CASE rule_rm
    <2>1. UNCHANGED <<kernel, disk, proc, claim>> /\ rule.pc = "rm"
      BY <1>3 DEF rule_rm
    <2>2. \/ rule'.pc = "unlink" /\ rule'.seq = rule.seq /\ rule'.fd = entry
          \/ rule'.pc = "idle" /\ rule'.seq = 0
      BY <1>3 DEF rule_rm, NoShell, TypeOK, Shell
    <2>3. KernelInv'
      BY <2>1, <2>2 DEF KernelInv, kernel, disk
    <2>4. ProcInv' /\ OldEntryInv' /\ ClaimInv'
      BY <2>1 DEF ProcInv, LocalInv, OldEntryInv, ClaimInv, Clears, At, Owner, disk, kernel
    <2>5. RuleInv'
      BY <2>1, <2>2 DEF RuleInv, kernel, disk
    <2> QED  BY <2>3, <2>4, <2>5
  <1>4. CASE rule_unlink
    <2>1. rule.pc = "unlink" /\ UNCHANGED <<kernel, proc, claim>> /\ rule.fd \in Dir
      BY <1>4 DEF rule_unlink, TypeOK, FdInv, Shell
    <2>2. claim # None => entry = 0
      BY <2>1 DEF RuleInv, ClaimInv, OldEntryInv
    <2>3. CASE UNCHANGED entry /\ \E f \in rule.left :
                  /\ dir' = [dir EXCEPT ![rule.fd][f] = EmptyDir[f]]
                  /\ rule' = [rule EXCEPT !.left = @ \ {f}]
      <3>1. rule'.pc = "unlink" /\ rule'.seq = rule.seq /\ rule'.fd = rule.fd
        BY <2>1, <2>3 DEF TypeOK, Shell
      <3>2. /\ \A d \in Dir \ {rule.fd} : dir'[d] = dir[d]
            /\ dir'[rule.fd].seqnum \in {0, dir[rule.fd].seqnum}
            /\ dir'[rule.fd].owner \in {None, dir[rule.fd].owner}
        <4>1. PICK f \in rule.left : dir' = [dir EXCEPT ![rule.fd][f] = EmptyDir[f]]
          BY <2>3
        <4>2. f \in {"seqnum", "owner"}
          BY DEF TypeOK, Shell, File
        <4> QED  BY <2>1, <4>1, <4>2 DEF TypeOK, Content, EmptyDir
      <3>3. KernelInv'
        BY <2>1, <3>1, <3>2 DEF KernelInv, kernel
      <3>4. ProcInv'
        <4>1. Owner' \in {None, Owner}
          BY <2>3, <3>2, <2>1 DEF Owner
        <4>2. \A q \in Proc : At(q, "unlink") =>
                 dir'[proc[q].fd].owner \in {None, dir[proc[q].fd].owner}
          BY <2>1, <3>2 DEF TypeOK, Local, FdInv
        <4> QED  BY <2>1, <4>1, <4>2 DEF ProcInv, LocalInv, At, kernel
      <3>5. OldEntryInv'
        BY <2>1, <2>2, <2>3, <3>2 DEF OldEntryInv, RuleInv, Clears, At, kernel
      <3>6. RuleInv'
        BY <2>1, <2>3, <3>1, <3>2 DEF RuleInv, kernel
      <3>7. ClaimInv'
        BY <2>1, <2>2, <2>3 DEF ClaimInv, At, kernel
      <3> QED  BY <3>3, <3>4, <3>5, <3>6, <3>7
    <2>4. CASE rule' = NoShell /\ UNCHANGED dir /\ entry' \in {0, entry}
      <3>1. rule'.pc = "idle" /\ rule'.seq = 0
        BY <2>4 DEF NoShell
      <3>2. KernelInv'
        BY <2>1, <2>4, <3>1 DEF KernelInv, kernel
      <3>3. ProcInv'
        BY <2>1, <2>4 DEF ProcInv, LocalInv, At, Owner, kernel
      <3>4. OldEntryInv' /\ RuleInv' /\ ClaimInv'
        BY <2>1, <2>2, <2>4, <3>1 DEF OldEntryInv, RuleInv, ClaimInv, Clears, At, kernel
      <3> QED  BY <3>2, <3>3, <3>4
    <2> QED  BY <1>4, <2>3, <2>4 DEF rule_unlink
  <1> QED  BY <1>1, <1>2, <1>3, <1>4 DEF Rule

(* A program that works on a device works on the one that is there, or      *)
(* there is none and nothing is claimed: what it does to the owner is what  *)
(* becomes of the claim.                                                    *)
LEMMA ClaimsCurrent ==
    ASSUME IInv, NEW p \in Proc, ~At(p, "idle"), NEW o, Claims(p, o)
    PROVE  IF dev # 0 THEN claim' = o ELSE claim' = None
  BY DEF IInv, ProcInv, LocalInv, ClaimInv, Claims

(* The steps that change the entry: the rename of the old one, the reveal   *)
(* of the new one, the deletion, the owner's file written and unlinked.     *)
LEMMA EntryStep ==
    ASSUME Races = {}, IInv, TypeInv', NEW p \in Proc,
           \/ delete_dir_atomic(p) \/ reveal(p) \/ libnvmf_registry_delete(p)
           \/ write_attr_atomic(p) \/ unlink_owner(p)
    PROVE  IInv'
  <1> USE Numbers, Places, RegistryAssumption DEF IInv, TypeInv
  <1>1. CASE delete_dir_atomic(p)
    <2>1. /\ At(p, "remove") /\ entry' = 0 /\ Goto(p, "reveal")
          /\ UNCHANGED <<kernel, rule, dir, claim>>
      BY <1>1 DEF delete_dir_atomic
    <2>2. KernelInv' /\ OldEntryInv' /\ RuleInv'
      BY <2>1 DEF KernelInv, OldEntryInv, RuleInv, kernel
    <2>3. ProcInv'
      BY <2>1 DEF ProcInv, LocalInv, At, Owner, kernel
    <2>4. ClaimInv'
      BY <2>1 DEF ClaimInv, At, kernel
    <2> QED  BY <2>2, <2>3, <2>4
  <1>2. ASSUME Undisturbed(p)
        PROVE  /\ rule.pc \notin {"rm", "unlink"}
               /\ \A q \in Proc \ {p} : proc[q].pc \notin {"open-fd", "unlink", "drop"}
    BY <1>2 DEF Undisturbed, NoneAt
  <1>3. CASE reveal(p)
    <2>1. At(p, "reveal") /\ UNCHANGED <<kernel, rule>> /\ Undisturbed(p)
      BY <1>3 DEF reveal
    <2>2. CASE /\ entry' = NewDir /\ dir' = [dir EXCEPT ![NewDir] = Revealed(p)]
               /\ Claims(p, p) /\ Done(p)
      <3> DEFINE new == NewDir
      <3>1. new \in Dir
        BY <2>1, NewDirExists
      <3> HIDE DEF new
      <3>2. /\ entry' = new /\ entry' # 0
            /\ dir'[new].seqnum = proc[p].stamp /\ dir'[new].owner = p
            /\ \A d \in Dir \ {new} : dir'[d] = dir[d]
        BY <2>2, <3>1 DEF new, Revealed, TypeOK
      <3>3. IF dev # 0 THEN claim' = p ELSE claim' = None
        BY <2>1, <2>2, ClaimsCurrent DEF At
      <3>4. KernelInv'
        BY <2>1, <3>1, <3>2 DEF KernelInv, ProcInv, LocalInv, kernel
      <3>5. ProcInv'
        BY <1>2, <2>1, <2>2 DEF ProcInv, LocalInv, At, Idle, kernel
      <3>6. dev <= dir'[new].seqnum
        BY <2>1, <3>2 DEF ProcInv, LocalInv, At
      <3>7. OldEntryInv' /\ RuleInv' /\ ClaimInv'
        BY <1>2, <2>1, <3>1, <3>2, <3>3, <3>6 DEF OldEntryInv, RuleInv, ClaimInv, kernel
      <3> QED  BY <3>4, <3>5, <3>7
    <2>3. CASE ~Vacant /\ (Done(p) \/ Goto(p, "write")) /\ UNCHANGED <<disk, claim>>
      <3>1. entry # 0
        BY <2>3 DEF Vacant
      <3>2. KernelInv' /\ RuleInv' /\ ClaimInv'
        BY <2>1, <2>3, <3>1 DEF KernelInv, RuleInv, ClaimInv, kernel, disk
      <3>3. ProcInv'
        BY <2>1, <2>3 DEF ProcInv, LocalInv, At, Idle, Owner, kernel, disk
      <3>4. OldEntryInv'
        BY <2>1, <2>3 DEF OldEntryInv, Clears, At, kernel, disk
      <3> QED  BY <3>2, <3>3, <3>4
    <2> QED  BY <1>3, <2>2, <2>3 DEF reveal
  <1>4. CASE libnvmf_registry_delete(p)
    <2>1. /\ At(p, "clear") /\ entry' = 0 /\ Claims(p, None) /\ Done(p)
          /\ UNCHANGED <<kernel, rule, dir>>
      BY <1>4 DEF libnvmf_registry_delete
    <2>2. claim' = None
      BY <2>1, ClaimsCurrent DEF At
    <2>3. ProcInv'
      BY <2>1, <2>2 DEF ProcInv, LocalInv, At, Idle, Owner, kernel
    <2> QED  BY <2>1, <2>2, <2>3 DEF KernelInv, OldEntryInv, RuleInv, ClaimInv, kernel
  <1>5. CASE write_attr_atomic(p)
    <2>1. /\ At(p, "write") /\ UNCHANGED <<kernel, rule, entry>> /\ Undisturbed(p)
          /\ NoneAt(p, Recording) /\ Done(p)
      BY <1>5 DEF write_attr_atomic
    <2>2. ~\E q \in Proc : At(q, "reveal") \/ Clears(q)
      BY <2>1 DEF NoneAt, At, Clears, Recording
    <2>3. CASE entry # 0 /\ dir' = [dir EXCEPT ![entry].owner = p] /\ Claims(p, p)
      <3>1. /\ \A d \in Dir \ {entry} : dir'[d] = dir[d]
            /\ dir'[entry].seqnum = dir[entry].seqnum /\ dir'[entry].owner = p
        BY <2>3 DEF TypeOK, Content
      <3>2. IF dev # 0 THEN claim' = p ELSE claim' = None
        BY <2>1, <2>3, ClaimsCurrent DEF At
      <3>3. KernelInv'
        BY <2>1, <3>1 DEF KernelInv, kernel
      <3>4. ProcInv'
        BY <1>2, <2>1 DEF ProcInv, LocalInv, At, Idle, kernel
      <3>5. OldEntryInv' /\ RuleInv' /\ ClaimInv'
        BY <1>2, <2>1, <2>2, <2>3, <3>1, <3>2 DEF OldEntryInv, RuleInv, ClaimInv, kernel
      <3> QED  BY <3>3, <3>4, <3>5
    <2>4. CASE entry = 0 /\ UNCHANGED <<dir, claim>>
      <3>1. KernelInv' /\ OldEntryInv' /\ RuleInv' /\ ClaimInv'
        BY <2>1, <2>2, <2>4 DEF KernelInv, OldEntryInv, RuleInv, ClaimInv, kernel
      <3>2. ProcInv'
        BY <2>1, <2>4 DEF ProcInv, LocalInv, At, Idle, Owner, kernel
      <3> QED  BY <3>1, <3>2
    <2> QED  BY <1>5, <2>3, <2>4 DEF write_attr_atomic
  <1>6. CASE unlink_owner(p)
    <2> DEFINE fd == proc[p].fd
    <2>1. /\ At(p, "unlink") /\ Done(p) /\ UNCHANGED <<kernel, rule, entry>>
          /\ Claims(p, IF claim = p THEN None ELSE claim)
      BY <1>6 DEF unlink_owner
    <2>2. fd \in Dir /\ dir[fd].owner \in {p, None}
      BY <2>1 DEF ProcInv, LocalInv, FdInv, TypeOK, Local
    <2>3. /\ \A d \in Dir \ {fd} : dir'[d] = dir[d]
          /\ dir'[fd].seqnum = dir[fd].seqnum /\ dir'[fd].owner = None
      BY <1>6, <2>2 DEF unlink_owner, TypeOK, Content
    <2>4. claim' \in {claim, None} /\ claim' # p
      BY <2>1, ClaimsCurrent DEF At, ClaimInv
    <2> HIDE DEF fd
    <2>5. KernelInv'
      BY <2>1, <2>3, <2>2 DEF KernelInv, kernel
    <2>6. ProcInv'
      <3>1. Owner' \in {Owner, None}
        BY <2>1, <2>3 DEF Owner
      <3>2. \A q \in Proc : At(q, "unlink") =>
               dir'[proc[q].fd].owner \in {None, dir[proc[q].fd].owner}
        BY <2>2, <2>3 DEF TypeOK, Local, FdInv
      <3> QED  BY <2>1, <2>4, <3>1, <3>2 DEF ProcInv, LocalInv, At, Idle, kernel
    <2>7. OldEntryInv'
      BY <2>1, <2>2, <2>3, <2>4 DEF OldEntryInv, Clears, At, kernel
    <2>8. RuleInv'
      BY <2>1, <2>2, <2>3 DEF RuleInv, kernel
    <2>9. ClaimInv'
      BY <2>1, <2>2, <2>3, <2>4 DEF ClaimInv, At, kernel
    <2> QED  BY <2>5, <2>6, <2>7, <2>8, <2>9
  <1> QED  BY <1>1, <1>3, <1>4, <1>5, <1>6

(* With the windows closed, every step keeps the inductive invariant. *)
LEMMA InvStep ==
    ASSUME Races = {}, IInv, [Next]_vars
    PROVE  IInv'
  <1>1. TypeInv'
    BY TypeStep DEF IInv
  <1>2. CASE UNCHANGED vars
    BY <1>1, <1>2
       DEF IInv, KernelInv, ProcInv, LocalInv, OldEntryInv, RuleInv, ClaimInv, Clears, At,
           Owner, vars, kernel, disk
  <1>3. CASE DeviceLost
    BY <1>1, <1>3, RemovalStep DEF DeviceLost
  <1>4. CASE Rule
    BY <1>1, <1>4, RuleStep
  <1>5. ASSUME NEW p \in Proc, Starts(p) \/ Steps(p) \/ Kill(p)
        PROVE  IInv'
    <2>1. CASE disconnect_ctrl(p)
      <3>1. TypeOK /\ Done(p) /\ At(p, "drop") /\ UNCHANGED <<rule, disk>>
        BY <2>1 DEF disconnect_ctrl, IInv, TypeInv
      <3>2. \A q \in Proc : proc'[q] = proc[q] \/ proc'[q] = Idle
        BY <3>1, Places
      <3>3. CASE RemoveDevice
        BY <1>1, <3>1, <3>2, <3>3, RemovalStep
      <3>4. CASE UNCHANGED <<kernel, claim>>
        <4>1. LocalInv(p)'
          BY <3>1, <3>4, Places, Numbers DEF LocalInv, At, Idle, IInv, kernel
        <4>2. ~Clears(p) /\ ~At(p, "reveal")
          BY <3>1 DEF Clears, At
        <4>3. \A q \in Proc \ {p} : proc'[q] = proc[q]
          BY <3>1, Places
        <4> QED  BY <1>1, <3>1, <3>4, <4>1, <4>2, <4>3, LocalStep
      <3> QED  BY <2>1, <3>3, <3>4 DEF disconnect_ctrl
    <2> QED  BY <1>1, <1>5, <2>1, ConnectStep, LookStep, EntryStep DEF Starts, Steps
  <1> QED  BY <1>2, <1>3, <1>4, <1>5 DEF Next

(* The inductive invariant holds in every state, with the windows closed:   *)
(* programs look at the entry and act on it without another writer between, *)
(* a connect records its owner undisturbed, a name is not reused while a    *)
(* program works for its last device, and nobody writes an entry while the  *)
(* shell removes it.                                                        *)
THEOREM Invariance ==
    ASSUME Races = {}
    PROVE  Spec => []IInv
  <1>1. Init => IInv
    <2>1. ASSUME Init PROVE TypeInv
      BY <2>1, RegistryAssumption, EmptySeq
         DEF Init, TypeInv, TypeOK, FdInv, At, Idle, NoShell, Local, Shell, Recording,
             Content, EmptyDir, Dir
    <2>2. ASSUME Init PROVE KernelInv
      BY <2>2, EmptySeq DEF Init, KernelInv, NoShell, EmptyDir
    <2>3. ASSUME Init PROVE ProcInv /\ OldEntryInv /\ RuleInv /\ ClaimInv
      BY <2>3
         DEF Init, ProcInv, LocalInv, OldEntryInv, RuleInv, ClaimInv, At, Idle, NoShell
    <2> QED  BY <2>1, <2>2, <2>3 DEF IInv
  <1>2. IInv /\ [Next]_vars => IInv'
    BY InvStep
  <1> QED  BY <1>1, <1>2, PTL DEF Spec

(* The owner recorded for a device stays in its entry until it is replaced  *)
(* or cleared for this device, however late udev handles the removals of    *)
(* earlier devices of the name: their numbers are smaller than the stamp    *)
(* that create_entry() wrote, and 70-nvmf-registry.rules compares the two.  *)
THEOREM ClaimsAreKept ==
    ASSUME Races = {}
    PROVE  Spec => []ClaimKept
  <1>1. IInv => ClaimKept
    BY DEF IInv, ClaimInv, ClaimKept, Owner, ProcInv, LocalInv, At
  <1> QED  BY <1>1, Invariance, PTL

(* disconnect-all never disconnects a device that is claimed by another     *)
(* owner than the one it was given: what disconnect_all_match() found is    *)
(* still so when libnvmf_disconnect_ctrl() writes to sysfs.                 *)
THEOREM OwnedAreSpared ==
    ASSUME Races = {}
    PROVE  Spec => OwnedSpared
  <1>1. IInv /\ [Next]_vars =>
           [\A p \in Proc : disconnect_ctrl(p) /\ dev # 0 => claim \in {None, proc[p].want}]_vars
    BY DEF IInv, ProcInv, LocalInv, disconnect_ctrl
  <1> QED  BY <1>1, Invariance, PTL DEF Spec, OwnedSpared

=============================================================================
