------------------------------- MODULE Registry -------------------------------
(***************************************************************************)
(* The ownership registry: the entry of one device name                    *)
(* (libnvme/src/nvme/registry.c, the callers in fabrics.c, discoverd and   *)
(* nvme disconnect-all, and the udev rule 70-nvmf-registry.rules).         *)
(*                                                                         *)
(* An entry is a directory with a file for the owner and one for the       *)
(* uevent sequence number at its creation.  Programs make, change and      *)
(* remove it without a lock, one file system call after the other, while   *)
(* the kernel removes the device and gives its name to a new one, and udev *)
(* runs a shell for each removal, as late as it likes.                     *)
(*                                                                         *)
(* The entries of two names have nothing in common, so there is one name.  *)
(* The steps of a deletion that follow the rename to a hidden directory    *)
(* and the steps that fill a hidden directory are not seen by anyone and   *)
(* are part of the step before or after them.                              *)
(***************************************************************************)
EXTENDS Integers, Sequences, FiniteSets

CONSTANTS
    Proc,       \* the programs, each with the owner name it claims
    None,
    Races,      \* the narrow windows that are open, of AllRaces
    MaxSeq      \* bound: uevents of the kernel

(* "rule": the entry is written while the shell of the rule is past its    *)
(* checks.  "slow": the name is reused while a program still works for the *)
(* device that had it.  "check": another program writes the entry between  *)
(* a program's look at the owner and what it does then.  "record": another *)
(* program changes the entry, or disconnect-all looks at it, while a       *)
(* connect records its owner.  "kill": a connect is killed while it does.  *)
AllRaces == {"rule", "slow", "check", "record", "kill"}

ASSUME RegistryAssumption ==
    /\ None \notin Proc /\ IsFiniteSet(Proc)
    /\ Races \subseteq AllRaces
    /\ MaxSeq \in Nat

VARIABLES
    seq,        \* /sys/kernel/uevent_seqnum
    dev,        \* the device: the number of its add event, or 0
    events,     \* remove events that udev did not handle yet
    rule,       \* the shell of the rule
    entry,      \* the directory at the path of the entry, or 0
    dir,        \* the contents of the directories
    proc,       \* where each program is
    claim       \* history: the owner that was recorded for this device

kernel == <<seq, dev, events>>
disk == <<entry, dir>>
vars == <<kernel, rule, disk, proc, claim>>

(* One directory for each that can be open, and one more. *)
Dir == 1..Cardinality(Proc) + 2

(* A directory without files has neither a stamp nor an owner. *)
File == {"seqnum", "owner"}
EmptyDir == [seqnum |-> 0, owner |-> None]
Content == [seqnum : 0..MaxSeq, owner : Proc \cup {None}]

(* pc: the next step.  id: the device that the program works for.  stamp,  *)
(* replace: the entry it makes.  fd: a directory it has open.  want: the   *)
(* owner that disconnect-all looks for.                                    *)
Recording == {"stamp", "remove", "reveal", "clear"}
Local == [pc : Recording \cup {"idle", "open", "write", "check", "open-fd", "unlink",
                               "match", "drop"},
          id : 0..MaxSeq, stamp : 0..MaxSeq, replace : BOOLEAN, fd : Dir \cup {0},
          want : Proc \cup {None}]
Idle == [pc |-> "idle", id |-> 0, stamp |-> 0, replace |-> FALSE, fd |-> 0, want |-> None]

Shell == [pc : {"idle", "cat", "rm", "unlink"}, seq : 0..MaxSeq, fd : Dir \cup {0},
          left : SUBSET File]
NoShell == [pc |-> "idle", seq |-> 0, fd |-> 0, left |-> {}]

TypeOK ==
    /\ seq \in 0..MaxSeq /\ dev \in 0..MaxSeq
    /\ events \in Seq(1..MaxSeq)
    /\ rule \in Shell
    /\ entry \in Dir \cup {0}
    /\ dir \in [Dir -> Content]
    /\ proc \in [Proc -> Local]
    /\ claim \in Proc \cup {None}

At(p, pc) == proc[p].pc = pc

(* No other program than p is at one of the steps S. *)
NoneAt(p, S) == \A q \in Proc \ {p} : proc[q].pc \notin S

(* The owner and the stamp that a reader finds; 0 for no stamp. *)
Owner == IF entry = 0 THEN None ELSE dir[entry].owner
Stamp == IF entry = 0 THEN 0 ELSE dir[entry].seqnum

Goto(p, pc) == proc' = [proc EXCEPT ![p].pc = pc]
Done(p) == proc' = [proc EXCEPT ![p] = Idle]

(* What p does to the owner is meant for the device it works for. *)
Claims(p, o) == claim' = IF dev = proc[p].id THEN o ELSE claim

--------------------------------------------------------------------------------
(* The kernel. *)

(* The node goes, then the event is sent. *)
RemoveDevice ==
    /\ dev # 0 /\ seq < MaxSeq
    /\ dev' = 0
    /\ seq' = seq + 1
    /\ events' = Append(events, seq + 1)
    /\ claim' = None

DeviceLost ==
    /\ RemoveDevice
    /\ UNCHANGED <<rule, disk, proc>>

--------------------------------------------------------------------------------
(* A program begins an operation on the device. *)

Begin(p, pc, id, replace, want) ==
    /\ At(p, "idle")
    /\ proc' = [proc EXCEPT ![p] = [Idle EXCEPT !.pc = pc, !.id = id, !.replace = replace,
                                                !.want = want]]

(* A connect makes the device.  It claims the entry, or clears what an     *)
(* earlier device of the name left (registry_action_on_connect()).         *)
Connect(p) ==
    /\ dev = 0 /\ seq < MaxSeq
    /\ "slow" \in Races \/ \A q \in Proc : At(q, "idle")
    /\ seq' = seq + 1
    /\ dev' = seq + 1
    /\ \/ Begin(p, "stamp", dev', TRUE, None)
       \/ Begin(p, "clear", dev', FALSE, None)
    /\ UNCHANGED <<events, rule, disk, claim>>

(* A connect finds the device connected and claims or disowns it. *)
AlreadyConnected(p) ==
    /\ dev # 0
    /\ \/ Begin(p, "stamp", dev, TRUE, None)
       \/ Begin(p, "clear", dev, FALSE, None)
    /\ UNCHANGED <<kernel, rule, disk, claim>>

(* "nvme registry update" of the owner. *)
registry_update(p) ==
    /\ dev # 0
    /\ Begin(p, "open", dev, FALSE, None)
    /\ UNCHANGED <<kernel, rule, disk, claim>>

(* release_unit() of discoverd clears an owner that is still its own. *)
release_unit(p) ==
    /\ dev # 0
    /\ Begin(p, "check", dev, FALSE, None)
    /\ UNCHANGED <<kernel, rule, disk, claim>>

(* "nvme disconnect-all" of the controllers without an owner, or of those  *)
(* of one owner, found the device in its scan.                             *)
disconnect_all(p) ==
    /\ dev # 0
    /\ \E o \in Proc \cup {None} : Begin(p, "match", dev, FALSE, o)
    /\ UNCHANGED <<kernel, rule, disk, claim>>

--------------------------------------------------------------------------------
(* create_entry(): a hidden directory gets the stamp and the owner, an old *)
(* entry is renamed away, the new one is renamed into place.               *)

(* Mutant: the stamp is the number of the next event. *)
read_uevent_seqnum_Next(p) ==
    /\ At(p, "stamp")
    /\ proc' = [proc EXCEPT ![p].stamp = seq + 1,
                            ![p].pc = IF proc[p].replace THEN "remove" ELSE "reveal"]
    /\ UNCHANGED <<kernel, rule, disk, claim>>

read_uevent_seqnum(p) ==
    /\ At(p, "stamp")
    /\ proc' = [proc EXCEPT ![p].stamp = seq,
                            ![p].pc = IF proc[p].replace THEN "remove" ELSE "reveal"]
    /\ UNCHANGED <<kernel, rule, disk, claim>>

delete_dir_atomic(p) ==
    /\ At(p, "remove")
    /\ entry' = 0
    /\ Goto(p, "reveal")
    /\ UNCHANGED <<kernel, rule, dir, claim>>

(* p writes the entry, and no window is closed to it. *)
Undisturbed(p) ==
    /\ "check" \in Races \/ NoneAt(p, {"open-fd", "unlink", "drop"})
    /\ "rule" \in Races \/ rule.pc \notin {"rm", "unlink"}

(* The directories that are open, or at the path. *)
InUse == {entry, rule.fd} \cup {proc[q].fd : q \in Proc}
NewDir == CHOOSE d \in Dir : d \notin InUse

(* rename() replaces an empty directory and fails on any other. *)
Vacant == IF entry = 0 THEN TRUE ELSE dir[entry] = EmptyDir

Revealed(p) == [seqnum |-> proc[p].stamp, owner |-> p]

reveal(p) ==
    /\ At(p, "reveal")
    /\ Undisturbed(p)
    /\ \/ /\ Vacant
          /\ entry' = NewDir
          /\ dir' = [dir EXCEPT ![NewDir] = Revealed(p)]
          /\ Claims(p, p)
          /\ Done(p)
       \/ /\ ~Vacant
          /\ IF proc[p].replace THEN Done(p) ELSE Goto(p, "write")
          /\ UNCHANGED <<disk, claim>>
    /\ UNCHANGED <<kernel, rule>>

(* libnvmf_registry_delete() *)
libnvmf_registry_delete(p) ==
    /\ At(p, "clear")
    /\ "check" \in Races \/ NoneAt(p, {"drop"})
    /\ entry' = 0
    /\ Claims(p, None)
    /\ Done(p)
    /\ UNCHANGED <<kernel, rule, dir>>

--------------------------------------------------------------------------------
(* libnvmf_registry_update() of an owner: it makes the entry if there is   *)
(* none.                                                                   *)

open_entry(p) ==
    /\ At(p, "open")
    /\ Goto(p, IF entry = 0 THEN "stamp" ELSE "write")
    /\ UNCHANGED <<kernel, rule, disk, claim>>

(* write_attr_atomic(): the file is renamed into whatever directory is at  *)
(* the path by now, or the call fails.                                     *)
write_attr_atomic(p) ==
    /\ At(p, "write")
    /\ Undisturbed(p)
    /\ "record" \in Races \/ NoneAt(p, Recording)
    /\ \/ /\ entry # 0
          /\ dir' = [dir EXCEPT ![entry].owner = p]
          /\ Claims(p, p)
       \/ /\ entry = 0
          /\ UNCHANGED <<dir, claim>>
    /\ Done(p)
    /\ UNCHANGED <<kernel, rule, entry>>

(* libnvmf_registry_attr_equal() and libnvmf_registry_update() without a   *)
(* value, which removes the file from the directory it opened.             *)

attr_equal(p) ==
    /\ At(p, "check")
    /\ IF Owner = p THEN Goto(p, "open-fd") ELSE Done(p)
    /\ UNCHANGED <<kernel, rule, disk, claim>>

open_fd(p) ==
    /\ At(p, "open-fd")
    /\ IF entry = 0 THEN Done(p)
       ELSE proc' = [proc EXCEPT ![p].pc = "unlink", ![p].fd = entry]
    /\ UNCHANGED <<kernel, rule, disk, claim>>

unlink_owner(p) ==
    /\ At(p, "unlink")
    /\ dir' = [dir EXCEPT ![proc[p].fd].owner = None]
    /\ Claims(p, IF claim = p THEN None ELSE claim)
    /\ Done(p)
    /\ UNCHANGED <<kernel, rule, entry>>

--------------------------------------------------------------------------------
(* disconnect_all_match() and libnvmf_disconnect_ctrl(), which writes to   *)
(* the sysfs directory of the name.                                        *)

(* Mutant: a controller whose owner cannot be told counts as not owned. *)
OwnerMatchesLoosely(o) == o = None \/ Owner = o

OwnerMatches(o) == Owner = o

disconnect_all_match(p) ==
    /\ At(p, "match")
    /\ "record" \in Races \/ NoneAt(p, Recording)
    /\ IF OwnerMatches(proc[p].want) THEN Goto(p, "drop") ELSE Done(p)
    /\ UNCHANGED <<kernel, rule, disk, claim>>

disconnect_ctrl(p) ==
    /\ At(p, "drop")
    /\ \/ RemoveDevice
       \/ dev = 0 /\ UNCHANGED <<kernel, claim>>
    /\ Done(p)
    /\ UNCHANGED <<rule, disk>>

--------------------------------------------------------------------------------
(* The udev rule: one shell at a time for the removals of the name.  Its   *)
(* tests come first, then "rm -rf" lists the directory, unlinks file after *)
(* file and removes the directory.                                         *)

rule_exists ==
    /\ rule.pc = "idle" /\ events # <<>>
    /\ events' = Tail(events)
    /\ rule' = IF dev # 0 THEN rule ELSE [rule EXCEPT !.pc = "cat", !.seq = Head(events)]
    /\ UNCHANGED <<seq, dev, disk, proc, claim>>

(* Mutant: the stamp is not looked at. *)
StaleWhatever(s) == TRUE

Stale(s) == s > Stamp

rule_cat ==
    /\ rule.pc = "cat"
    /\ rule' = IF Stale(rule.seq) THEN [rule EXCEPT !.pc = "rm"] ELSE NoShell
    /\ UNCHANGED <<kernel, disk, proc, claim>>

(* Mutant: the files are removed and the directory is left. *)
rule_unlink_Files ==
    /\ rule.pc = "unlink"
    /\ \/ \E f \in rule.left :
             /\ dir' = [dir EXCEPT ![rule.fd][f] = EmptyDir[f]]
             /\ rule' = [rule EXCEPT !.left = @ \ {f}]
       \/ /\ rule.left = {}
          /\ rule' = NoShell
          /\ UNCHANGED dir
    /\ UNCHANGED <<kernel, entry, proc, claim>>

rule_rm ==
    /\ rule.pc = "rm"
    /\ rule' = IF entry = 0 THEN NoShell
               ELSE [rule EXCEPT !.pc = "unlink", !.fd = entry,
                                 !.left = {f \in File : dir[entry][f] # EmptyDir[f]}]
    /\ UNCHANGED <<kernel, disk, proc, claim>>

rule_unlink ==
    /\ rule.pc = "unlink"
    /\ \/ \E f \in rule.left :
             /\ dir' = [dir EXCEPT ![rule.fd][f] = EmptyDir[f]]
             /\ rule' = [rule EXCEPT !.left = @ \ {f}]
             /\ UNCHANGED entry
       \/ /\ rule.left = {}
          /\ entry' = IF Vacant THEN 0 ELSE entry
          /\ rule' = NoShell
          /\ UNCHANGED dir
    /\ UNCHANGED <<kernel, proc, claim>>

--------------------------------------------------------------------------------
(* A program is killed. *)
Kill(p) ==
    /\ ~At(p, "idle")
    /\ "kill" \in Races \/ proc[p].pc \notin Recording
    /\ Done(p)
    /\ UNCHANGED <<kernel, rule, disk, claim>>

Init ==
    /\ seq = 0 /\ dev = 0 /\ events = <<>> /\ rule = NoShell
    /\ entry = 0 /\ dir = [d \in Dir |-> EmptyDir]
    /\ proc = [p \in Proc |-> Idle]
    /\ claim = None

Rule == rule_exists \/ rule_cat \/ rule_rm \/ rule_unlink

Steps(p) ==
    \/ read_uevent_seqnum(p) \/ delete_dir_atomic(p) \/ reveal(p)
    \/ libnvmf_registry_delete(p)
    \/ open_entry(p) \/ write_attr_atomic(p)
    \/ attr_equal(p) \/ open_fd(p) \/ unlink_owner(p)
    \/ disconnect_all_match(p) \/ disconnect_ctrl(p)

Starts(p) ==
    \/ Connect(p) \/ AlreadyConnected(p) \/ registry_update(p) \/ release_unit(p)
    \/ disconnect_all(p)

Next ==
    \/ DeviceLost \/ Rule
    \/ \E p \in Proc : Starts(p) \/ Steps(p) \/ Kill(p)

(* udev runs the rule for every removal in the end. *)
Spec == Init /\ [][Next]_vars /\ WF_vars(Rule)

--------------------------------------------------------------------------------
(* Properties. *)

(* The owner that was recorded for a device stays in its entry until it is *)
(* replaced or cleared for this device, whenever the removals of earlier   *)
(* devices of the name are handled (create_entry(),                        *)
(* libnvmf_registry_update(), 70-nvmf-registry.rules).                     *)
ClaimKept ==
    claim # None => Owner = claim \/ \E p \in Proc : At(p, "reveal") /\ proc[p].id = dev

(* The entry of a device that is gone does not stay: if its stamp is older *)
(* than a removal that udev has not handled, it goes, or the name is in    *)
(* use again (70-nvmf-registry.rules).                                     *)
StaleEntryGoes ==
    \A d \in Dir :
        (entry = d /\ dev = 0 /\ \E k \in 1..Len(events) : events[k] > Stamp)
            ~> (entry # d \/ dev # 0)

(* disconnect-all never disconnects a device that is claimed by another    *)
(* owner than the one it was given (disconnect_all_match()).               *)
OwnedSpared ==
    [][\A p \in Proc :
          disconnect_ctrl(p) /\ dev # 0 => claim \in {None, proc[p].want}]_vars
================================================================================
