------------------------------ MODULE AbUpgrade ------------------------------
(***************************************************************************)
(* abupgrade.sh: installs a new system into the slot that is not running   *)
(* and points the boot menu at it, on a machine that may lose its power    *)
(* between and during any two commands.                                    *)
(***************************************************************************)
EXTENDS Integers, Sequences, SequencesExt

CONSTANTS MaxRun, MaxCrash, MaxFail   \* bounds: runs, power cuts, failures

ASSUME BoundAssumption == {MaxRun, MaxCrash, MaxFail} \subseteq Nat

VARIABLES fstab,      \* whether /etc/fstab has lines for the slots
          fs,         \* what each slot holds: parts of systems
          root,       \* the running slot, or "down"
          mnt,        \* the slot mounted on /mnt/sysupgrade, or "none"
          elsewhere,  \* the slots mounted besides that and the root
          dir,        \* the slots in which /mnt/sysupgrade exists
          grub, bak,  \* grub.cfg and grub.cfg.bak: the slots of their entries
          pc, run,    \* the script, and the number of its run
          unseen,     \* history: the commands whose failure nobody saw
          astray,     \* history: grub.cfg.bak was used to boot a system the
                      \* script was not started in
          crashes, failures

disk == <<fstab, fs, dir, grub, bak>>
mounts == <<mnt, elsewhere>>
past == <<unseen, astray>>
vars == <<disk, root, mounts, pc, run, past, crashes, failures>>

Slot == {"a", "b"}
\* "some" is what an interrupted command leaves of a part.
Part == {"rootfs", "kernel", "config", "some"}
System(v) == {"rootfs", "kernel", "config"} \X {v}
Complete(s) == \E v \in 0 .. run : fs[s] = System(v)

\* TARGET_DEV.
Target == IF root = "a" THEN "b" ELSE "a"
Mounted == elsewhere \cup {mnt}

Goto(label) == pc' = label
Fail == failures < MaxFail /\ failures' = failures + 1
Put(s, part) == fs' = [fs EXCEPT ![s] = @ \cup {<<part, run>>}]

\* Where a file below /mnt/sysupgrade goes: into what is mounted there, else
\* into the directory, which is one of the running system.
Sysupgrade == IF mnt = "none" THEN root ELSE mnt

-----------------------------------------------------------------------------
\* Mutant: nobody looks whether /mnt/sysupgrade exists.
BeginAnyway == /\ pc = "off" /\ root \in Slot /\ run < MaxRun
               /\ run' = run + 1 /\ Goto("backup")
               /\ UNCHANGED <<disk, root, mounts, past, crashes, failures>>

\* The checks up to the question.  The test for a mounted target calls mount:
\* it succeeds, and the script stops, if fstab has the device and it is not
\* mounted yet; for a mounted device, and without a line in fstab, it fails and
\* the script goes on.
Begin == /\ pc = "off" /\ root \in Slot /\ run < MaxRun
         /\ root \notin dir
         /\ IF fstab /\ Target \notin elsewhere
            THEN elsewhere' = elsewhere \cup {Target} /\ UNCHANGED <<run, pc>>
            ELSE run' = run + 1 /\ Goto("backup") /\ UNCHANGED elsewhere
         /\ UNCHANGED <<disk, root, mnt, past, crashes, failures>>

\* sysupgrade -b, which changes no slot but for its archive.
Backup == /\ pc = "backup"
          /\ \/ Goto("mkfs") /\ UNCHANGED failures
             \/ Goto("off") /\ Fail
          /\ UNCHANGED <<disk, root, mounts, run, past, crashes>>

\* Mutant: the slot is not formatted.
MkfsLeftOut == /\ pc = "mkfs"
               /\ Goto("mkdir")
               /\ UNCHANGED <<disk, root, mounts, run, past, crashes, failures>>

\* mkfs.ext4, whose status is not looked at; it refuses a mounted device.
Mkfs == /\ pc = "mkfs"
        /\ \/ /\ Target \notin Mounted
              /\ fs' = [fs EXCEPT ![Target] = {}] /\ dir' = dir \ {Target}
              /\ UNCHANGED <<unseen, failures>>
           \/ /\ unseen' = unseen \cup {"mkfs"} /\ UNCHANGED <<fs, dir>>
              /\ IF Target \in Mounted THEN UNCHANGED failures ELSE Fail
        /\ Goto("mkdir")
        /\ UNCHANGED <<fstab, grub, bak, root, mounts, run, astray, crashes>>

\* mkdir, whose status is not looked at.
Mkdir == /\ pc = "mkdir"
         /\ \/ dir' = dir \cup {root} /\ UNCHANGED failures
            \/ Fail /\ UNCHANGED dir
         /\ Goto("mount")
         /\ UNCHANGED <<fstab, fs, grub, bak, root, mounts, run, past, crashes>>

\* Mutant: the status of mount is not looked at.
MountAnyway == /\ pc = "mount"
               /\ \/ mnt' = Target /\ UNCHANGED failures
                  \/ Fail /\ UNCHANGED mnt
               /\ Goto("extract")
               /\ UNCHANGED <<disk, root, elsewhere, run, past, crashes>>

\* mount, which fails without a directory to mount on.
Mount == /\ pc = "mount"
         /\ \/ /\ root \in dir
               /\ mnt' = Target /\ Goto("extract") /\ UNCHANGED failures
            \/ /\ Goto("off") /\ UNCHANGED mnt
               /\ IF root \in dir THEN Fail ELSE UNCHANGED failures
         /\ UNCHANGED <<disk, root, elsewhere, run, past, crashes>>

\* One of the commands that write below /mnt/sysupgrade, or the first part of
\* it before an error.
Write(part, here, next) ==
    /\ pc = here
    /\ \/ Put(Sysupgrade, part) /\ Goto(next) /\ UNCHANGED failures
       \/ Put(Sysupgrade, "some") /\ Goto("off") /\ Fail
    /\ UNCHANGED <<fstab, dir, grub, bak, root, mounts, run, past, crashes>>

Extract == Write("rootfs", "extract", "kernel")
Kernel == Write("kernel", "kernel", "restore")
Restore == Write("config", "restore", "cp")

\* cp grub.cfg grub.cfg.bak, whose status is not looked at.
Copy == /\ pc = "cp"
        /\ \/ bak' = grub /\ UNCHANGED <<unseen, failures>>
           \/ bak' = << >> /\ unseen' = unseen \cup {"cp"} /\ Fail
        /\ Goto("truncate")
        /\ UNCHANGED <<fstab, fs, dir, grub, root, mounts, run, astray, crashes>>

\* cat > grub.cfg empties the file first.
Truncate == /\ pc = "truncate"
            /\ grub' = << >>
            /\ Goto("cat")
            /\ UNCHANGED <<fstab, fs, dir, bak, root, mounts, run, past, crashes, failures>>

\* The new system first, the old one behind it; an entry whose blkid failed
\* boots nothing.
Cat == /\ pc = "cat"
       /\ \/ grub' = <<Target, root>> /\ UNCHANGED failures
          \/ grub' \in {<< >>, <<Target>>, <<root>>} /\ Fail
       /\ Goto("umount")
       /\ UNCHANGED <<fstab, fs, dir, bak, root, mounts, run, past, crashes>>

Umount == /\ pc = "umount"
          /\ \/ mnt' = "none" /\ UNCHANGED failures
             \/ Fail /\ UNCHANGED mnt
          /\ Goto("off")
          /\ UNCHANGED <<disk, root, elsewhere, run, past, crashes>>

-----------------------------------------------------------------------------
(* The machine and its operator (external).                                *)

\* Somebody looks into the other slot, while the script is not running.
MountByHand == /\ pc = "off" /\ root \in Slot
               /\ elsewhere' = {Target}
               /\ UNCHANGED <<disk, root, mnt, pc, run, past, crashes, failures>>

\* A slot that fstab names may be mounted when the machine starts from r.
AtBoot(r) == {{}} \cup (IF fstab THEN {Slot \ {r}} ELSE {})

\* What a command in the middle of which the power is cut leaves behind.
Interrupted == \/ UNCHANGED <<fs, bak>>
               \/ pc = "mkfs" /\ Target \notin Mounted /\ Put(Target, "some") /\ UNCHANGED bak
               \/ pc \in {"extract", "kernel", "restore"} /\ Put(Sysupgrade, "some") /\ UNCHANGED bak
               \/ pc = "cp" /\ bak' = << >> /\ UNCHANGED fs

\* A reboot, or a power cut at any time: the operator takes any entry of the
\* menu whose system is complete.
Crash == /\ root \in Slot /\ crashes < MaxCrash
         /\ crashes' = crashes + 1
         /\ mnt' = "none" /\ Goto("off")
         /\ Interrupted
         /\ UNCHANGED <<fstab, dir, grub, run, past, failures>>
         /\ LET whole == {s \in Range(grub) : Complete(s)'}
            IN  \/ /\ root' \in whole /\ elsewhere' \in AtBoot(root')
                \/ /\ whole = {}
                   /\ root' = "down" /\ elsewhere' = {}

\* The operator loads grub.cfg.bak by hand and takes any entry of it whose
\* system is complete.
Rescue == /\ root = "down"
          /\ \E s \in Range(bak) :
                /\ Complete(s)
                /\ root' = s /\ elsewhere' \in AtBoot(s)
                /\ astray' = (astray \/ s \notin dir)
          /\ UNCHANGED <<disk, mnt, pc, run, unseen, crashes, failures>>

-----------------------------------------------------------------------------
\* One system, or two of which either may be running.
Init == /\ \/ fs = [s \in Slot |-> IF s = "a" THEN System(0) ELSE {}] /\ grub = <<"a">> /\ root = "a"
           \/ fs = [s \in Slot |-> System(0)] /\ grub = <<"a", "b">> /\ root \in Slot
        /\ fstab \in BOOLEAN /\ bak = << >> /\ dir = {}
        /\ mnt = "none" /\ elsewhere \in AtBoot(root)
        /\ pc = "off" /\ run = 0 /\ unseen = {} /\ astray = FALSE
        /\ crashes = 0 /\ failures = 0

Next == \/ Begin \/ Backup \/ Mkfs \/ Mkdir \/ Mount \/ Extract \/ Kernel \/ Restore
        \/ Copy \/ Truncate \/ Cat \/ Umount
        \/ MountByHand \/ Crash \/ Rescue

Spec == Init /\ [][Next]_vars

-----------------------------------------------------------------------------
\* The variables keep their types.
TypeOK == /\ fstab \in BOOLEAN /\ fs \in [Slot -> SUBSET (Part \X (0 .. MaxRun))]
          /\ root \in Slot \cup {"down"} /\ dir \subseteq Slot
          /\ mnt \in Slot \cup {"none"} /\ elsewhere \subseteq Slot
          /\ grub \in Seq(Slot) /\ bak \in Seq(Slot)
          /\ run \in 0 .. MaxRun /\ unseen \subseteq {"mkfs", "cp"} /\ astray \in BOOLEAN
          /\ crashes \in 0 .. MaxCrash /\ failures \in 0 .. MaxFail

\* Nothing of a new system is ever unpacked over the running one: wherever the
\* script writes to /mnt/sysupgrade, the other slot is mounted there, whatever
\* failed before and whatever else is mounted.
RunningUntouched == [][(root \in Slot) => fs'[root] = fs[root]]_vars

\* Whenever the power is cut, and whatever fails but the copy of the menu, a
\* system can still be booted from the menu or from its copy: what is left in
\* /mnt of a run that did not get to its end stops the next one.  The premise is
\* that an operator who had to boot from the copy went back to the system that
\* the script had been started in, and not into the other slot, where nothing
\* stops the next run from overwriting the copy.
SomethingBoots == "cp" \notin unseen /\ ~astray
                      => \E s \in Range(grub) \cup Range(bak) : Complete(s)

\* A run that gets to the boot menu has put one whole system, and nothing of
\* another, into the slot it makes the default, unless a mkfs failed.
DefaultIsWhole == pc \in {"cp", "truncate", "cat", "umount"} /\ "mkfs" \notin unseen
                      => fs[Target] = System(run)

\* The script does not go on to format a target that is mounted: the comment of
\* its test says "Exit if target device is mounted".
TargetNotMounted == pc = "mkfs" => Target \notin Mounted
=============================================================================
