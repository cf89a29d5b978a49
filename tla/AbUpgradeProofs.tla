--------------------------- MODULE AbUpgradeProofs ---------------------------
(***************************************************************************)
(* For any number of runs, power cuts, failures and mounts by hand: the     *)
(* new system is never unpacked over the running one, a system can be      *)
(* booted, and the default entry of a new menu is a whole system.          *)
(***************************************************************************)
EXTENDS AbUpgrade, TLAPS

\* Where the script is, and what it has done to /mnt/sysupgrade by then.
Labels == {"off", "backup", "mkfs", "mkdir", "mount", "extract", "kernel", "restore",
           "cp", "truncate", "cat", "umount"}
BeforeMount == {"backup", "mkfs", "mkdir", "mount"}
Control == /\ pc \in Labels
           /\ pc # "off" => root \in Slot
           /\ pc \notin {"off"} \cup BeforeMount => root \in dir /\ mnt = Target

\* The system that is running is whole.
RootIsWhole == root \in Slot => Complete(root)

\* The boot menu has the running system until cat empties it, and the copy has
\* it from then on.  A system from which /mnt/sysupgrade is gone was booted
\* from the menu, or somebody went astray.
RootIsListed ==
    ~astray =>
       /\ root \in Slot /\ root \notin dir => root \in Range(grub)
       /\ pc \notin {"off", "cat", "umount"} => root \in Range(grub)
       /\ "cp" \notin unseen =>
             /\ pc \in {"truncate", "cat", "umount"} => root \in Range(bak)
             /\ root \in Slot => root \in Range(grub) \cup Range(bak)

\* What is in the slot the script fills, command by command.
Filled ==
    "mkfs" \notin unseen =>
       /\ pc \in {"mkdir", "mount", "extract"} => fs[Target] = {}
       /\ pc = "kernel" => fs[Target] = {<<"rootfs", run>>}
       /\ pc = "restore" => fs[Target] = {<<"rootfs", run>>, <<"kernel", run>>}
       /\ pc \in {"cp", "truncate", "cat", "umount"} => fs[Target] = System(run)

\* When nothing runs, something can be started.
DownBoots == root = "down" => SomethingBoots

IInv == TypeOK /\ Control /\ RootIsWhole /\ RootIsListed /\ Filled /\ DownBoots

-----------------------------------------------------------------------------
LEMMA Ranges == /\ Range(<< >>) = {}
                /\ \A s : Range(<<s>>) = {s}
                /\ \A s, t : Range(<<s, t>>) = {s, t}
<1>1. Range(<< >>) = {}
  BY DEF Range
<1>2. ASSUME NEW s PROVE Range(<<s>>) = {s}
  <2>1. DOMAIN <<s>> = {1} /\ <<s>>[1] = s
    OBVIOUS
  <2> QED BY <2>1 DEF Range
<1>3. ASSUME NEW s, NEW t PROVE Range(<<s, t>>) = {s, t}
  <2>1. DOMAIN <<s, t>> = {1, 2} /\ <<s, t>>[1] = s /\ <<s, t>>[2] = t
    OBVIOUS
  <2> QED BY <2>1 DEF Range
<1> QED BY <1>1, <1>2, <1>3

LEMMA Menus == /\ << >> \in Seq(Slot)
               /\ \A s, t \in Slot : <<s>> \in Seq(Slot) /\ <<s, t>> \in Seq(Slot)
  OBVIOUS

\* The script writes to the other slot.
LEMMA OtherSlot == /\ Target \in Slot
                   /\ root \in Slot => Target # root
  BY DEF Target, Slot

LEMMA PutFacts ==
    ASSUME TypeOK, NEW s \in Slot, NEW part \in Part, Put(s, part)
    PROVE  /\ fs' \in [Slot -> SUBSET (Part \X (0 .. MaxRun))]
           /\ fs'[s] = fs[s] \cup {<<part, run>>}
           /\ \A t \in Slot : t # s => fs'[t] = fs[t]
<1>1. <<part, run>> \in Part \X (0 .. MaxRun)
  BY DEF TypeOK
<1> QED BY <1>1 DEF TypeOK, Put

\* What is written to /mnt/sysupgrade goes to the other slot.
LEMMA MountedThere ==
    ASSUME IInv, pc \notin {"off"} \cup BeforeMount
    PROVE  Sysupgrade = Target /\ root \in Slot /\ root \in dir
<1>1. mnt = Target /\ mnt # "none" /\ root \in Slot /\ root \in dir
  BY OtherSlot DEF IInv, Control, Slot
<1> QED BY <1>1 DEF Sysupgrade

\* A whole system stays whole while its slot is left alone.
LEMMA StaysWhole ==
    ASSUME NEW s \in Slot, Complete(s), fs'[s] = fs[s], run \in Nat, run' \in Nat, run <= run'
    PROVE  Complete(s)'
<1>1. PICK v \in 0 .. run : fs[s] = System(v)
  BY DEF Complete
<1>2. v \in 0 .. run' /\ fs'[s] = System(v)
  BY <1>1
<1> QED BY <1>2 DEF Complete, System

\* The running system, or else the invariant, is what can be booted.
LEMMA IInvBoots == IInv => SomethingBoots
  BY DEF IInv, TypeOK, RootIsWhole, RootIsListed, DownBoots, SomethingBoots

LEMMA IInvInit == Init => IInv
<1> SUFFICES ASSUME Init PROVE IInv
  OBVIOUS
<1>1. {MaxRun, MaxCrash, MaxFail} \subseteq Nat
  BY BoundAssumption
<1>2. System(0) \in SUBSET (Part \X (0 .. MaxRun))
  BY <1>1 DEF System, Part
<1>3. fs \in [Slot -> SUBSET (Part \X (0 .. MaxRun))]
  BY <1>2 DEF Init
<1>4. root \in Slot /\ fs[root] = System(0) /\ root \in Range(grub) /\ grub \in Seq(Slot)
  <2>1. CASE /\ fs = [s \in Slot |-> IF s = "a" THEN System(0) ELSE {}]
             /\ grub = <<"a">> /\ root = "a"
    <3>1. Range(grub) = {"a"} /\ grub \in Seq(Slot) /\ "a" \in Slot
      BY <2>1, Ranges DEF Slot
    <3> QED BY <2>1, <3>1
  <2>2. CASE /\ fs = [s \in Slot |-> System(0)]
             /\ grub = <<"a", "b">> /\ root \in Slot
    <3>1. Range(grub) = {"a", "b"} /\ grub \in Seq(Slot)
      BY <2>2, Ranges DEF Slot
    <3> QED BY <2>2, <3>1 DEF Slot
  <2> QED BY <2>1, <2>2 DEF Init
<1>5. TypeOK
  <2>1. elsewhere \subseteq Slot
    BY DEF Init, AtBoot
  <2>2. astray \in BOOLEAN /\ fstab \in BOOLEAN
    BY Zenon DEF Init
  <2>3. mnt = "none" /\ dir = {} /\ bak = << >> /\ run = 0 /\ unseen = {} /\ crashes = 0 /\ failures = 0
    BY DEF Init
  <2> QED BY <1>1, <1>3, <1>4, <2>1, <2>2, <2>3 DEF TypeOK
<1>6. Complete(root)
  BY <1>4 DEF Init, Complete
<1>7. root # "down"
  BY <1>4 DEF Slot
<1> QED BY <1>4, <1>5, <1>6, <1>7 DEF Init, IInv, Control, Labels, BeforeMount, RootIsWhole, RootIsListed,
                                     Filled, DownBoots

-----------------------------------------------------------------------------
(* The steps.                                                              *)

\* What most commands leave alone keeps most of the invariant.
LEMMA SameRoot ==
    ASSUME IInv, root' = root, root \in Slot, fs'[root] = fs[root], run' = run
    PROVE  RootIsWhole' /\ DownBoots' /\ Target' = Target
<1>1. Complete(root)'
  BY StaysWhole DEF IInv, TypeOK, RootIsWhole, Complete
<1> QED BY <1>1 DEF RootIsWhole, DownBoots, Slot, Target, Complete

LEMMA BeginKeeps == ASSUME IInv, Begin PROVE IInv'
<1> USE DEF disk, mounts, past
<1>0. /\ pc = "off" /\ root \in Slot /\ root \notin dir /\ root # "down"
      /\ UNCHANGED <<fstab, fs, dir, grub, bak, root, mnt, unseen, astray, crashes, failures>>
  BY DEF Begin, Slot
<1>1. (~astray => root \in Range(grub)) /\ Complete(root)
  BY <1>0 DEF IInv, RootIsListed, RootIsWhole
<1>2. CASE fstab /\ Target \notin elsewhere
  <2>1. elsewhere' = elsewhere \cup {Target} /\ UNCHANGED <<run, pc>>
    BY <1>2 DEF Begin
  <2>2. TypeOK'
    BY <1>0, <2>1, OtherSlot DEF IInv, TypeOK
  <2>3. Control' /\ RootIsListed' /\ Filled'
    BY <1>0, <1>1, <2>1 DEF IInv, Control, RootIsListed, BeforeMount, Filled, Target
  <2>4. RootIsWhole' /\ DownBoots'
    BY <1>0, <2>1, SameRoot
  <2> QED BY <2>2, <2>3, <2>4 DEF IInv
<1>3. CASE ~(fstab /\ Target \notin elsewhere)
  <2>1. run < MaxRun /\ run' = run + 1 /\ pc' = "backup" /\ elsewhere' = elsewhere
    BY <1>3 DEF Begin, Goto
  <2>2. run' \in 0 .. MaxRun /\ run <= run' /\ run \in Nat /\ run' \in Nat
    BY <2>1, BoundAssumption DEF IInv, TypeOK
  <2>3. TypeOK'
    BY <1>0, <2>1, <2>2 DEF IInv, TypeOK
  <2>4. Control' /\ RootIsListed' /\ Filled'
    BY <1>0, <1>1, <2>1 DEF IInv, Control, Labels, RootIsListed, BeforeMount, Target, Filled
  <2>5. Complete(root)'
    BY <1>0, <1>1, <2>2, StaysWhole DEF Complete
  <2>6. RootIsWhole' /\ DownBoots'
    BY <1>0, <2>5 DEF RootIsWhole, DownBoots, Complete
  <2> QED BY <2>3, <2>4, <2>6 DEF IInv
<1> QED BY <1>2, <1>3

\* A mount by hand changes nothing the script relies on.
LEMMA MountByHandKeeps == ASSUME IInv, MountByHand PROVE IInv'
<1> USE DEF disk, mounts, past
<1>0. /\ pc = "off" /\ root \in Slot /\ elsewhere' = {Target}
      /\ UNCHANGED <<fstab, fs, dir, grub, bak, root, mnt, pc, run, unseen, astray, crashes, failures>>
  BY DEF MountByHand
<1>1. TypeOK'
  BY <1>0, OtherSlot DEF IInv, TypeOK
<1>2. Control' /\ RootIsListed' /\ Filled'
  BY <1>0 DEF IInv, Control, RootIsListed, BeforeMount, Filled
<1> QED BY <1>0, <1>1, <1>2, SameRoot DEF IInv

LEMMA FailCounts == ASSUME TypeOK, Fail PROVE failures' \in 0 .. MaxFail
  BY BoundAssumption DEF Fail, TypeOK

LEMMA BackupKeeps == ASSUME IInv, Backup PROVE IInv'
<1> USE DEF disk, mounts, past
<1>0. /\ pc = "backup" /\ pc' \in {"mkfs", "off"} /\ root \in Slot
      /\ UNCHANGED <<fstab, fs, dir, grub, bak, root, mnt, elsewhere, run, unseen, astray, crashes>>
  BY DEF Backup, Goto, IInv, Control
<1>1. TypeOK'
  BY <1>0, FailCounts DEF Backup, IInv, TypeOK
<1>2. Control' /\ RootIsListed' /\ Filled'
  BY <1>0 DEF IInv, Control, Labels, RootIsListed, BeforeMount, Target, Filled
<1> QED BY <1>0, <1>1, <1>2, SameRoot DEF IInv

LEMMA MkfsKeeps == ASSUME IInv, Mkfs PROVE IInv'
<1> USE DEF mounts, past
<1>0. /\ pc = "mkfs" /\ pc' = "mkdir" /\ root \in Slot /\ Target # root /\ Target \in Slot
      /\ UNCHANGED <<fstab, grub, bak, root, mnt, elsewhere, run, astray, crashes>>
  BY OtherSlot DEF Mkfs, Goto, IInv, Control
<1>1. /\ fs' \in [Slot -> SUBSET (Part \X (0 .. MaxRun))] /\ fs'[root] = fs[root]
      /\ dir' \subseteq Slot /\ (root \in dir' <=> root \in dir)
      /\ "cp" \in unseen' <=> "cp" \in unseen
      /\ "mkfs" \notin unseen' => fs'[Target] = {}
      /\ unseen' \subseteq {"mkfs", "cp"} /\ failures' \in 0 .. MaxFail
  <2>1. CASE /\ fs' = [fs EXCEPT ![Target] = {}] /\ dir' = dir \ {Target}
             /\ UNCHANGED <<unseen, failures>>
    BY <1>0, <2>1 DEF IInv, TypeOK
  <2>2. CASE /\ unseen' = unseen \cup {"mkfs"} /\ UNCHANGED <<fs, dir>>
             /\ IF Target \in Mounted THEN UNCHANGED failures ELSE Fail
    BY <1>0, <2>2, FailCounts DEF IInv, TypeOK
  <2> QED BY <2>1, <2>2 DEF Mkfs
<1>2. TypeOK'
  BY <1>0, <1>1 DEF IInv, TypeOK
<1>3. Control' /\ RootIsListed'
  BY <1>0, <1>1 DEF IInv, Control, Labels, RootIsListed, BeforeMount, Target
<1>4. RootIsWhole' /\ DownBoots' /\ Target' = Target
  BY <1>0, <1>1, SameRoot
<1>5. Filled'
  BY <1>0, <1>1, <1>4 DEF Filled
<1> QED BY <1>2, <1>3, <1>4, <1>5 DEF IInv

LEMMA MkdirKeeps == ASSUME IInv, Mkdir PROVE IInv'
<1> USE DEF mounts, past
<1>0. /\ pc = "mkdir" /\ root \in Slot
      /\ UNCHANGED <<fstab, fs, grub, bak, root, mnt, elsewhere, run, unseen, astray, crashes>>
      /\ pc' = "mount"
      /\ \/ dir' = dir \cup {root} /\ UNCHANGED failures
         \/ Fail /\ UNCHANGED dir
  BY DEF Mkdir, Goto, IInv, Control
<1>1. TypeOK'
  BY <1>0, FailCounts DEF IInv, TypeOK
<1>2. Control' /\ RootIsListed'
  BY <1>0 DEF IInv, Control, Labels, RootIsListed, BeforeMount, Target
<1>3. RootIsWhole' /\ DownBoots' /\ Target' = Target
  BY <1>0, SameRoot
<1>4. Filled'
  BY <1>0, <1>3 DEF IInv, Filled
<1> QED BY <1>1, <1>2, <1>3, <1>4 DEF IInv

LEMMA MountKeeps == ASSUME IInv, Mount PROVE IInv'
<1> USE DEF disk, mounts, past
<1>0. /\ pc = "mount" /\ root \in Slot /\ root # "down"
      /\ UNCHANGED <<fstab, fs, dir, grub, bak, root, elsewhere, run, unseen, astray, crashes>>
      /\ \/ root \in dir /\ mnt' = Target /\ pc' = "extract" /\ UNCHANGED failures
         \/ pc' = "off" /\ UNCHANGED mnt /\ (Fail \/ UNCHANGED failures)
  BY DEF Mount, Goto, IInv, Control, BeforeMount, Slot
<1>1. TypeOK'
  BY <1>0, FailCounts, OtherSlot DEF IInv, TypeOK
<1>2. Control' /\ RootIsListed'
  BY <1>0 DEF IInv, Control, Labels, RootIsListed, BeforeMount, Target
<1>3. RootIsWhole' /\ DownBoots' /\ Target' = Target
  BY <1>0, SameRoot
<1>4. Filled'
  BY <1>0, <1>3 DEF IInv, Filled
<1> QED BY <1>1, <1>2, <1>3, <1>4 DEF IInv

\* One of the commands that fill the slot: the part is there, or the script
\* stops.
LEMMA WriteFacts ==
    ASSUME IInv, NEW part \in Part, NEW here, NEW next, Write(part, here, next), here # "off",
           here \notin BeforeMount, next \in Labels
    PROVE  /\ TypeOK' /\ RootIsWhole' /\ DownBoots' /\ Target' = Target
           /\ pc = here /\ pc' \in {next, "off"} /\ root \in Slot /\ root \in dir
           /\ UNCHANGED <<fstab, dir, grub, bak, root, mnt, elsewhere, run, unseen, astray>>
           /\ pc' = next /\ next # "off" => fs'[Target] = fs[Target] \cup {<<part, run>>}
<1>0. /\ pc = here /\ root \in Slot /\ root \in dir
      /\ UNCHANGED <<fstab, dir, grub, bak, root, mnt, elsewhere, run, unseen, astray, crashes>>
  BY MountedThere DEF Write, mounts, past
<1>1. Target \in Slot /\ Target # root /\ "some" \in Part /\ Sysupgrade = Target
  BY <1>0, OtherSlot, MountedThere DEF Part
<1>2. CASE Put(Target, part) /\ pc' = next /\ UNCHANGED failures
  <2>1. /\ fs' \in [Slot -> SUBSET (Part \X (0 .. MaxRun))] /\ fs'[root] = fs[root]
        /\ fs'[Target] = fs[Target] \cup {<<part, run>>}
    BY <1>0, <1>1, <1>2, PutFacts DEF IInv
  <2>2. TypeOK'
    BY <1>0, <1>2, <2>1 DEF IInv, TypeOK
  <2> QED BY <1>0, <1>2, <2>1, <2>2, SameRoot
<1>3. CASE Put(Target, "some") /\ pc' = "off" /\ Fail
  <2>1. /\ fs' \in [Slot -> SUBSET (Part \X (0 .. MaxRun))] /\ fs'[root] = fs[root]
    BY <1>0, <1>1, <1>3, PutFacts DEF IInv
  <2>2. TypeOK'
    BY <1>0, <1>3, <2>1, FailCounts DEF IInv, TypeOK
  <2> QED BY <1>0, <1>3, <2>1, <2>2, SameRoot
<1> QED BY <1>1, <1>2, <1>3 DEF Write, Goto

LEMMA ExtractKeeps == ASSUME IInv, Extract PROVE IInv'
<1>1. /\ TypeOK' /\ RootIsWhole' /\ DownBoots' /\ Target' = Target
      /\ pc = "extract" /\ pc' \in {"kernel", "off"} /\ root \in Slot /\ root \in dir
      /\ UNCHANGED <<fstab, dir, grub, bak, root, mnt, elsewhere, run, unseen, astray>>
      /\ pc' = "kernel" => fs'[Target] = fs[Target] \cup {<<"rootfs", run>>}
  BY WriteFacts DEF Extract, Part, Labels, BeforeMount
<1>2. Control' /\ RootIsListed'
  BY <1>1 DEF IInv, Control, Labels, RootIsListed, BeforeMount, Target
<1>3. Filled'
  BY <1>1 DEF IInv, Filled
<1> QED BY <1>1, <1>2, <1>3 DEF IInv

LEMMA KernelKeeps == ASSUME IInv, Kernel PROVE IInv'
<1>1. /\ TypeOK' /\ RootIsWhole' /\ DownBoots' /\ Target' = Target
      /\ pc = "kernel" /\ pc' \in {"restore", "off"} /\ root \in Slot /\ root \in dir
      /\ UNCHANGED <<fstab, dir, grub, bak, root, mnt, elsewhere, run, unseen, astray>>
      /\ pc' = "restore" => fs'[Target] = fs[Target] \cup {<<"kernel", run>>}
  BY WriteFacts DEF Kernel, Part, Labels, BeforeMount
<1>2. Control' /\ RootIsListed'
  BY <1>1 DEF IInv, Control, Labels, RootIsListed, BeforeMount, Target
<1>3. Filled'
  BY <1>1 DEF IInv, Filled
<1> QED BY <1>1, <1>2, <1>3 DEF IInv

LEMMA WholeSystem ==
    \A v : {<<"rootfs", v>>, <<"kernel", v>>} \cup {<<"config", v>>} = System(v)
  BY DEF System

LEMMA RestoreKeeps == ASSUME IInv, Restore PROVE IInv'
<1>1. /\ TypeOK' /\ RootIsWhole' /\ DownBoots' /\ Target' = Target
      /\ pc = "restore" /\ pc' \in {"cp", "off"} /\ root \in Slot /\ root \in dir
      /\ UNCHANGED <<fstab, dir, grub, bak, root, mnt, elsewhere, run, unseen, astray>>
      /\ pc' = "cp" => fs'[Target] = fs[Target] \cup {<<"config", run>>}
  BY WriteFacts DEF Restore, Part, Labels, BeforeMount
<1>2. Control' /\ RootIsListed'
  BY <1>1 DEF IInv, Control, Labels, RootIsListed, BeforeMount, Target
<1>3. Filled'
  BY <1>1, WholeSystem DEF IInv, Filled
<1> QED BY <1>1, <1>2, <1>3 DEF IInv

LEMMA CopyKeeps == ASSUME IInv, Copy PROVE IInv'
<1> USE DEF mounts, past
<1>0. /\ pc = "cp" /\ pc' = "truncate" /\ root \in Slot /\ root \in dir
      /\ ~astray => root \in Range(grub)
      /\ UNCHANGED <<fstab, fs, dir, grub, root, mnt, elsewhere, run, astray, crashes>>
      /\ \/ bak' = grub /\ UNCHANGED <<unseen, failures>>
         \/ bak' = << >> /\ unseen' = unseen \cup {"cp"} /\ Fail
  BY DEF Copy, Goto, IInv, Control, BeforeMount, RootIsListed
<1>1. TypeOK'
  <2>1. grub \in Seq(Slot) /\ unseen \subseteq {"mkfs", "cp"} /\ failures \in 0 .. MaxFail
    BY DEF IInv, TypeOK
  <2>2. bak' \in Seq(Slot) /\ unseen' \subseteq {"mkfs", "cp"} /\ failures' \in 0 .. MaxFail
    BY <1>0, <2>1, Menus, FailCounts DEF IInv
  <2> QED BY <1>0, <2>2 DEF IInv, TypeOK
<1>2. Control' /\ RootIsListed'
  BY <1>0 DEF IInv, Control, Labels, RootIsListed, BeforeMount, Target
<1>3. RootIsWhole' /\ DownBoots' /\ Target' = Target
  BY <1>0, SameRoot
<1>4. Filled'
  BY <1>0, <1>3 DEF IInv, Filled
<1> QED BY <1>1, <1>2, <1>3, <1>4 DEF IInv

LEMMA TruncateKeeps == ASSUME IInv, Truncate PROVE IInv'
<1> USE DEF mounts, past
<1>0. /\ pc = "truncate" /\ pc' = "cat" /\ root \in Slot /\ root \in dir /\ grub' = << >>
      /\ UNCHANGED <<fstab, fs, dir, bak, root, mnt, elsewhere, run, unseen, astray, crashes, failures>>
  BY DEF Truncate, Goto, IInv, Control, BeforeMount
<1>1. TypeOK'
  BY <1>0 DEF IInv, TypeOK
<1>2. Control' /\ RootIsListed'
  BY <1>0 DEF IInv, Control, Labels, RootIsListed, BeforeMount, Target
<1>3. RootIsWhole' /\ DownBoots' /\ Target' = Target
  BY <1>0, SameRoot
<1>4. Filled'
  BY <1>0, <1>3 DEF IInv, Filled
<1> QED BY <1>1, <1>2, <1>3, <1>4 DEF IInv

LEMMA CatKeeps == ASSUME IInv, Cat PROVE IInv'
<1> USE DEF mounts, past
<1>0. /\ pc = "cat" /\ pc' = "umount" /\ root \in Slot /\ root \in dir
      /\ UNCHANGED <<fstab, fs, dir, bak, root, mnt, elsewhere, run, unseen, astray, crashes>>
      /\ \/ grub' = <<Target, root>> /\ UNCHANGED failures
         \/ grub' \in {<< >>, <<Target>>, <<root>>} /\ Fail
  BY DEF Cat, Goto, IInv, Control, BeforeMount
<1>1. TypeOK'
  <2>1. failures \in 0 .. MaxFail
    BY DEF IInv, TypeOK
  <2>2. grub' \in Seq(Slot) /\ failures' \in 0 .. MaxFail
    BY <1>0, <2>1, Menus, OtherSlot, FailCounts DEF IInv
  <2> QED BY <1>0, <2>2 DEF IInv, TypeOK
<1>2. Control' /\ RootIsListed'
  BY <1>0 DEF IInv, Control, Labels, RootIsListed, BeforeMount, Target
<1>3. RootIsWhole' /\ DownBoots' /\ Target' = Target
  BY <1>0, SameRoot
<1>4. Filled'
  BY <1>0, <1>3 DEF IInv, Filled
<1> QED BY <1>1, <1>2, <1>3, <1>4 DEF IInv

LEMMA UmountKeeps == ASSUME IInv, Umount PROVE IInv'
<1> USE DEF disk, mounts, past
<1>0. /\ pc = "umount" /\ pc' = "off" /\ root \in Slot /\ root \in dir /\ root # "down"
      /\ UNCHANGED <<fstab, fs, dir, grub, bak, root, elsewhere, run, unseen, astray, crashes>>
      /\ \/ mnt' = "none" /\ UNCHANGED failures
         \/ Fail /\ UNCHANGED mnt
  BY DEF Umount, Goto, IInv, Control, BeforeMount, Slot
<1>1. TypeOK'
  BY <1>0, FailCounts DEF IInv, TypeOK
<1>2. Control' /\ RootIsListed' /\ Filled'
  BY <1>0 DEF IInv, Control, Labels, RootIsListed, BeforeMount, Target, Filled
<1> QED BY <1>0, <1>1, <1>2, SameRoot DEF IInv

\* The power is cut: the old system is still in the menu, or it is in the copy
\* and the copy is not being written.
LEMMA CrashKeeps == ASSUME IInv, Crash PROVE IInv'
<1> DEFINE whole == {s \in Range(grub) : \E v \in 0 .. run' : fs'[s] = System(v)}
<1>0. /\ root \in Slot /\ crashes < MaxCrash /\ crashes' = crashes + 1 /\ mnt' = "none"
      /\ pc' = "off" /\ UNCHANGED <<fstab, dir, grub, run, unseen, astray, failures>>
      /\ root' \in IF whole = {} THEN {"down"} ELSE whole
      /\ elsewhere' \subseteq Slot
  BY DEF Crash, Goto, Complete, System, AtBoot, past
<1>1. /\ fs' \in [Slot -> SUBSET (Part \X (0 .. MaxRun))] /\ fs'[root] = fs[root]
      /\ bak' = bak \/ (bak' = << >> /\ pc = "cp")
  <2>1. Interrupted
    BY DEF Crash
  <2>2. CASE UNCHANGED <<fs, bak>> \/ (pc = "cp" /\ bak' = << >> /\ UNCHANGED fs)
    BY <2>2 DEF IInv, TypeOK
  <2>3. CASE Put(Target, "some") /\ UNCHANGED bak
    BY <1>0, <2>3, PutFacts, OtherSlot DEF IInv, Part
  <2>4. pc \in {"extract", "kernel", "restore"} => Sysupgrade = Target
    BY MountedThere DEF BeforeMount
  <2> QED BY <2>1, <2>2, <2>3, <2>4 DEF Interrupted
<1>2. \E v \in 0 .. run' : fs'[root] = System(v)
  BY <1>0, <1>1 DEF IInv, RootIsWhole, Complete
<1>3. root \in Range(grub) => root \in whole
  BY <1>2
<1>4. root' \in whole \/ (root' = "down" /\ root \notin Range(grub))
  BY <1>0, <1>3
<1>5. ASSUME NEW s \in Range(grub) PROVE s \in Slot
  <2>1. grub \in Seq(Slot)
    BY DEF IInv, TypeOK
  <2> QED BY <2>1 DEF Range
<1>6. TypeOK'
  <2>1. bak' \in Seq(Slot) /\ crashes' \in 0 .. MaxCrash
    <3>1. bak' \in Seq(Slot)
      BY <1>1, Menus DEF IInv, TypeOK
    <3>2. crashes' \in 0 .. MaxCrash
      BY <1>0, BoundAssumption DEF IInv, TypeOK
    <3> QED BY <3>1, <3>2
  <2>2. root' \in Slot \cup {"down"}
    BY <1>4, <1>5
  <2> QED BY <1>0, <1>1, <2>1, <2>2 DEF IInv, TypeOK
<1>7. Control' /\ Filled'
  BY <1>0 DEF Control, Labels, Filled
<1>8. RootIsListed'
  BY <1>0, <1>4 DEF RootIsListed, Slot
<1>9. RootIsWhole'
  BY <1>4 DEF RootIsWhole, Complete, Slot, System
<1>10. DownBoots'
  <2> SUFFICES ASSUME root' = "down", "cp" \notin unseen', ~astray'
               PROVE  \E s \in Range(grub') \cup Range(bak') : \E v \in 0 .. run' : fs'[s] = System(v)
    BY DEF DownBoots, SomethingBoots, Complete, System
  <2>1. root \notin Range(grub)
    BY <1>4, <1>5 DEF Slot
  <2>2. root \in Range(bak) /\ pc # "cp"
    BY <1>0, <2>1 DEF IInv, RootIsListed
  <2> QED BY <1>1, <1>2, <2>2
<1> QED BY <1>6, <1>7, <1>8, <1>9, <1>10 DEF IInv

\* The copy starts a system in which the directory stops the script, or the
\* operator went astray.
LEMMA RescueKeeps == ASSUME IInv, Rescue PROVE IInv'
<1> USE DEF disk
<1>0. /\ root = "down" /\ UNCHANGED <<fstab, fs, dir, grub, bak, mnt, pc, run, unseen, crashes, failures>>
      /\ root' \in Range(bak) /\ \E v \in 0 .. run : fs[root'] = System(v)
      /\ elsewhere' \subseteq Slot /\ astray' = (astray \/ root' \notin dir)
  BY DEF Rescue, Complete, AtBoot
<1>1. pc = "off" /\ root' \in Slot /\ root' # "down"
  <2>1. bak \in Seq(Slot) /\ pc = "off"
    BY <1>0 DEF IInv, TypeOK, Control, Slot
  <2> QED BY <1>0, <2>1 DEF Range, Slot
<1>2. astray \in BOOLEAN /\ astray' \in BOOLEAN
  BY <1>0, Zenon DEF IInv, TypeOK
<1>3. TypeOK'
  BY <1>0, <1>1, <1>2 DEF IInv, TypeOK
<1>4. Control' /\ Filled' /\ DownBoots'
  BY <1>0, <1>1 DEF Control, Labels, Filled, DownBoots
<1>5. ~astray' => root' \in dir
  BY <1>0
<1>6. RootIsListed'
  BY <1>0, <1>1, <1>5 DEF RootIsListed
<1>7. RootIsWhole'
  BY <1>0 DEF RootIsWhole, Complete, System
<1> QED BY <1>3, <1>4, <1>6, <1>7 DEF IInv

LEMMA IInvStep == IInv /\ [Next]_vars => IInv'
<1> SUFFICES ASSUME IInv, [Next]_vars PROVE IInv'
  OBVIOUS
<1>1. CASE Next
  BY <1>1, BeginKeeps, BackupKeeps, MkfsKeeps, MkdirKeeps, MountKeeps, ExtractKeeps, KernelKeeps,
     RestoreKeeps, CopyKeeps, TruncateKeeps, CatKeeps, UmountKeeps, MountByHandKeeps, CrashKeeps, RescueKeeps DEF Next
<1>2. CASE UNCHANGED vars
  BY <1>2 DEF vars, disk, mounts, past, IInv, TypeOK, Control, RootIsWhole, RootIsListed, Filled,
              DownBoots, SomethingBoots, Complete, Target
<1> QED BY <1>1, <1>2

-----------------------------------------------------------------------------
\* The disks, the boot menu and the script keep their types.
THEOREM TypeCorrect == Spec => []TypeOK
  BY IInvInit, IInvStep, PTL DEF Spec, IInv

\* However often the power is cut and whatever abupgrade.sh overlooks, a system
\* is left that the menu or its copy starts, unless the copy itself failed or
\* was once used to boot a system that the script had not been started in.
THEOREM SomethingBootsAlways == Spec => []SomethingBoots
  BY IInvInit, IInvStep, IInvBoots, PTL DEF Spec

\* The default entry abupgrade.sh writes is one whole system, unless mkfs failed.
THEOREM DefaultIsWholeAlways == Spec => []DefaultIsWhole
<1>1. IInv => DefaultIsWhole
  BY DEF IInv, Filled, DefaultIsWhole
<1> QED BY IInvInit, IInvStep, <1>1, PTL DEF Spec

\* Whatever fails, and whatever else is mounted, abupgrade.sh unpacks nothing
\* over the running system: it writes to /mnt/sysupgrade only while the other
\* slot is mounted there.
THEOREM RunningUntouchedAlways == Spec => RunningUntouched
<1>1. IInv /\ [Next]_vars => [(root \in Slot) => fs'[root] = fs[root]]_vars
  <2> SUFFICES ASSUME IInv, Next, root \in Slot PROVE fs'[root] = fs[root]
    OBVIOUS
  <2>1. CASE UNCHANGED fs
    BY <2>1
  <2>2. CASE \E part \in Part : Put(Target, part)
    BY <2>2, PutFacts, OtherSlot DEF IInv
  <2>3. CASE fs' = [fs EXCEPT ![Target] = {}]
    BY <2>3, OtherSlot DEF IInv, TypeOK
  <2>4. pc \in {"extract", "kernel", "restore"} => Sysupgrade = Target
    BY MountedThere DEF BeforeMount
  <2>5. CASE Extract \/ Kernel \/ Restore
    BY <2>2, <2>4, <2>5 DEF Extract, Kernel, Restore, Write, Part
  <2>6. CASE Crash
    BY <2>1, <2>2, <2>4, <2>6 DEF Crash, Interrupted, Part
  <2> QED BY <2>1, <2>3, <2>5, <2>6 DEF Next, Begin, Backup, Mkfs, Mkdir, Mount, Copy, Truncate, Cat, Umount,
             MountByHand, Rescue, disk
<1> QED BY IInvInit, IInvStep, <1>1, PTL DEF Spec, RunningUntouched
=============================================================================
