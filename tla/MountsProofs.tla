---------------------------- MODULE MountsProofs ----------------------------
(***************************************************************************)
(* Theorems about Mounts, for any sets of devices and partitions.          *)
(***************************************************************************)
EXTENDS Mounts, TLAPS

\* The part of the invariant that is about the file systems and the drive.
FsInv ==
  /\ mounted \subseteq Partitions /\ geckofail \subseteq Geckos
  /\ dvd_mountWait \in BOOLEAN /\ idle \in BOOLEAN /\ motor \in BOOLEAN
  /\ recent \subseteq Discs
  /\ GeckoFailUnmounted /\ MotorJustified

\* The part about the dialogue.
DialogueInv ==
  /\ mountstate \in {"START", "SELECTDEVICE", "WAITFORDEVICE"}
  /\ mount_partition \in Removable \cup {NULL}
  /\ mount_timer \in {"off", "running", "expired"}
  /\ DialogueConsistent

IInv == TypeOK /\ FsInv /\ DialogueInv

\* What WaitProtectsDisc says of one step.
Protects == dvd_mountWait /\ dvd_mountWait' => mounted' \cap Discs = mounted \cap Discs

\* Kinds of partitions do not overlap.
LEMMA Kinds == /\ Discs \cap Fat = {} /\ Discs \cap Fixed = {} /\ Geckos \cap Fixed = {}
               /\ Geckos \cap Discs = {} /\ Geckos \subseteq Fat /\ NULL \notin Removable
               /\ "dvd" \in Discs
  BY KindsAssumption DEF Discs, Fat, Partitions, Removable

\* Nothing happens to the file systems.
LEMMA FsUnchanged == ASSUME FsInv, UNCHANGED fs PROVE FsInv' /\ Protects
  BY DEF FsInv, fs, GeckoFailUnmounted, MotorJustified, NoDisc, Protects

\* A wait for the disc begins, and nothing else changes.
LEMMA FsStartWait ==
  ASSUME FsInv, StartWait, UNCHANGED <<mounted, geckofail, recent, idle>>
  PROVE  FsInv' /\ Protects
  BY DEF FsInv, StartWait, GeckoFailUnmounted, MotorJustified, NoDisc, Protects

\* What fails to unmount stays; nothing else does.
LEMMA UnmountedSubset == ASSUME NEW S, NEW gone \in Unmounted(S) PROVE gone \subseteq S
  BY DEF Unmounted

\* unmount: the drive stops with the last view of the disc.
LEMMA FsUnmount == ASSUME FsInv, NEW p \in Partitions, unmount(p) PROVE FsInv' /\ Protects
<1>1. CASE UNCHANGED fs
  BY <1>1, FsUnchanged
<1>2. CASE CanUnmount(p) /\ Unmount(p)
  <2>1. PICK gone \in Unmounted({p}) : mounted' = mounted \ gone /\ DriveWithout(gone)
    BY <1>2 DEF Unmount
  <2>2. gone \subseteq {p} /\ geckofail' = geckofail /\ dvd_mountWait' = dvd_mountWait
    BY <1>2, UnmountedSubset DEF Unmount
  <2>3. dvd_mountWait => gone \cap Discs = {}
    BY <1>2, <2>2 DEF CanUnmount
  <2>4. CASE gone \cap Discs # {} /\ NoDisc(mounted \ gone)
    BY <2>1, <2>2, <2>3, <2>4
       DEF DriveWithout, dvd_stop, FsInv, GeckoFailUnmounted, MotorJustified, Protects
  <2>5. CASE ~(gone \cap Discs # {} /\ NoDisc(mounted \ gone))
    <3>1. recent' = recent \ gone /\ UNCHANGED <<idle, motor>>
      BY <2>1, <2>5 DEF DriveWithout
    <3>2. ~NoDisc(mounted) => ~NoDisc(mounted')
      BY <2>1, <2>5 DEF NoDisc
    <3>3. QED
      BY <2>1, <2>2, <2>3, <3>1, <3>2 DEF FsInv, GeckoFailUnmounted, MotorJustified, Protects
  <2>6. QED
    BY <2>4, <2>5
<1>3. QED
  BY <1>1, <1>2 DEF unmount

\* dvd_unmount: nothing is unmounted during a wait, and the drive is stopped anyway.
LEMMA FsDvdUnmount == ASSUME FsInv, dvd_unmount PROVE FsInv' /\ Protects
<1>1. PICK gone \in Unmounted({p \in Discs : CanUnmount(p)}) : mounted' = mounted \ gone
  BY DEF dvd_unmount
<1>2. gone \subseteq {p \in Discs : CanUnmount(p)}
  BY UnmountedSubset
<1>3. QED
  BY <1>1, <1>2
     DEF FsInv, dvd_unmount, dvd_stop, CanUnmount, GeckoFailUnmounted, MotorJustified, Protects

\* mount: an attempt that fails leaves neither a turning drive nor a given up Gecko
\* that is mounted.
LEMMA FsMount == ASSUME FsInv, NEW p \in Partitions, mount(p) PROVE FsInv' /\ Protects
<1>1. CASE UNCHANGED fs
  BY <1>1, FsUnchanged
<1>2. CASE CanMount(p) /\ p \in Fat /\ MountFat(p)
  BY <1>2, Kinds
     DEF MountFat, SetGeckoFail, FsInv, GeckoFailUnmounted, MotorJustified, NoDisc, Partitions, Protects
<1>3. CASE CanMount(p) /\ p \in Discs /\ MountDisc(p)
  <2>1. CASE StartWait /\ UNCHANGED <<mounted, geckofail, recent, idle>>
    BY <2>1, FsStartWait
  <2>2. ASSUME NEW ok \in SUBSET {p}, mounted' = mounted \cup ok,
               IF NoDisc(mounted \cup ok) THEN dvd_stop ELSE Access(ok),
               UNCHANGED <<dvd_mountWait, geckofail>>
        PROVE  FsInv' /\ Protects
    <3>1. ~dvd_mountWait
      BY <1>3 DEF CanMount
    <3>2. mounted' \subseteq Partitions /\ geckofail' \cap mounted' = {}
      BY <1>3, <2>2, Kinds DEF FsInv, GeckoFailUnmounted
    <3>3. CASE NoDisc(mounted \cup ok)
      BY <2>2, <3>1, <3>2, <3>3 DEF dvd_stop, FsInv, GeckoFailUnmounted, MotorJustified, Protects
    <3>4. CASE ~NoDisc(mounted \cup ok)
      <4>1. ok \subseteq Discs
        BY <1>3, <2>2
      <4>2. recent' \subseteq Discs /\ recent' \subseteq mounted' /\ idle' \in BOOLEAN /\ motor' \in BOOLEAN
        BY <2>2, <3>4, <4>1 DEF Access, FsInv
      <4>3. QED
        BY <2>2, <3>1, <3>2, <3>4, <4>2 DEF FsInv, GeckoFailUnmounted, MotorJustified, Protects
    <3>5. QED
      BY <3>3, <3>4
  <2>3. QED
    BY <1>3, <2>1, <2>2 DEF MountDisc
<1>4. CASE CanMount(p) /\ p \in Fixed /\ MountFixed(p)
  BY <1>4, Kinds
     DEF MountFixed, FsInv, GeckoFailUnmounted, MotorJustified, NoDisc, Partitions, Protects
<1>5. QED
  BY <1>1, <1>2, <1>3, <1>4 DEF mount

\* check_dvd_mount: all views are mounted anew.  The wait is over.
LEMMA FsCheckDvdMount == ASSUME FsInv, check_dvd_mount PROVE FsInv' /\ Protects
<1>1. PICK ok \in SUBSET Discs, still \in SUBSET (Discs \cap mounted) :
        /\ mounted' = (mounted \ Discs) \cup ok \cup still
        /\ StopUnlessMounted(ok)
  BY DEF check_dvd_mount
<1>2. geckofail' = geckofail /\ dvd_mountWait' = FALSE
  BY DEF check_dvd_mount
<1>3. mounted' \subseteq Partitions /\ geckofail' \cap mounted' = {}
  BY <1>1, <1>2, Kinds DEF FsInv, GeckoFailUnmounted, Partitions
<1>4. CASE ok = {}
  BY <1>1, <1>2, <1>3, <1>4 DEF StopUnlessMounted, dvd_stop, FsInv, GeckoFailUnmounted, MotorJustified, Protects
<1>5. CASE ok # {}
  <2>1. Access(ok)
    BY <1>1, <1>5 DEF StopUnlessMounted
  <2>2. recent' \subseteq Discs /\ recent' \subseteq mounted' /\ idle' \in BOOLEAN /\ motor' \in BOOLEAN
    BY <1>1, <2>1 DEF Access, FsInv
  <2>3. ~NoDisc(mounted')
    BY <1>1, <1>5 DEF NoDisc
  <2>4. QED
    BY <1>2, <1>3, <2>2, <2>3 DEF FsInv, GeckoFailUnmounted, MotorJustified, Protects
<1>6. QED
  BY <1>4, <1>5

\* The periodic check: cards that appear are mounted or, in a Gecko, given up; a disc
\* that appears starts a wait; what is gone is unmounted.
LEMMA FsCheckDevices == ASSUME FsInv, check_removable_devices PROVE FsInv' /\ Protects
<1>1. PICK seen \in Seen :
        LET appeared == ((seen \ inserted) \ mounted) \cap Looked
            absent   == {p \in mounted \cap (Looked \cup Views) :
                           CanUnmount(p) /\ (IF p \in Discs THEN "dvd" ELSE p) \notin seen}
        IN \E ok \in SUBSET (appeared \cap Fat), gone \in Unmounted(absent) :
             /\ mounted' = (mounted \ gone) \cup ok
             /\ SetGeckoFail(ok, GivenUp(appeared, ok))
             /\ IF "dvd" \in appeared THEN StartWait /\ UNCHANGED <<recent, idle>>
                ELSE DriveWithout(gone) /\ UNCHANGED dvd_mountWait
  BY DEF check_removable_devices
<1> DEFINE appeared == ((seen \ inserted) \ mounted) \cap Looked
           absent   == {p \in mounted \cap (Looked \cup Views) :
                          CanUnmount(p) /\ (IF p \in Discs THEN "dvd" ELSE p) \notin seen}
<1>2. PICK ok \in SUBSET (appeared \cap Fat), gone \in Unmounted(absent) :
        /\ mounted' = (mounted \ gone) \cup ok
        /\ SetGeckoFail(ok, GivenUp(appeared, ok))
        /\ IF "dvd" \in appeared THEN StartWait /\ UNCHANGED <<recent, idle>>
           ELSE DriveWithout(gone) /\ UNCHANGED dvd_mountWait
  BY <1>1
<1>3. /\ appeared \cap mounted = {}
      /\ \A p \in gone : p \in mounted /\ CanUnmount(p)
      /\ "dvd" \in appeared => gone \cap Discs = {}
  <2>1. "dvd" \in appeared => "dvd" \in seen
    OBVIOUS
  <2>2. gone \subseteq absent
    BY UnmountedSubset
  <2>3. \A p \in absent : /\ p \in mounted /\ CanUnmount(p)
                          /\ p \in Discs => "dvd" \notin seen
    OBVIOUS
  <2> HIDE DEF absent
  <2>4. QED
    BY <2>1, <2>2, <2>3
<1>4. mounted' \subseteq Partitions /\ geckofail' \subseteq Geckos /\ geckofail' \cap mounted' = {}
  BY <1>2, <1>3, Kinds DEF SetGeckoFail, GivenUp, FsInv, GeckoFailUnmounted, Partitions
<1>5. mounted' \cap Discs = (mounted \cap Discs) \ gone
  BY <1>2, Kinds
<1>6. dvd_mountWait => gone \cap Discs = {}
  BY <1>3 DEF CanUnmount
<1> HIDE DEF appeared, absent
<1>7. CASE "dvd" \in appeared
  BY <1>2, <1>3, <1>4, <1>5, <1>7 DEF StartWait, FsInv, GeckoFailUnmounted, MotorJustified, Protects
<1>8. CASE "dvd" \notin appeared
  <2>1. DriveWithout(gone) /\ UNCHANGED dvd_mountWait
    BY <1>2, <1>8
  <2>2. CASE gone \cap Discs # {} /\ NoDisc(mounted \ gone)
    BY <1>4, <1>5, <1>6, <2>1, <2>2
       DEF DriveWithout, dvd_stop, FsInv, GeckoFailUnmounted, MotorJustified, Protects
  <2>3. CASE ~(gone \cap Discs # {} /\ NoDisc(mounted \ gone))
    <3>1. recent' = recent \ gone /\ UNCHANGED <<idle, motor>>
      BY <2>1, <2>3 DEF DriveWithout
    <3>2. ~NoDisc(mounted) => ~NoDisc(mounted')
      BY <1>5, <2>3 DEF NoDisc
    <3>3. recent' \subseteq mounted'
      BY <1>5, <3>1 DEF FsInv, MotorJustified
    <3>4. QED
      BY <1>4, <1>5, <1>6, <2>1, <3>1, <3>2, <3>3 DEF FsInv, GeckoFailUnmounted, MotorJustified, Protects
  <2>4. QED
    BY <2>2, <2>3
<1>9. QED
  BY <1>7, <1>8

-----------------------------------------------------------------------------
(* The dialogue                                                            *)

LEMMA DialogueUnchanged == ASSUME DialogueInv, UNCHANGED dialogue PROVE DialogueInv'
  BY DEF DialogueInv, dialogue, DialogueConsistent

\* Button B, or the timer: in either state of the dialogue.
LEMMA RemountEvent ==
  ASSUME FsInv, DialogueInv, process_remount_event
  PROVE  FsInv' /\ DialogueInv' /\ Protects
<1>1. CASE AskForDevice
  BY <1>1, FsUnchanged DEF AskForDevice, DialogueInv, DialogueConsistent
<1>2. CASE RemountDevice
  <2>1. mountstate = "WAITFORDEVICE" /\ mount_partition \in Removable
    BY <1>2 DEF RemountDevice, DialogueInv, DialogueConsistent
  <2>2. mount_partition \in Partitions
    BY <2>1, Kinds DEF Removable, Partitions
  <2>3. FsInv' /\ Protects
    BY <1>2, <2>2, FsMount, FsStartWait DEF RemountDevice
  <2>4. DialogueInv'
    BY <1>2 DEF RemountDevice, DialogueInv, DialogueConsistent
  <2>5. QED
    BY <2>3, <2>4
<1>3. QED
  BY <1>1, <1>2 DEF process_remount_event

\* A device's button.
LEMMA SelectEvent ==
  ASSUME FsInv, DialogueInv, NEW p \in Removable, process_device_select_event(p)
  PROVE  FsInv' /\ DialogueInv' /\ Protects
<1>1. CASE mountstate # "SELECTDEVICE"
  BY <1>1, FsUnchanged, DialogueUnchanged DEF process_device_select_event
<1>2. CASE mountstate = "SELECTDEVICE" /\ p = "dvd" /\ dvd_mountWait
  BY <1>2, FsUnchanged DEF process_device_select_event, DialogueInv, DialogueConsistent
<1>3. CASE mountstate = "SELECTDEVICE" /\ ~(p = "dvd" /\ dvd_mountWait)
  <2>1. p \in Partitions /\ p # NULL
    BY Kinds DEF Removable, Partitions
  <2>2. FsInv' /\ Protects
    BY <1>3, <2>1, FsUnmount, FsDvdUnmount DEF process_device_select_event
  <2>3. DialogueInv'
    BY <1>3, <2>1 DEF process_device_select_event, DialogueInv, DialogueConsistent
  <2>4. QED
    BY <2>2, <2>3
<1>4. QED
  BY <1>1, <1>2, <1>3

-----------------------------------------------------------------------------
(* The invariant                                                           *)

LEMMA InitIInv == Init => IInv
  BY Kinds DEF Init, IInv, TypeOK, FsInv, DialogueInv, DialogueConsistent,
     GeckoFailUnmounted, MotorJustified, NoDisc, Partitions, Removable

\* The type invariant adds to the other parts the ranges of at, inserted and media.
LEMMA TypeOfParts ==
  ASSUME FsInv', DialogueInv', at' \in {"test", "dvd", "ftp", "wiimote", "gamecube", "motor", "timer", "devices", "exited"},
         inserted' \subseteq Removable, media' \subseteq Removable
  PROVE  IInv'
  BY DEF IInv, TypeOK, FsInv, DialogueInv

\* Every step preserves the invariant, and lets a disc that is being mounted alone.
LEMMA Step == ASSUME IInv, [Next]_vars PROVE IInv' /\ Protects
<1> USE DEF Go
<1>0. FsInv /\ DialogueInv
      /\ at \in {"test", "dvd", "ftp", "wiimote", "gamecube", "motor", "timer", "devices", "exited"}
      /\ inserted \subseteq Removable /\ media \subseteq Removable
  BY DEF IInv, TypeOK
<1>1. CASE Enter
  BY <1>0, <1>1, FsUnchanged, DialogueUnchanged, TypeOfParts DEF Enter
<1>2. CASE Exit
  <2>1. FsInv' /\ Protects
    <3>1. PICK gone \in Unmounted({p \in mounted : CanUnmount(p)}) : mounted' = mounted \ gone
      BY <1>2 DEF Exit
    <3>2. gone \subseteq {p \in mounted : CanUnmount(p)}
      BY UnmountedSubset
    <3>3. QED
      BY <1>0, <1>2, <3>1, <3>2
         DEF Exit, dvd_stop, CanUnmount, FsInv, GeckoFailUnmounted, MotorJustified, Protects
  <2>2. QED
    BY <1>0, <1>2, <2>1, DialogueUnchanged, TypeOfParts DEF Exit
<1>3. CASE check_dvd_mount
  BY <1>0, <1>3, FsCheckDvdMount, DialogueUnchanged, TypeOfParts DEF check_dvd_mount
<1>4. CASE NoDvdMount
  BY <1>0, <1>4, FsUnchanged, DialogueUnchanged, TypeOfParts DEF NoDvdMount
<1>5. ASSUME NEW p \in Partitions, ftp_SITE_MOUNT(p) PROVE IInv' /\ Protects
  BY <1>0, <1>5, FsMount, DialogueUnchanged, TypeOfParts DEF ftp_SITE_MOUNT
<1>6. ASSUME NEW p \in Partitions, ftp_SITE_UNMOUNT(p) PROVE IInv' /\ Protects
  BY <1>0, <1>6, FsUnmount, DialogueUnchanged, TypeOfParts DEF ftp_SITE_UNMOUNT
<1>7. CASE ftp_SITE_EJECT
  BY <1>0, <1>7, FsDvdUnmount, DialogueUnchanged, TypeOfParts DEF ftp_SITE_EJECT
<1>8. ASSUME NEW p \in Discs, ReadDisc(p) PROVE IInv' /\ Protects
  <2>1. recent' \subseteq Discs /\ recent' \subseteq mounted' /\ idle' \in BOOLEAN /\ motor' \in BOOLEAN
    BY <1>0, <1>8 DEF ReadDisc, Access, FsInv
  <2>2. FsInv' /\ Protects
    BY <1>0, <1>8, <2>1 DEF ReadDisc, FsInv, GeckoFailUnmounted, MotorJustified, NoDisc, Protects
  <2>3. QED
    BY <1>0, <1>8, <2>2, DialogueUnchanged, TypeOfParts DEF ReadDisc
<1>9. CASE FtpDone
  BY <1>0, <1>9, FsUnchanged, DialogueUnchanged, TypeOfParts DEF FtpDone
<1>10. CASE process_buttons
  <2>1. FsInv' /\ DialogueInv' /\ Protects
    <3>1. CASE UNCHANGED <<fs, dialogue>>
      BY <1>0, <3>1, FsUnchanged, DialogueUnchanged
    <3>2. CASE process_remount_event
      BY <1>0, <3>2, RemountEvent
    <3>3. ASSUME NEW p \in Removable, process_device_select_event(p)
          PROVE  FsInv' /\ DialogueInv' /\ Protects
      BY <1>0, <3>3, SelectEvent
    <3>4. QED
      BY <1>10, <3>1, <3>2, <3>3 DEF process_buttons
  <2>2. QED
    BY <1>0, <1>10, <2>1, TypeOfParts DEF process_buttons
<1>11. CASE check_dvd_motor_timeout
  <2>1. FsInv' /\ Protects
    BY <1>0, <1>11, FsDvdUnmount, FsUnchanged DEF check_dvd_motor_timeout
  <2>2. QED
    BY <1>0, <1>11, <2>1, DialogueUnchanged, TypeOfParts DEF check_dvd_motor_timeout
<1>12. CASE check_mount_timer
  <2>1. FsInv' /\ DialogueInv' /\ Protects
    BY <1>0, <1>12, RemountEvent, FsUnchanged, DialogueUnchanged DEF check_mount_timer
  <2>2. QED
    BY <1>0, <1>12, <2>1, TypeOfParts DEF check_mount_timer
<1>13. CASE check_removable_devices
  <2>1. FsInv' /\ Protects
    BY <1>0, <1>13, FsCheckDevices
  <2>2. inserted' \subseteq Removable
    BY <1>0, <1>13 DEF check_removable_devices, Seen, Looked
  <2>3. QED
    BY <1>0, <1>13, <2>1, <2>2, DialogueUnchanged, TypeOfParts DEF check_removable_devices
<1>14. CASE NoDeviceCheck
  BY <1>0, <1>14, FsUnchanged, DialogueUnchanged, TypeOfParts DEF NoDeviceCheck
<1>15. CASE MountTimerExpires
  <2>1. DialogueInv'
    BY <1>0, <1>15 DEF MountTimerExpires, DialogueInv, DialogueConsistent
  <2>2. QED
    BY <1>0, <1>15, <2>1, FsUnchanged, TypeOfParts DEF MountTimerExpires
<1>16. CASE MotorTimerExpires
  <2>1. FsInv' /\ Protects
    BY <1>0, <1>16 DEF MotorTimerExpires, FsInv, GeckoFailUnmounted, MotorJustified, NoDisc, Protects
  <2>2. QED
    BY <1>0, <1>16, <2>1, DialogueUnchanged, TypeOfParts DEF MotorTimerExpires
<1>17. ASSUME NEW p \in Removable, MoveMedium(p) PROVE IInv' /\ Protects
  BY <1>0, <1>17, FsUnchanged, DialogueUnchanged, TypeOfParts DEF MoveMedium
<1>18. CASE UNCHANGED vars
  BY <1>0, <1>18, FsUnchanged, DialogueUnchanged, TypeOfParts DEF vars
<1>19. QED
  BY <1>1, <1>2, <1>3, <1>4, <1>5, <1>6, <1>7, <1>8, <1>9, <1>10, <1>11, <1>12, <1>13, <1>14,
     <1>15, <1>16, <1>17, <1>18
     DEF Next, DvdStep, process_ftp_events, DeviceStep, Terminated

\* The inductive invariant holds in every state.
THEOREM Invariance == Spec => []IInv
<1>1. IInv /\ [Next]_vars => IInv'
  BY Step
<1>2. QED
  BY InitIInv, <1>1, PTL DEF Spec

\* The variables of fs.c and dvd.c keep their ranges, whatever devices there are.
THEOREM TypeCorrect == Spec => []TypeOK
<1>1. IInv => TypeOK
  BY DEF IInv
<1>2. QED
  BY Invariance, <1>1, PTL

\* The dialogue's state, its partition and its timer agree.
THEOREM DialogueConsistency == Spec => []DialogueConsistent
<1>1. IInv => DialogueConsistent
  BY DEF IInv, DialogueInv
<1>2. QED
  BY Invariance, <1>1, PTL

\* A partition that is given up is not mounted.
THEOREM GivenUpIsUnmounted == Spec => []GeckoFailUnmounted
<1>1. IInv => GeckoFailUnmounted
  BY DEF IInv, FsInv
<1>2. QED
  BY Invariance, <1>1, PTL

\* The drive turns only for a disc that is mounted or being mounted.
THEOREM MotorIsJustified == Spec => []MotorJustified
<1>1. IInv => MotorJustified
  BY DEF IInv, FsInv
<1>2. QED
  BY Invariance, <1>1, PTL

\* While a disc is being mounted nobody else mounts or unmounts its file systems.
THEOREM WaitIsProtected == Spec => WaitProtectsDisc
<1>1. IInv /\ [Next]_vars => [dvd_mountWait /\ dvd_mountWait' => mounted' \cap Discs = mounted \cap Discs]_vars
  BY Step DEF Protects
<1>2. QED
  BY Invariance, <1>1, PTL DEF Spec, WaitProtectsDisc

-----------------------------------------------------------------------------
(* The automatic mounting keeps its hands off the dialogue's device        *)

\* What DialogueKeepsDevice says of one step.
Keeps ==
  mountstate = "WAITFORDEVICE" /\ mountstate' = "WAITFORDEVICE" /\ at # "ftp" =>
    /\ mount_partition \in mounted' => mount_partition \in mounted \/ dvd_mountWait
    /\ mount_partition = "dvd" /\ dvd_mountWait' => dvd_mountWait

LEMMA StepKeeps == ASSUME IInv, [Next]_vars PROVE Keeps
<1> SUFFICES ASSUME mountstate = "WAITFORDEVICE", mountstate' = "WAITFORDEVICE", at # "ftp"
             PROVE  /\ mount_partition \in mounted' => mount_partition \in mounted \/ dvd_mountWait
                    /\ mount_partition = "dvd" /\ dvd_mountWait' => dvd_mountWait
  BY DEF Keeps
<1>0. mount_timer # "off" /\ mount_partition \notin Looked /\ mount_partition \in Removable
  BY DEF IInv, DialogueInv, DialogueConsistent, Looked
<1>1. ~process_remount_event
  BY DEF process_remount_event, AskForDevice, RemountDevice
<1>2. \A p \in Removable : process_device_select_event(p) => UNCHANGED fs
  BY DEF process_device_select_event
<1>3. CASE Exit
  BY <1>3 DEF Exit
<1>4. CASE check_dvd_mount
  BY <1>4 DEF check_dvd_mount
<1>5. CASE check_dvd_motor_timeout
  BY <1>5 DEF check_dvd_motor_timeout, dvd_unmount, fs
<1>6. CASE check_removable_devices
  <2>1. PICK seen \in Seen :
          \E ok \in SUBSET ((((seen \ inserted) \ mounted) \cap Looked) \cap Fat) : \E gone :
            /\ mounted' = (mounted \ gone) \cup ok
            /\ IF "dvd" \in ((seen \ inserted) \ mounted) \cap Looked THEN StartWait
               ELSE UNCHANGED dvd_mountWait
    BY <1>6 DEF check_removable_devices
  <2>2. QED
    BY <2>1, <1>0
<1>7. CASE UNCHANGED fs
  BY <1>7 DEF fs
<1>8. process_buttons \/ check_mount_timer => UNCHANGED fs
  BY <1>1, <1>2 DEF process_buttons, check_mount_timer
<1>9. Enter \/ NoDvdMount \/ NoDeviceCheck \/ MountTimerExpires => UNCHANGED fs
  BY DEF Enter, NoDvdMount, NoDeviceCheck, MountTimerExpires
<1>10. CASE MotorTimerExpires
  BY <1>10 DEF MotorTimerExpires
<1>11. \A p \in Removable : MoveMedium(p) => UNCHANGED fs
  BY DEF MoveMedium
<1>12. ~process_ftp_events
  BY DEF process_ftp_events, ftp_SITE_MOUNT, ftp_SITE_UNMOUNT, ftp_SITE_EJECT, ReadDisc, FtpDone, Go
<1>13. Terminated \/ UNCHANGED vars => UNCHANGED fs
  BY DEF Terminated, vars
<1>14. QED
  BY <1>3, <1>4, <1>5, <1>6, <1>7, <1>8, <1>9, <1>10, <1>11, <1>12, <1>13 DEF Next, DvdStep, DeviceStep

\* Only a client mounts the device that the user was asked to change.
THEOREM DialogueDeviceKept == Spec => DialogueKeepsDevice
<1>1. IInv /\ [Next]_vars =>
        [mountstate = "WAITFORDEVICE" /\ mountstate' = "WAITFORDEVICE" /\ at # "ftp" =>
           /\ mount_partition \in mounted' => mount_partition \in mounted \/ dvd_mountWait
           /\ mount_partition = "dvd" /\ dvd_mountWait' => dvd_mountWait]_vars
  BY StepKeeps DEF Keeps
<1>2. QED
  BY Invariance, <1>1, PTL DEF Spec, DialogueKeepsDevice
=============================================================================
