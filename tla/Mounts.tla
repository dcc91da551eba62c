------------------------------- MODULE Mounts -------------------------------
(***************************************************************************)
(* The partitions of source/fs.c and the DVD drive of source/dvd.c, whose  *)
(* disc has several views: three file systems that come and go together.   *)
(*                                                                         *)
(* Four actors change the same partitions: clients (SITE MOUNT, UNMOUNT,   *)
(* EJECT), the remount dialogue of the controllers, the check for devices  *)
(* that were inserted or removed, and the timeout of the drive's motor.    *)
(* They take turns in the order of the main loop, and every handler is one *)
(* action.  Cards and discs are moved by hand at any moment.               *)
(***************************************************************************)
EXTENDS Naturals

CONSTANTS
  Geckos,   \* partitions in the SD Geckos
  Cards,    \* front SD and USB storage
  Views,    \* the views of a disc besides ISO 9660: WOD and FST
  Fixed,    \* NAND images, ISFS, OTP, SEEPROM: nothing that could be removed
  NULL

Fat        == Geckos \cup Cards            \* is_fat
Discs      == {"dvd"} \cup Views           \* is_dvd: the views of one disc
Removable  == Fat \cup {"dvd"}
Partitions == Fat \cup Discs \cup Fixed

ASSUME KindsAssumption ==
  /\ Geckos \cap Cards = {} /\ Fat \cap Discs = {} /\ Fixed \cap (Fat \cup Discs) = {}
  /\ NULL \notin Partitions

VARIABLES
  at,              \* where the main loop is
  mounted,         \* the partitions for which mounted() is true
  geckofail,       \* the partitions with geckofail set
  inserted,        \* the partitions with inserted set; WOD and FST copy PA_DVD
  mountstate, mount_partition, mount_timer,   \* the remount dialogue
  dvd_mountWait,   \* _dvd_mountWait
  recent,          \* the disc file systems accessed after dvd_last_stopped
  idle,            \* have DVD_MOTOR_TIMEOUT seconds passed since the last access?
  motor,           \* does the drive turn?
  media            \* the devices that have a card or disc in them

fs       == <<mounted, geckofail, dvd_mountWait, recent, idle, motor>>
dialogue == <<mountstate, mount_partition, mount_timer>>
vars     == <<at, fs, inserted, dialogue, media>>

Init ==
  /\ at = "test"
  /\ mounted \in SUBSET Fixed   \* initialise_fs
  /\ geckofail = {} /\ inserted = {}
  /\ mountstate = "START" /\ mount_partition = NULL /\ mount_timer = "off"
  /\ dvd_mountWait = FALSE /\ recent = {} /\ idle = FALSE /\ motor = FALSE
  /\ media \in SUBSET Removable

-----------------------------------------------------------------------------
(* The drive                                                               *)

\* The last access times of the file system libraries count from the mount, and
\* are 0 when nothing is mounted.
NoDisc(m) == m \cap Discs = {}

dvd_stop == motor' = FALSE /\ recent' = {} /\ UNCHANGED idle

\* DI_Mount and set_dvd_mountWait(true)
StartWait == dvd_mountWait' = TRUE /\ motor' = TRUE

\* Accessing the file systems S, if any, makes the drive turn.
Access(S) ==
  /\ recent' = (recent \cap mounted') \cup S
  /\ idle' = (idle /\ S = {})
  /\ motor' = TRUE

\* Mutant: partitions of the disc are unmounted during the wait, too.
UnmountsDuringWait(p) == p \in mounted

\* The guard of unmount: dvd_mountWait protects the disc.
CanUnmount(p) == p \in mounted /\ ~(p \in Discs /\ dvd_mountWait)

\* What is left when the partitions S are unmounted: the drive stops with its last
\* file system.
DriveWithout(S) ==
  IF S \cap Discs # {} /\ NoDisc(mounted \ S) THEN dvd_stop
  ELSE recent' = recent \ S /\ UNCHANGED <<idle, motor>>

\* Which of the partitions S come off: fatUnmount and ntfsUnmount have no result
\* that is looked at, the other libraries may fail and leave theirs mounted.
Unmounted(S) == {S \ kept : kept \in SUBSET (S \ Fat)}

Unmount(p) ==
  /\ \E gone \in Unmounted({p}) : mounted' = mounted \ gone /\ DriveWithout(gone)
  /\ UNCHANGED <<geckofail, dvd_mountWait>>

unmount(p) ==
  \/ CanUnmount(p) /\ Unmount(p)
  \/ ~CanUnmount(p) /\ UNCHANGED fs

\* During the wait unmount refuses every view.  The drive is stopped whether or not
\* they have come off.
dvd_unmount ==
  /\ \E gone \in Unmounted({p \in Discs : CanUnmount(p)}) : mounted' = mounted \ gone
  /\ dvd_stop
  /\ UNCHANGED <<geckofail, dvd_mountWait>>

-----------------------------------------------------------------------------
(* Mounting                                                                *)

\* Mutant: geckofail stays set.
ForgetsGeckoFail(ok, failed) == geckofail' = geckofail \cup failed

\* ok: mounted successfully; failed: did not mount automatically.
SetGeckoFail(ok, failed) == geckofail' = (geckofail \ ok) \cup failed

\* A card, FAT or NTFS: nothing mounts without one in the device.
MountFat(p) ==
  /\ \E ok \in SUBSET ({p} \cap media) :
       /\ mounted' = mounted \cup ok
       /\ SetGeckoFail(ok \cap Geckos, {})
  /\ UNCHANGED <<dvd_mountWait, recent, idle, motor>>

\* The drive is ready within ten seconds, or the wait goes on in the background.
MountDisc(p) ==
  /\ \/ StartWait /\ UNCHANGED <<mounted, recent, idle>>
     \/ \E ok \in SUBSET {p} :
          /\ ok # {} => "dvd" \in media
          /\ mounted' = mounted \cup ok
          /\ IF NoDisc(mounted \cup ok) THEN dvd_stop ELSE Access(ok)
          /\ UNCHANGED dvd_mountWait
  /\ UNCHANGED geckofail

MountFixed(p) ==
  /\ \E ok \in SUBSET {p} : mounted' = mounted \cup ok
  /\ UNCHANGED <<geckofail, dvd_mountWait, recent, idle, motor>>

CanMount(p) == p \notin mounted /\ ~(p \in Discs /\ dvd_mountWait)

mount(p) ==
  \/ ~CanMount(p) /\ UNCHANGED fs
  \/ CanMount(p) /\ p \in Fat /\ MountFat(p)
  \/ CanMount(p) /\ p \in Discs /\ MountDisc(p)
  \/ CanMount(p) /\ p \in Fixed /\ MountFixed(p)

-----------------------------------------------------------------------------
(* The main loop                                                           *)

\* From one handler to the next.
Go(from, to) == at = from /\ at' = to

Enter ==
  /\ Go("test", "dvd")
  /\ UNCHANGED <<fs, inserted, dialogue, media>>

\* main() after the loop: all partitions are unmounted, and the drive stops.
Exit ==
  /\ Go("test", "exited")
  /\ \E gone \in Unmounted({p \in mounted : CanUnmount(p)}) : mounted' = mounted \ gone
  /\ dvd_stop
  /\ UNCHANGED <<geckofail, dvd_mountWait, inserted, dialogue, media>>

\* Mutant: the drive is left running when no file system was found.
LeavesMotorOn(ok) == Access(ok)

\* What check_dvd_mount does with the drive after mounting the views ok.
StopUnlessMounted(ok) == IF ok = {} THEN dvd_stop ELSE Access(ok)

\* The drive is ready: all views are mounted, without asking if they are.
\* A view that was mounted and now fails may or may not be mounted still.
check_dvd_mount ==
  /\ Go("dvd", "ftp")
  /\ dvd_mountWait
  /\ dvd_mountWait' = FALSE
  /\ \E ok \in SUBSET Discs, still \in SUBSET (Discs \cap mounted) :
       /\ ok # {} => "dvd" \in media
       /\ mounted' = (mounted \ Discs) \cup ok \cup still
       /\ StopUnlessMounted(ok)
  /\ UNCHANGED <<geckofail, inserted, dialogue, media>>

\* No wait, or the drive is not ready yet.
NoDvdMount ==
  /\ Go("dvd", "ftp")
  /\ UNCHANGED <<fs, inserted, dialogue, media>>

ftp_SITE_MOUNT(p) ==
  /\ at = "ftp"
  /\ mount(p)
  /\ UNCHANGED <<at, inserted, dialogue, media>>

ftp_SITE_UNMOUNT(p) ==
  /\ at = "ftp"
  /\ unmount(p)
  /\ UNCHANGED <<at, inserted, dialogue, media>>

\* DI_Eject may fail.
ftp_SITE_EJECT ==
  /\ at = "ftp"
  /\ dvd_unmount
  /\ media' \in {media, media \ {"dvd"}}
  /\ UNCHANGED <<at, inserted, dialogue>>

\* A client lists a directory or transfers a file of the disc.
ReadDisc(p) ==
  /\ at = "ftp"
  /\ p \in mounted \cap Discs
  /\ UNCHANGED <<at, mounted, geckofail, dvd_mountWait, inserted, dialogue, media>>
  /\ Access({p})

FtpDone ==
  /\ Go("ftp", "wiimote")
  /\ UNCHANGED <<fs, inserted, dialogue, media>>

-----------------------------------------------------------------------------
(* The remount dialogue                                                    *)

AskForDevice ==
  /\ mountstate \in {"START", "SELECTDEVICE"}
  /\ mountstate' = "SELECTDEVICE"
  /\ mount_partition' = NULL
  /\ UNCHANGED <<mount_timer, fs>>

\* Mutant: mount_timer is not reset.
KeepsTimer ==
  /\ mountstate = "WAITFORDEVICE"
  /\ mountstate' = "START" /\ mount_partition' = NULL
  /\ IF mount_partition = "dvd"
     THEN StartWait /\ UNCHANGED <<mounted, geckofail, recent, idle>>
     ELSE mount(mount_partition)
  /\ UNCHANGED mount_timer

RemountDevice ==
  /\ mountstate = "WAITFORDEVICE"
  /\ mountstate' = "START" /\ mount_partition' = NULL /\ mount_timer' = "off"
  /\ IF mount_partition = "dvd"
     THEN StartWait /\ UNCHANGED <<mounted, geckofail, recent, idle>>
     ELSE mount(mount_partition)

process_remount_event == AskForDevice \/ RemountDevice

\* The disc is in the process of being mounted: the dialogue ends, although
\* mount_partition is left set.
process_device_select_event(p) ==
  IF mountstate # "SELECTDEVICE" THEN UNCHANGED <<fs, dialogue>>
  ELSE /\ mount_partition' = p
       /\ IF p = "dvd" /\ dvd_mountWait
          THEN mountstate' = "START" /\ UNCHANGED <<fs, mount_timer>>
          ELSE /\ mountstate' = "WAITFORDEVICE" /\ mount_timer' = "running"
               /\ IF p = "dvd" THEN dvd_unmount ELSE unmount(p)

\* Nothing that concerns the partitions, button B, or a device's button.
process_buttons ==
  /\ Go("wiimote", "gamecube") \/ Go("gamecube", "motor")
  /\ \/ UNCHANGED <<fs, dialogue>>
     \/ process_remount_event
     \/ \E p \in Removable : process_device_select_event(p)
  /\ UNCHANGED <<inserted, media>>

-----------------------------------------------------------------------------
(* process_timer_events                                                    *)

\* Mutant: the timeout is left to check_dvd_mount.
TimeoutDuringWait == recent # {} /\ idle /\ dvd_mountWait

MotorTimeout == recent # {} /\ idle /\ ~dvd_mountWait

check_dvd_motor_timeout ==
  /\ Go("motor", "timer")
  /\ IF MotorTimeout THEN dvd_unmount ELSE UNCHANGED fs
  /\ UNCHANGED <<inserted, dialogue, media>>

\* Mutant: only button B ends the dialogue.
WaitsForButton ==
  /\ Go("timer", "devices")
  /\ UNCHANGED <<fs, inserted, dialogue, media>>

check_mount_timer ==
  /\ Go("timer", "devices")
  /\ IF mount_timer = "expired" THEN process_remount_event ELSE UNCHANGED <<fs, dialogue>>
  /\ UNCHANGED <<inserted, media>>

\* Mutant: the device that the dialogue waits for is checked, too.
LooksAtAll == Removable \ geckofail

\* Mutant: the device of the last dialogue is passed over when it has ended.
LooksAtOthers == {p \in Removable \ geckofail : p # mount_partition}

\* The partitions that was_inserted_or_removed looks at: not the one that the
\* dialogue waits for, and none that is given up until it is mounted manually.
Looked == {p \in Removable \ geckofail : mount_timer = "off" \/ p # mount_partition}

\* What becomes of inserted: the cover register of the drive is not read during
\* a wait, and reading it may fail.
Seen ==
  LET now(known) == (media \cap known) \cup (inserted \ known) IN
  {now(Looked \ {"dvd"})} \cup (IF dvd_mountWait THEN {} ELSE {now(Looked)})

\* Mutant: whatever is not mounted at once is given up, a disc that is waited for
\* included.
GivesUpAll(appeared, ok) == appeared \ ok

\* The SD Geckos that did not mount automatically.
GivenUp(appeared, ok) == (appeared \cap Geckos) \ ok

\* Cards that appeared are mounted, those of an SD Gecko that fail are given up;
\* a disc that appeared starts a wait; what has disappeared is unmounted.
check_removable_devices ==
  /\ Go("devices", "test")
  /\ \E seen \in Seen :
       LET appeared == ((seen \ inserted) \ mounted) \cap Looked
           absent   == {p \in mounted \cap (Looked \cup Views) :
                          CanUnmount(p) /\ (IF p \in Discs THEN "dvd" ELSE p) \notin seen}
       IN \E ok \in SUBSET (appeared \cap Fat), gone \in Unmounted(absent) :
            /\ inserted' = seen
            /\ mounted' = (mounted \ gone) \cup ok
            /\ SetGeckoFail(ok, GivenUp(appeared, ok))
            /\ IF "dvd" \in appeared THEN StartWait /\ UNCHANGED <<recent, idle>>
               ELSE DriveWithout(gone) /\ UNCHANGED dvd_mountWait
  /\ UNCHANGED <<dialogue, media>>

\* Two seconds have not passed since the last check.
NoDeviceCheck ==
  /\ Go("devices", "test")
  /\ UNCHANGED <<fs, inserted, dialogue, media>>

-----------------------------------------------------------------------------
(* Time, and hands                                                         *)

MountTimerExpires ==
  /\ at # "exited" /\ mount_timer = "running"
  /\ mount_timer' = "expired"
  /\ UNCHANGED <<at, fs, inserted, mountstate, mount_partition, media>>

MotorTimerExpires ==
  /\ at # "exited" /\ ~idle
  /\ idle' = TRUE
  /\ UNCHANGED <<at, mounted, geckofail, dvd_mountWait, recent, motor, inserted, dialogue, media>>

MoveMedium(p) ==
  /\ at # "exited"
  /\ media' = IF p \in media THEN media \ {p} ELSE media \cup {p}
  /\ UNCHANGED <<at, fs, inserted, dialogue>>

Terminated == at = "exited" /\ UNCHANGED vars

-----------------------------------------------------------------------------

process_ftp_events ==
  \/ \E p \in Partitions : ftp_SITE_MOUNT(p) \/ ftp_SITE_UNMOUNT(p)
  \/ ftp_SITE_EJECT
  \/ \E p \in Discs : ReadDisc(p)
  \/ FtpDone

DvdStep == check_dvd_mount \/ NoDvdMount

DeviceStep == check_removable_devices \/ NoDeviceCheck

Next ==
  \/ Enter \/ Exit
  \/ DvdStep
  \/ process_ftp_events
  \/ process_buttons
  \/ check_dvd_motor_timeout \/ check_mount_timer
  \/ DeviceStep
  \/ MountTimerExpires \/ MotorTimerExpires
  \/ \E p \in Removable : MoveMedium(p)
  \/ Terminated

Spec == Init /\ [][Next]_vars

\* The loop runs, and clients leave it time; time passes; the two seconds between
\* two checks pass and the cover register can be read; a drive with a disc in it
\* becomes ready.
DeviceCheckSeesAll ==
  check_removable_devices /\ ("dvd" \in Looked /\ ~dvd_mountWait => ("dvd" \in inserted' <=> "dvd" \in media))

Fairness ==
  /\ WF_vars(Enter) /\ WF_vars(DvdStep) /\ WF_vars(FtpDone) /\ WF_vars(process_buttons)
  /\ WF_vars(check_dvd_motor_timeout) /\ WF_vars(check_mount_timer) /\ WF_vars(DeviceStep)
  /\ WF_vars(MountTimerExpires) /\ WF_vars(MotorTimerExpires)
  /\ SF_vars(DeviceCheckSeesAll)

FairSpec == Spec /\ Fairness

-----------------------------------------------------------------------------
(* Properties                                                              *)

\* Type invariant: the variables of fs.c and dvd.c keep their ranges.
TypeOK ==
  /\ at \in {"test", "dvd", "ftp", "wiimote", "gamecube", "motor", "timer", "devices", "exited"}
  /\ mounted \subseteq Partitions
  /\ geckofail \subseteq Geckos
  /\ inserted \subseteq Removable /\ media \subseteq Removable
  /\ mountstate \in {"START", "SELECTDEVICE", "WAITFORDEVICE"}
  /\ mount_partition \in Removable \cup {NULL}
  /\ mount_timer \in {"off", "running", "expired"}
  /\ dvd_mountWait \in BOOLEAN /\ idle \in BOOLEAN /\ motor \in BOOLEAN
  /\ recent \subseteq Discs

\* mount_timer runs exactly while the dialogue waits for a device, and the dialogue
\* then knows which: a timer that is left over would open the dialogue by itself,
\* and the check for devices would pass over a partition for ever.
DialogueConsistent ==
  /\ (mount_timer = "off") <=> (mountstate # "WAITFORDEVICE")
  /\ mountstate = "WAITFORDEVICE" => mount_partition # NULL
  /\ mountstate = "SELECTDEVICE" => mount_partition = NULL

\* fs.c:238: an SD Gecko that failed is not looked at "until it is mounted manually":
\* by whatever path that happens, a mounted one is looked at again.
GeckoFailUnmounted == geckofail \cap mounted = {}

\* The drive turns only while a disc is mounted or being mounted, whoever mounts or
\* unmounts, and however an attempt fails.  What is recorded as accessed is mounted.
MotorJustified ==
  /\ motor => dvd_mountWait \/ ~NoDisc(mounted)
  /\ recent \subseteq mounted

\* fs.c:289: while a disc is being mounted no other actor mounts or unmounts one of
\* its file systems.
WaitProtectsDisc ==
  [][dvd_mountWait /\ dvd_mountWait' => mounted' \cap Discs = mounted \cap Discs]_vars

\* While the user changes a device, the program mounts it only at the request of a
\* client: the automatic mounting keeps its hands off.
DialogueKeepsDevice ==
  [][mountstate = "WAITFORDEVICE" /\ mountstate' = "WAITFORDEVICE" /\ at # "ftp" =>
       /\ mount_partition \in mounted' => mount_partition \in mounted \/ dvd_mountWait
       /\ mount_partition = "dvd" /\ dvd_mountWait' => dvd_mountWait]_vars

Ended == at = "exited"

\* fs.c:296: "hold B on controller #1 or wait 30 seconds".
DialogueEnds == mountstate = "WAITFORDEVICE" ~> (mountstate = "START" \/ Ended)

\* README.txt: "Added detection of device removal and insertion for Front SD, SD
\* Gecko": a card that is taken out, and stays out, is unmounted in the end.
RemovalNoticed ==
  \A p \in Fat : (p \in mounted /\ p \notin media) ~> (p \notin mounted \/ p \in media \/ Ended)

\* A card or disc that is put in, and stays in, is noticed, unless its device has
\* been given up, the dialogue is about it, or a disc is being mounted.
InsertionNoticed ==
  \A p \in Removable :
    (p \in media /\ p \notin inserted) ~>
      (p \in inserted \/ p \notin media \/ p \in geckofail \/ Ended
        \/ (mount_timer # "off" /\ p = mount_partition) \/ (p = "dvd" /\ dvd_mountWait))

\* The drive turns, nothing has read from it for DVD_MOTOR_TIMEOUT seconds, and no
\* disc is being mounted.
Inactive == motor /\ idle /\ ~dvd_mountWait

\* It stops, or there is a reason for it to turn.
Stops == ~motor \/ ~idle \/ dvd_mountWait \/ Ended

\* check_dvd_motor_timeout, with the drive itself: a drive that turns although nobody
\* reads from it is stopped, if each file system of the disc that is mounted has been
\* read or mounted since it was last stopped.
MotorStops == Inactive /\ mounted \cap Discs \subseteq recent ~> Stops

\* dvd.c:72: "Stopping DVD drive motor after %u seconds of inactivity."  Not so when a
\* file system has stayed mounted while the drive was stopped (it failed to unmount,
\* or SITE EJECT came during a wait) and another one then fails to mount: the attempt
\* makes the drive turn, nothing has been read since it was last stopped, and the
\* timeout, which compares the two, never comes.
InactivityStopsMotor == Inactive ~> Stops

\* README.txt: "Added detection of device removal and insertion for Front SD, SD
\* Gecko, USB and DVD."
DiscRemovalNoticed ==
  \A p \in Discs :
    (p \in mounted /\ "dvd" \notin media) ~> (p \notin mounted \/ "dvd" \in media \/ Ended)

=============================================================================
