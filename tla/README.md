# A verification project for ftpii

ftpii is an FTP server for the Wii: one program, one thread, no operating
system underneath but libogc and a network stack that answers every call with
data, an error or `-EAGAIN`. This directory holds TLA+ models of it, the TLC
configurations that check them, and TLAPS proofs about them. References such
as `ftp.c:802` are to `src/source/` unless they name another directory.

## 1. The system

### Components

| part | state | operations | what makes it correct |
|---|---|---|---|
| FTP server (`ftp.c`) | `clients[5]`, `num_clients`; per client the control socket, passive socket, data socket, login, transfer callback, its handle and its timer | `process_ftp_events`: accept, then one visit per slot, either `process_control_events` or `process_data_events`; `cleanup_ftp` | slots, descriptors and handles are neither lost nor shared nor used after they are closed; one reply per command; nothing runs during a transfer that should not |
| control buffer (`ftp.c:800-856`) | `buf[1024]`, `offset` | read, find lines, cut them off, execute, move the rest to the front | lines are executed in order, once, whatever the reads look like; the connection is closed only for the faults the code names |
| session state (`ftp.c`) | `cwd`, `pending_rename`, `restart_marker`, `representation_type`, `address`, the global `password` | USER, PASS, REIN, TYPE, CWD, RNFR/RNTO, REST, PORT, SITE PASSWD | no state of one command, or of one user, acts on another |
| main loop and network (`ftpii.c`, `net.c:40-98`) | `network_down`, `server` | restart the network, one pass of all parts | it listens again after a failure; reset leaves it |
| reset (`reset.c`, `pad.c`) | `_reset`, `_power`, the edge-triggered buttons | callbacks, `check_reset_synchronous`, `die` | a reset is never lost |
| data transfer (`net.c:100-170`) | `NET_BUFFER_SIZE`, blocking mode | `transfer_exact`, `send_from_file`, `recv_to_file` | what is confirmed by 226 has arrived |
| mounting (`fs.c`, `dvd.c`) | mounted partitions, `inserted`, `geckofail`, remount dialogue, timers, `_dvd_mountWait`, motor | mount, unmount, SITE MOUNT/UNMOUNT/EJECT, buttons, periodic checks | no partition is mounted twice; the dialogue and the automatic mounting do not fight; no wait is endless |
| virtual paths (`vrt.c`, `fs.c:320-346`) | none | normalise, map aliases to devices | `..`, `.` and slashes mean what they should; lengths fit |
| command parsing (`ftp.c:119-153`, `584-655`) | none | `split`, the two command tables | |
| loader (`loader.c`, `dol.c`, `preloader.c`) | memory | run another program | |

### How they interact

`main()` (`ftpii.c:110-150`) calls every part once per pass, in a fixed order:
network restart if needed, `check_dvd_mount`, `process_ftp_events`, buttons,
timers. There are no threads; `_reset` is the only variable that interrupt
callbacks write. The parts share descriptors (clients and main loop), the
partitions (clients through paths and SITE commands, buttons, timers) and the
password (all sessions).

### What is hard about it

* A visit ends in the middle of a client's input when a transfer starts, and
  the rest stays in the buffer for later passes.
* Every reply may fail and end the client in the middle of a command.
* `data_socket` may be the passive socket or a socket of its own.
* Every allocation of a socket or handle may fail, at each of several steps.
* The network may fail under connected clients, and the restart does not tell
  them (`net.c:44`).
* Reset may come at any moment.

`PROJECT.json` lists these hazards at their lines, with the properties that
cover them, and, where no property does yet, why.

## 2. The modules

| module | models | section |
|---|---|---|
| `FtpServer` | the FTP server inside the main loop: slots, sockets, handles, replies | 3 |
| `MCFtpServer` | its allocation policies for TLC: the lowest free descriptor, or any | 3 |
| `FtpServerProofs` | theorems about `FtpServer`: the pool, and its sockets | 10 |
| `ControlBuffer` | the control buffer, byte by byte | 4 |
| `LineStream` | what the control buffer promises: the abstract specification it implements | 4 |
| `ControlBufferProofs` | theorems about `ControlBuffer`, the refinement among them | 10 |
| `FtpCommands`, `MCFtpCommands` | what commands leave behind for later ones: `session state` above | 5 |
| `FtpCommandsProofs` | theorems about `FtpCommands` | 10 |
| `Mounts` | partitions, the remount dialogue, the device check, the drive's motor | 6 |
| `MountsProofs` | theorems about `Mounts` | 10 |
| `Transfer`, `MCTransfer` | the data of a transfer, call by call | 7 |
| `FileTransfer` | what a transfer promises: the abstract specification it implements | 7 |
| `TransferProofs` | theorems about `Transfer`, the refinement among them | 10 |
| `VirtualPath`, `MCVirtualPath` | `virtual_abspath`, `to_real_path`, `vrt_chdir`, the listing of the root | 8 |
| `VirtualPathProofs` | theorems about `VirtualPath` | 10 |
| `CommandLine`, `MCCommandLine` | `split`, `dirname`, `basename`, the password in the directory's name | 8 |
| `CommandLineProofs` | theorems about `CommandLine` | 10 |
| `Induction` | induction over numbers and sequences, for the modules of proofs | 10 |

The modules divide the program by what its parts share. `FtpServer` has the
control flow of a session and leaves three things open, which a module each
fills in: which lines the buffer yields (`ControlBuffer`), what commands remember
(`FtpCommands`), and what a callback does with the data (`Transfer`). `Mounts`
has the same main loop, seen from the partitions; in it a client is whoever calls
SITE commands or reads the disc.

### What is left

* The layer of buttons in `pad.c` and `reset.c`: a press is reported once, so that
  the one that ends `initialise_network` is not seen by the main loop; and the
  power flag.
* `FtpServer` composed with `Mounts`: unmounting a partition under a transfer. What
  an open file of an unmounted file system does is up to libfat, which is not in the
  repository; as long as nothing is known of it, every result of a read or write is
  possible, which is what `FtpServer` and `Transfer` allow already.

## 3. FtpServer

### State

| variable | code |
|---|---|
| `clients`, `num_clients` | the array and the counter of `ftp.c:52,79`; a slot holds `NULL` or a record with the fields of `client_struct` that control flow depends on |
| `sockets`, `files` | what is open as seen by the network stack and the C library (external; modelled from how the code uses them) |
| `port` | what each open socket listens on: `ftp`, the port of `create_server`; `data`, the port of a PASV; or nothing |
| `server`, `network_down` | the locals of `main()` |
| `turn`, `step` | the program counter: accepting (0), visiting slot `turn`, or at the test of the loop (`Last`); inside `process_control_events`, before `net_read` or in the for loop |
| `reset` | `_reset` |
| `phase` | `running`; `initialising`, in `initialise_network` and `create_server`; or one of the ways to stop: `exited` (return from `main`), `halted` and then `died` (`die`), `replaced` (SITE LOAD) |
| `owed` | history: final replies owed to a client. Nothing reads it but a property |

Of `buf` only the number of complete lines is kept (`lines`); `ControlBuffer`
has the bytes. The callbacks are told apart by what matters to control:
`send_list` and `send_nlst` finish in one call (`list`), `send_from_file` and
`recv_to_file` may ask to be called again (`file`). The argument of the callback
and the cleanup function are set and cleared together and share the field `arg`.

### Actions

| action | code |
|---|---|
| `AcceptClient`, `AcceptDone`, `AcceptError` | the cases of `net_accept` in `process_accept_events` |
| `SkipSlot` | an empty slot |
| `ReadNothing`, `ReadLines`, `ReadFails` | the results of `net_read`; an overlong line and a zero byte end the client like an error |
| `RejectLine`, `process_command` | one turn of the for loop: a bare line feed, or the command, with all it changes, the reply that succeeds or ends the client, and where the loop goes then |
| `DataAccepted`, `DataConnected`, `DataPending`, `TransferContinues`, `TransferEnds` | the results of `process_data_events`: a passive and an active connection that is made, none yet, and those of the callback |
| `TimerExpires` | `gettime()` passes `data_connection_timer` |
| `NextPass`, `RestartNetwork`, `create_server`, `Exit`, `Die` | the main loop; `create_server` stands for the return from `initialise_network`, which it may never reach, and what follows |
| `set_reset_flag` | the callbacks and buttons |
| `Terminated` | stuttering after the end of the program |

Commands that only reply are one action, `ReplyOnly`: for the state of this module
they are the same. A write to the control socket (`write_reply`) is not a step
of its own: it succeeds or makes the caller close the client, and both outcomes are
disjuncts of the command. When several replies of one command matter (150, then
520), the action has a disjunct for each combination.

`net_deinit` is outside the repository. `SocketsSurviveDeinit` says whether sockets
that are open survive it, and both answers are checked. When they do not, a client keeps
the numbers of sockets that are closed, and the stack hands them out again. What a call
on such a number gives depends on what the number is by then, not on who holds it: a
closed one gives errors, one that listens can be accepted from but neither read,
written nor connected (`Usable`, `Listens`), and closing it ends its listening, whoever
does it (`ClosedStopListening`). `Candidates` is the
allocation policy of the stack and the library, of which only this is assumed
(`CandidatesAssumption`): what is in use is not handed out.

### Runs

| run | instance | checks | result |
|---|---|---|---|
| `pool` | 2 clients, 6 sockets, 2 handles, 2 lines per buffer, sockets survive `net_deinit` | `TypeOK`, `PoolConsistent`, `SocketOwnership`, `FileOwnership`, `DataConnectionConsistent`, `UnauthenticatedHoldsNothing`, `RepliesOwed`, `TransfersAreSerial` | hold; 4.7 million states |
| `live` | 2 clients, 3 sockets handed out in any order, 1 handle, 1 line, `net_deinit` closes all sockets | `WaitingEnds`, `ResetExits`, `ListensAgain` under `FairSpec` | hold; 237,000 states |
| `exit` | 1 client, 4 sockets, 2 handles | `CleanExit` | violated, see section 9 |

Bounds. Two clients suffice for each way in which clients meet: a slot freed
between two others needs no third, as slots are interchangeable but for their
order. The server and two clients can use seven sockets at once (three for each
client): with six the descriptors do run out, when one client holds all its three
and the other wants its last, besides the failures the model may choose at every
allocation. Two lines in a buffer are the least for one to be pipelined
behind a transfer. There is no other bound: runs are infinite, and clients come
and go without limit.

The run `live` has fewer of everything, as liveness costs more. With three sockets for the
server and two clients, the clients have data connections at the same time only when
`net_deinit` has closed their sockets without telling them; what two clients do to each
other with sound sockets is in `pool`. The descriptors are handed out in any
order: with the lowest one first the server would always get back the number it had,
which no client has.

`SocketOwnership` and `DataConnectionConsistent` are checked with surviving
sockets only. In `live` they are false, as they must be. What can still be promised there
is that the server finds out when its listening socket is gone and listens again:
`Listening` asks that `server` names a socket that listens on the FTP port, not only an open
one. `ListensAgain` has one exception, `TakenOver`. A client that was cut off by
`net_deinit` and holds the server's number as that of its passive socket closes it
by PASV (`ftp.c:294`) and may get the same number for its new passive socket. `net_accept`
on it gives `-EAGAIN`, or takes data connections for FTP clients, and no error:
the server notices only when that socket is closed in turn. Without the exception TLC
finds the property false, in 26 steps. `FileOwnership` holds in that case too, which
section 10 proves.

### Fairness

`FairSpec` assumes:

* `WF(MainLoop)`: the program runs. Every action of the loop is the program's own
  next instruction. The return from `initialise_network` is not among them: it may retry
  for ever.
* `WF(ResetSeen)`: the loops of `initialise_network` end when the reset flag is set, as their
  conditions say (`net.c:43-53`); `create_server` is called then, too.
* `SF(ReadNothing(c))`: the input of a client runs dry infinitely often when it is
  asked infinitely often. The loop of `process_control_events` ends only on
  `-EAGAIN` or a transfer, so a client that sends faster than it is served keeps
  the program in it; the code does nothing about it, and the assumption says so.
* `WF(TimerExpires(c))`: time passes. `gettime()` is the hardware's time base.
* `SF(NetworkComesUp)`: a restart of the network succeeds sooner or later, if it
  is tried again and again, as `initialise_network` does. `ResetExits` needs none
  of this.

No fairness is assumed for peers that connect or for transfers that proceed. Calls
that block (`send_exact`, `recv_to_file`) are single steps that return: the models
do not say anything about a peer that stops the server inside of one.

## 4. ControlBuffer and LineStream

`ControlBuffer` has `buf` as an array with a small `FTP_BUFFER_SIZE`, and the loops
of `process_control_events` with the C library's view of it: `StringEnd` is
`strlen`, `Matches` is `strstr`, a line is cut off by a zero byte in place, and
`MoveRest` is the block at `ftp.c:845-850`. The buffer starts with garbage, as
`malloc` leaves it. What a command does is left open: the session goes on, a
transfer starts, or the client ends.

`LineStream` says what a client may rely on, without buffer, offsets or zero
bytes: the sequence of bytes sent and not executed, lines taken from its front one
by one, none while busy, and the four faults for which the server hangs up, each
with its condition. `ControlBuffer` implements it with the mapping
`pending <- buf[next..offset-1]`; moving the rest to the front is a stutter. That
this holds is where `strlen`, in-place zero bytes, and a buffer that is full could
each go wrong; section 10 proves it for every size of the buffer.

| run | instance | checks | result |
|---|---|---|---|
| `buffer` | 7 bytes; text, CR, LF, zero | `TypeOK`, `StringIsRest`, `NoLineLeftBehind`, `ImplementsLineStream` | hold; 550,000 states |

Seven bytes hold two commands of one letter with their CR LF, so that a transfer
command with another behind it, a line split at each place, a line that fills the
buffer exactly and one that is a byte too long all occur. The stream is unbounded.

`NoLineLeftBehind` is as much as the code gives. The state tells the places at the while
loop apart: `read`, where the for loop has ended since the last transfer, and `resumed`,
where a transfer has ended and nothing has been read since. In `read` no complete
line is in the buffer. In `resumed` there may be some: what a client has sent behind a
transfer command waits for its next bytes even after the transfer has ended
(`ftp.c:803-812`: the for loop comes after the read). A client that pipelines
`RETR` and `NOOP` and then waits gets the reply to `NOOP` only when it sends more.

## 5. FtpCommands

`session` has the fields of `client_struct` that one command writes and another
reads, `password` is the global one, and `history` is what each client has asked for:
nothing reads it but the properties. A command is one action. A freed client's
fields stay where they are, and `Accept` assigns what `process_accept_events`
assigns: the memory of a new client is what `malloc` returns, often that of the one
before, and a field that is not assigned would be inherited. The peers differ in the
passwords they know (`Knows`).

| run | instance | checks | result |
|---|---|---|---|
| `commands` | two sessions; one peer knows the only password, the other does not; two directories, one name, two addresses, one position | `LoginIsOwn`, `RenameIsWhatWasNamed`, `RestartUsedOnce`, `DataGoesWhereAsked` | hold; 797,000 states |

Two sessions are what it takes for one to change the password between the connection
and the login of another; a slot's next client is the third. Two directories and one
name give four names for two files: relative to each directory, and absolute.

The properties say what the code guarantees, which is less than one may expect:

* REIN resets the login, the directory and the passive socket, but keeps
  `pending_rename`, `restart_marker` and `address` for the next user of the connection;
* APPE neither uses nor clears `restart_marker`, nor does RETR when the file cannot be
  opened: a position given by REST may act on a later transfer;
* a relative name given to RNFR is resolved at RNTO, after any CWD in between
  (`moved` in `RenameIsWhatWasNamed`);
* a session that has logged in stays so when the password changes.

`told` is `NULL`, and `DataGoesWhereAsked` silent, after REIN and after a PASV that
failed: data then go to the address of an earlier PORT.

## 6. Mounts

The variables are those of `fs.c` and `dvd.c`: which partitions are mounted, the flags
`geckofail` and `inserted`, the dialogue, `_dvd_mountWait`. Times are reduced to what
is compared: `mount_timer` is off, running or expired; `recent` holds the file systems
of the disc that were accessed after `dvd_last_stopped`, and `idle` says that the last
access is `DVD_MOTOR_TIMEOUT` ago. `media` is what is in the devices, and changes by hand
at any moment. `at` is the place in the main loop, and each handler called there is an
action: `check_dvd_mount`, the SITE commands and reads of clients (any number of them),
two polls of buttons, `check_dvd_motor_timeout`, `check_mount_timer`,
`check_removable_devices`, and `Exit` with what follows the loop. The mounts inside of
`check_removable_devices` are one step with it, since nothing comes between.

The file system libraries are external: a mount may fail at any time, and succeeds
only with a medium in the device. An unmount may fail too and leave the file system
mounted (`Unmounted`), but for cards: `fatUnmount` and `ntfsUnmount` have no result. A
partition kind decides everything else, so the
constants are sets of partitions by kind: in an SD Gecko, other cards, fixed ones, and
the views that a disc has besides `/dvd` (`/wod` and `/fst`). The disc is always there.

| run | instance | checks | result |
|---|---|---|---|
| `mounts` | one SD Gecko, one fixed partition, the disc with two views | `TypeOK`, `DialogueConsistent`, `GeckoFailUnmounted`, `MotorJustified`, `WaitProtectsDisc`, `DialogueKeepsDevice`, and under `FairSpec` `DialogueEnds`, `RemovalNoticed`, `InsertionNoticed`, `MotorStops` | hold; 207,000 states |
| `disc_removal` | one card, the disc with three views | `DiscRemovalNoticed` under `FairSpec` | violated, see section 9 |
| `motor` | the disc with three views | `InactivityStopsMotor` under `FairSpec` | violated, see section 9 |

One partition of each kind suffices: partitions of a kind meet only in the dialogue,
which has one at a time. A card in an SD Gecko does all that another card does, and may be
given up besides; a disc needs two views for one to be mounted while the other is not, and
a third is treated as the second. Section 10 proves the safety properties for every set
of partitions. Nothing else is bounded.

`MotorStops` is about the drive: when it turns and nothing has been read for the
time of the timeout, it stops, or is used again, or a disc is waited for. It
needs a condition: every view that is mounted has been read or mounted since the drive was last
stopped. Without it the property is false, which is the finding of the run `motor`.
That a wait for a disc ends is not stated: it does when a drive with a
disc becomes ready, which only fairness could say.

`FairSpec` assumes that

* the loop runs (`WF` of its handlers), clients leave it time (`WF(FtpDone)`), and time
  passes (`WF` of the two timers);
* `SF(DeviceCheckSeesAll)`: the two seconds between checks pass, and the cover
  register can be read now and then.

Nothing is assumed of a drive that is waited for: no property says that it becomes ready.
No hand is forced: cards that are moved for ever satisfy `RemovalNoticed` and
`InsertionNoticed`, because they do not stay.

## 7. Transfer and FileTransfer

A call of `send_from_file` or `recv_to_file` is a run of steps, one for each call that
it makes to the stack or the C library: `fread`, `net_write` that takes some of the rest
(`WriteSome`), refuses the size (`WriteRefused`: `-EINVAL` is believed once, and for all
transfers, as `NET_BUFFER_SIZE` is global) or fails; `net_read` likewise. A socket is
made blocking for the loop of `transfer_exact` and non-blocking after it; an active
data socket is made non-blocking from the start (`ftp.c:348`), a passive one has the mode
that `net_accept` gives it, so `Start` leaves the mode open. `-EAGAIN` comes only from a socket that
does not block: in the middle of a buffer it would make `process_data_events` call again
and lose the rest of the buffer. Files are sequences of bytes, read to the end or to an
error; `eof` is `feof`.

`FileTransfer` is the promise: the content arrives in order, and the reply 226
(`ftp.c:792`) is given only when nothing is pending. `Transfer` implements it with
`pending` as what is in the buffer of the running call and in the source behind it.

| run | instance | checks | result |
|---|---|---|---|
| `transfer` | two clients; contents of 0, 3, 4, 6, 8 bytes; network buffers of 4 and 2 bytes, file buffer 4 | `ReadFitsBuffer`, `ImplementsFileTransfer`, `TransferEnds` | hold; 77,000 states |

The contents are empty, shorter than a buffer, a multiple of it (the end of the file is
then found by a read of nothing), and neither. All bytes of a content differ, so a part
that is lost, repeated or out of order shows. Two clients let one shrink the buffer size
between the calls of the other.

Fairness: `SF(Callback(c))`, as `process_ftp_events` comes round to every slot (strong,
because another client's call is in progress in between); `WF` of the steps of a call,
which are the program's own; and `SF(ReadSome(c) \/ ReadEnd(c))`, the peer of an upload
goes on. The last is an assumption about the world: the code has no timeout for a
connected transfer, and with a peer that stops, one that blocks the socket blocks the
program.

For an upload `arrived` means that `fwrite` took the bytes. The result of `fclose` is
ignored by the code (`ftp.c:664`), so 226 does not say that the last buffer of the C
library reached the device. `net_fcntl`, whose result is ignored too, is assumed to
succeed.

## 8. VirtualPath and CommandLine

Pure functions, checked against what they should compute for every input up to a bound.

`VirtualPath` has the automaton of `virtual_abspath`, character by character (`Switch`,
`Token`, `Scan`), with `normalised_path` and `curr_dir`; `to_real_path` with the table of
partitions (`RealPath`, once the path is normalised); and the working directory as the
only state, moved by CWD, CDUP and REIN. The reference has no automaton and no array: a
path is read into words (`Reading`), and at the end of a word (`Enter`) `..` drops the
last name, `.` and an empty word do nothing, and any other word is a name (`AbspathCorrect`).
The other properties compose the functions: the answer to PWD leads back (`PwdLeadsBack`),
no path leaves its partition or its array (`RealPathConfined`), what the root lists can be
reached (`ListedIsReachable`).

`AliasAssumption` is what the table in `fs.c:51-63` has: an alias is a slash and a name, the
prefix is that name, a colon and a slash, and no two aliases are alike in lower case.

`CommandLine` has `split` with `trim_pos` (`Scan`), and how the password is taken from the
name of the program's directory. Its state is a text that grows by a character: each state
is an input. The reference counts the places at which words begin (`Ordinal`): the word that
begins at the n-th of them is the n-th result, and from the last result's place on
everything is kept but the separators at the end.

Both automata are written as recursive functions over the positions of their input, so that
section 10 can prove about inputs of any length what the runs check about short ones.

| run | instance | checks | result |
|---|---|---|---|
| `paths` | `MAXPATHLEN` 9; aliases `/a` and `/ab`; in every directory, all paths of up to 3 of 6 characters, of up to 6 of slash, dot and letter, and absolute ones of every length up to 12 | `TypeOK`, `AbspathCorrect`, `PwdLeadsBack`, `RealPathConfined`, `ListedIsReachable` | hold; 2,131 directories |
| `cwd` | as `paths` | `CwdFits` | violated, see section 9 |
| `lines` | all texts of up to 7 of space, slash, `f`, `F`, `_` | `SplitCorrect`, `PasswordFromDirectory` | hold; 97,700 texts |

The automaton has four states and looks at one character and the last slash: six
characters reach every state twice with every kind of name before it. Nine characters
for a path put the limit where both relative and absolute paths of these lengths pass
it. One alias continues the other, in the order that an automaton without a look at the
next character would take wrongly. Seven characters give `split` three words with
separators before, between and behind them, one of which contains a space.

`CwdFits` says of `cwd` what `vrt.c:106` says of a path: that it fits into an array of
`MAXPATHLEN` bytes. It does not: `vrt_chdir` appends the slash to a path that fits without it.
`CwdLengthBounded` proves that it is never more than one byte too long.

## 9. Findings

* **A handle is forgotten** (`ftp.c:378`, run `exit`). When the socket of an
  active transfer cannot be made, `prepare_data_connection` returns the result of
  writing the 520 reply, which is not negative. Its callers close the file or
  directory only on a negative result, so it stays open, and nothing refers to it
  any more. `src/README.txt:73` says "Clean up open descriptors before exiting".
  `FileOwnership` holds nevertheless: no transfer uses a wrong handle.
* **A disc that is taken out during a wait is not noticed** (`fs.c:114`, run
  `disc_removal`). While `_dvd_mountWait` is set the cover register is not read, and
  `unmount` refuses the disc. When one of its views is mounted, SITE MOUNT of another
  may leave the wait behind; a disc that is then taken out stays mounted, and cannot be
  unmounted, until some disc is ready. `src/README.txt:52` says "Added detection of
  device removal and insertion for Front SD, SD Gecko, USB and DVD".
* **The drive may turn for ever** (`dvd.c:71`, run `motor`). The timeout comes only if the
  last access is later than `dvd_last_stopped`. SITE EJECT sets the latter, but a view of the disc
  may stay mounted: its unmount fails (`fs.c:195`), or a disc is being waited for, when
  `unmount` refuses (`fs.c:190`). When another view then fails to mount with the drive
  ready, the attempt has started the drive, and `mount` (`fs.c:150`) does not stop it, as the
  view that stayed has an access time. Nothing has been read since the last stop, so that the timeout
  never comes. `dvd.c:72` says "Stopping DVD drive motor after %u seconds of inactivity."
* **`cwd` is one byte too short** (`vrt.c:219`, run `cwd`). A directory whose path has
  `MAXPATHLEN - 1` characters passes `to_real_path`; with the slash it has `MAXPATHLEN`, and its
  zero byte is written behind `char cwd[MAXPATHLEN]` (`ftp.c:63`). `vrt.c:106` says "The resulting
  path will fit in an array of size MAXPATHLEN".

## 10. Proofs

Each theorem holds for every value of the constants, from the named assumptions of the
component's module and nothing else.

| module | theorem | statement |
|---|---|---|
| `FtpServerProofs` | `TypeCorrect` | `Spec => []TypeOK` |
| | `PoolConsistency` | `Spec => []PoolConsistent` |
| | `FileOwnershipHolds` | `Spec => []FileOwnership` |
| | `LoggedOutHoldsNothing` | `Spec => []UnauthenticatedHoldsNothing` |
| | `RepliesOwedHolds` | `Spec => []RepliesOwed` |
| | `SocketOwnershipHolds` | `SocketsSurviveDeinit => (Spec => []SocketOwnership)` |
| | `DataConnectionHolds` | `SocketsSurviveDeinit => (Spec => []DataConnectionConsistent)` |
| | `TransfersSerial` | `Spec => TransfersAreSerial` |
| `FtpCommandsProofs` | `TypeCorrect` | `Spec => []TypeOK` |
| | `LoginsAreOwn`, `RenamesAreNamed`, `RestartsAreOwn`, `DataGoWhereAsked` | the four invariants of the run `commands` |
| `MountsProofs` | `TypeCorrect` | `Spec => []TypeOK` |
| | `DialogueConsistency`, `GivenUpIsUnmounted`, `MotorIsJustified` | the other invariants of the run `mounts` |
| | `WaitIsProtected`, `DialogueDeviceKept` | its two action properties |
| `TransferProofs` | `Implementation` | `Spec => ImplementsFileTransfer` |
| | `ReadsFit` | `Spec => []ReadFitsBuffer` |
| `ControlBufferProofs` | `TypeCorrect` | `Spec => []TypeOK` |
| | `StringsAreRest` | `Spec => []StringIsRest` |
| | `LinesAreExecuted` | `Spec => []NoLineLeftBehind` |
| | `Implementation` | `Spec => ImplementsLineStream` |
| `VirtualPathProofs` | `TypeCorrect` | `Spec => []TypeOK` |
| | `CwdLengthBounded` | `Spec => []CwdLength` |
| | `AbspathIsCorrect` | `Spec => []AbspathCorrect` |
| | `PwdIsUnique` | `Spec => []PwdLeadsBack` |
| | `RealPathsAreConfined` | `Spec => []RealPathConfined` |
| | `ListedAreReachable` | `Spec => []ListedIsReachable` |
| `CommandLineProofs` | `SplitIsCorrect` | `Spec => []SplitCorrect` |
| | `PasswordIsFromDirectory` | `Spec => []PasswordFromDirectory` |

**FtpServerProofs.** For every number of slots, every set of descriptors and handles,
every buffer size, every allocation policy and either behaviour of `net_deinit`. None of
the properties is inductive alone. `IInv` joins them, with `ClientInv` for
each record: between transfers there is no handle (else cleaning up an idle client
would close another client's file); during one there is a data socket (else
connecting would not be type correct); and a session that is not logged in has no
transfer (else REIN, which is refused nowhere, would have to close it). `num_clients
\in 0..MAX_CLIENTS` is not proved step by step but follows from `PoolConsistent` and
the cardinality of a subset of the slots. `owed \in {0, 1}` follows from `RepliesOwed`.
The argument goes along the two ways in which an action leaves a client: `KeepPool`
(the client keeps its slot with a new record) and `CleanupPool` (the slot is
freed). Each states once what a step has to guarantee to the other clients; the
lemmas for the actions show that they do.

Its second half is about the sockets. `SocketInv` joins ownership and the state of the data connection:
each needs the other, as what a cleanup closes is what the record says. The open
sockets are *divided* among the clients and the server (`Divided`), and an action
replaces one owner's part by another that nobody else has (`ChangeOwner`, `Replaces`). The
two invariants are stated under `SocketsSurviveDeinit` because they are false without it;
`TransfersSerial` needs no such condition.

**FtpCommandsProofs.** `SessionInv` is about one session and its history. The one
strengthening is that a client that could log in now is `admitted` already: without it
PASS would have nothing to go by. It is what makes a change of the password by another
session the hard case.

**MountsProofs.** The invariant is split into what is about the file systems (`FsInv`)
and the dialogue (`DialogueInv`), as most handlers touch one of them. Mounting and
unmounting are lemmas of their own, used for clients, dialogue, timers and exit.

**TransferProofs.** `CallOK` says of a call in progress that its transfer runs, that its
socket blocks while `buf` is sent (else `-EAGAIN` could lose the rest), that the end of
the file is known only when nothing is left in it (else a short read could be confirmed),
and that the buffer of a read is not shorter than `NET_BUFFER_SIZE`, which only shrinks.
Every step then maps to a step of `FileTransfer` or to a stutter, with one lemma on
sequences: what is before a place and what is behind it are the whole (`UptoFrom`).

**ControlBufferProofs.** For every size of the buffer and every set of bytes. `IInv` is
`TypeOK` with `BufferInv`: while lines are executed there is a zero byte at `offset`, and what
`strlen`, `strstr` and `strchr` see from `next` on is what has been received and not executed;
while a transfer runs or a read is due, the buffer begins with it; no complete line is in it
when one read follows another, also when it is full; and a command that starts a transfer
leaves room for the next read, as it has been taken from the front. The C library is three lemmas (`StringEndIs`,
`MatchInside`, `FirstMatchIsFirstLine`), and the buffer's content is a sequence cut out of the array (`Segment`).
The refinement maps every action to one of `LineStream` or, where the rest is
moved to the front, to a stutter.

**Induction.** What the two modules below compute, they compute by a loop over a string, and
the library's induction theorems take an operator as a parameter, which the provers cannot
instantiate. Here induction is stated with sets instead (`SetInduction`, `BoundedInduction`,
`SequenceInduction`), from the well-foundedness of the natural numbers. `RunExists` says
that a recursive definition over the positions of a sequence has a solution, which is what
makes `Scan`, `Reading` and `Spelled` functions about which something can be proved.

**VirtualPathProofs.** For all paths over all characters, any table and any `MAXPATHLEN`. The
core is a simulation: the automaton is always where `AutoAt` puts it for the names and the
word that have been read so far (`Simulation`), so `curr_dir` points to the slash before the
last name whenever `..` needs it. With it
`Normalised(path) = Joined(Names(path))` (`NormalisedIs`). `AbspathCorrect` is not about
every `cwd`: what is normalised is `cwd` followed by the path, and that this means following
the path from the names of `cwd` needs a `cwd` that ends with a slash. `IInv` says that
it is spelled as its names are, over characters without the colon, and that `to_real_path` has
found it. The second part is what bounds its length (`CwdLengthBounded`), and what makes CWD to
the answer to PWD succeed. `RealPathConfined` rests on `SlashDivides`: a slash divides a path
of names between two of them.

**CommandLineProofs.** For all texts over any alphabet; `SplitIs` is for every separator and
every number of words. `Found` says what the results are after n characters: those up to
`maxsplit` are words, ended or in progress; the last one is all from its beginning on; and `trim_pos`
is the place behind its last character that is no separator, or 0 if it ends with such a
character. `FoundStep` proves it for one character more, case by case of the code's
branches. The hard case is the last result: `in_word` stays set, and `trim_pos`, set by
the first separator of a row, has to be forgotten when a word follows.

Only model-checked: liveness (`WaitingEnds`, `ResetExits`, `ListensAgain`,
`TransferEnds`, and the last four of `mounts`), which is beyond the prover. Every invariant,
every action property and every refinement that a passing run checks is proved.

## 11. Not modelled

* What `malloc` does when there is no memory: in `vrt.c` the result is the same as for a
  path that is too long.
* `passive_port`, which wraps around after 64512 uses, and `representation_type`, which is
  written and never read.
* The layer between a button and its handlers, and the power flag (section 2).
* `fclose` and `net_fcntl` failing, with results that the code ignores (section 7).
* The copying of DOL sections (`dol.c`, `loader.c`, `preloader.c`): memory that no other
  part sees. That SITE LOAD leaves the program is in `FtpServer`.
* The start-up of video, controllers and libraries, console output, and the build.
