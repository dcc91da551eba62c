----------------------------- MODULE FtpServer -----------------------------
(***************************************************************************)
(* The FTP server of source/ftp.c inside the main loop of source/ftpii.c:  *)
(* the pool of clients, the control connection and the data connection of  *)
(* each client, and the resources they hold (sockets, FILE and DIR_ITER    *)
(* handles).                                                               *)
(*                                                                         *)
(* The program is single threaded.  One pass of the main loop accepts      *)
(* connections (turn = 0), visits every slot of clients[] (turn = its      *)
(* number) and returns to the top of the loop (turn = Last).  Every        *)
(* handler is one action.  The network stack, the disk, the peers and the  *)
(* clock are the environment: each call to them may give any of the        *)
(* results the code distinguishes.                                         *)
(***************************************************************************)
EXTENDS Integers, FiniteSets

CONSTANTS
  MAX_CLIENTS,          \* number of slots of clients[]
  Sockets,              \* descriptors the network stack can hand out
  Files,                \* FILE and DIR_ITER handles the C library can hand out
  MaxLines,             \* command lines that fit client->buf together
  Candidates(_, _),     \* Candidates(pool, used): what may be handed out next
  SocketsSurviveDeinit, \* does net_deinit() leave open sockets alone?
  NULL                  \* no client, no socket (-1), no handle

Slots     == 1..MAX_CLIENTS
Last      == MAX_CLIENTS + 1
Callbacks == {"list", "file"}

\* struct client_struct.  lines counts the complete command lines in
\* client->buf.  callback is data_callback: "list" is send_list or send_nlst,
\* which finish in one call, "file" is send_from_file or recv_to_file, which
\* may return -EAGAIN.
\* arg is data_connection_callback_arg, and also stands for the cleanup
\* function, set and cleared with it.  cwd, pending_rename, restart_marker,
\* representation_type and address are left out: nothing here tests them.
Client ==
  [socket         : Sockets,
   authenticated  : BOOLEAN,
   lines          : 0..MaxLines,
   passive_socket : Sockets \cup {NULL},
   data_socket    : Sockets \cup {NULL},
   connected      : BOOLEAN,
   callback       : Callbacks \cup {"none"},
   arg            : Files \cup {NULL},
   timer          : {"off", "running", "expired"}]

ASSUME PoolAssumption == MAX_CLIENTS \in Nat \ {0} /\ MaxLines \in Nat \ {0}

ASSUME NullAssumption == NULL \notin Sockets \cup Files /\ NULL \notin Client

ASSUME DeinitAssumption == SocketsSurviveDeinit \in BOOLEAN

\* A descriptor in use is never handed out again before it is closed.
ASSUME CandidatesAssumption ==
  /\ \A used \in SUBSET Sockets : Candidates(Sockets, used) \subseteq Sockets \ used
  /\ \A used \in SUBSET Files : Candidates(Files, used) \subseteq Files \ used

VARIABLES
  clients,       \* clients[]
  num_clients,   \* num_clients
  sockets,       \* the sockets that are open, as the network stack sees it
  port,          \* what each of them listens on: PORT, a passive port or nothing
  files,         \* the handles that are open, as the C library sees it
  server,        \* the listening socket of main()
  network_down,  \* network_down of main()
  turn,          \* where the main loop is
  step,          \* "read" or "lines": where process_control_events is
  reset,         \* _reset
  phase,         \* "running", "initialising" (in initialise_network), "exited",
                 \* "halted" (in die()), "died", "replaced"
  owed           \* history: final replies owed to each client

pool  == <<clients, num_clients, sockets, port, files, owed>>
main  == <<server, network_down, phase>>
vars  == <<pool, main, turn, step, reset>>

Init ==
  /\ clients = [c \in Slots |-> NULL]
  /\ num_clients = 0
  /\ sockets = {} /\ files = {}
  /\ port = [s \in Sockets |-> "none"]
  /\ server = NULL /\ network_down = TRUE
  /\ turn = Last /\ step = "read"
  /\ reset = FALSE /\ phase = "running"
  /\ owed = [c \in Slots |-> 0]

Present == {c \in Slots : clients[c] # NULL}

-----------------------------------------------------------------------------
(* The network stack                                                       *)

\* A socket that is closed listens no more, whoever has closed it.
ClosedStopListening ==
  port' = [s \in Sockets |-> IF s \in sockets' THEN port[s] ELSE "none"]

\* Reads, writes and connects succeed, or give -EAGAIN, on open sockets only, and
\* on none that listens; net_accept on open sockets that listen.  A number that is
\* stale, because net_deinit has closed it, may have been handed out again.
Usable(s, open) == s \in open /\ port[s] = "none"

Listens(s) == s \in sockets /\ port[s] # "none"

-----------------------------------------------------------------------------
(* Closing and replying                                                    *)

\* Mutant: the passive socket is closed like any other data socket.
ClosesPassiveSocketToo(cl) == {cl.data_socket}

\* What cleanup_data_resources closes: the data socket, unless it is the
\* passive socket that is still waiting for its connection.
DataSocketToClose(cl) == {cl.data_socket} \ {cl.passive_socket}

\* Mutant: data_callback is not cleared.
KeepsCallback(cl) ==
  [cl EXCEPT !.data_socket = NULL, !.connected = FALSE, !.arg = NULL, !.timer = "off"]

\* Mutant: data_connection_connected is not cleared.
KeepsConnected(cl) ==
  [cl EXCEPT !.data_socket = NULL, !.callback = "none", !.arg = NULL, !.timer = "off"]

CleanupDataResources(cl) ==
  [cl EXCEPT !.data_socket = NULL, !.connected = FALSE, !.callback = "none",
             !.arg = NULL, !.timer = "off"]

\* cleanup_client: what is still open once the client is gone.
SocketsAfter(cl, open) ==
  ((open \ {cl.socket}) \ DataSocketToClose(cl)) \ {cl.passive_socket}

\* Mutant: num_clients is not decremented.
KeepsCount(c, cl, open, handles) ==
  /\ clients' = [clients EXCEPT ![c] = NULL]
  /\ sockets' = SocketsAfter(cl, open)
  /\ files' = handles \ {cl.arg}
  /\ owed' = [owed EXCEPT ![c] = 0]
  /\ UNCHANGED num_clients

CleanupClient(c, cl, open, handles) ==
  /\ clients' = [clients EXCEPT ![c] = NULL]
  /\ num_clients' = num_clients - 1
  /\ sockets' = SocketsAfter(cl, open)
  /\ files' = handles \ {cl.arg}
  /\ owed' = [owed EXCEPT ![c] = 0]

\* The client lives on with the state cl; n final replies are then owed.
Keep(c, cl, open, handles, n) ==
  /\ clients' = [clients EXCEPT ![c] = cl]
  /\ sockets' = open
  /\ files' = handles
  /\ owed' = [owed EXCEPT ![c] = n]
  /\ UNCHANGED num_clients

\* recv_loop_end of process_control_events: the visit of slot c is over.
Disconnect(c, cl, open, handles) ==
  /\ CleanupClient(c, cl, open, handles)
  /\ turn' = c + 1
  /\ step' = "read"

\* The command handler returned >= 0: go on with the next line of the buffer
\* unless a transfer has started.
NextLine(c, cl, open, handles, n) ==
  /\ Keep(c, cl, open, handles, n)
  /\ turn' = IF cl.callback = "none" THEN c ELSE c + 1
  /\ step' = IF cl.callback = "none" /\ cl.lines > 0 THEN "lines" ELSE "read"

\* A command answered by its final reply: write_reply either succeeds or makes
\* process_control_events close the client.
Answered(c, cl, open, handles) ==
  \/ Usable(cl.socket, open) /\ NextLine(c, cl, open, handles, owed[c])
  \/ Disconnect(c, cl, open, handles)

-----------------------------------------------------------------------------
(* Accepting clients: process_accept_events, with turn = 0                 *)

Accepting == phase = "running" /\ turn = 0

\* net_accept gives a socket and the 220 greeting is written: the client takes
\* the first empty slot and the loop goes on.  When the greeting fails the
\* socket is closed and freed again, a step that changes nothing.
AcceptClient ==
  /\ Accepting /\ Listens(server)
  /\ num_clients < MAX_CLIENTS
  /\ \E c \in Slots, s \in Candidates(Sockets, sockets) :
       /\ clients[c] = NULL
       /\ \A d \in Slots : d < c => clients[d] # NULL
       /\ clients' = [clients EXCEPT ![c] =
            [socket |-> s, authenticated |-> FALSE, lines |-> 0,
             passive_socket |-> NULL, data_socket |-> NULL, connected |-> FALSE,
             callback |-> "none", arg |-> NULL, timer |-> "off"]]
       /\ sockets' = sockets \cup {s}
  /\ num_clients' = num_clients + 1
  /\ UNCHANGED <<port, files, owed, main, turn, step, reset>>

\* -EAGAIN, or a peer turned away (closed at once) because the pool is full or
\* malloc failed: on to the first slot.
AcceptDone ==
  /\ Accepting /\ Listens(server)
  /\ turn' = 1
  /\ UNCHANGED <<pool, main, step, reset>>

\* Mutant: only some error codes are taken as the network being down.
SomeErrorsIgnored ==
  /\ Accepting
  /\ turn' = 1
  /\ network_down' \in BOOLEAN
  /\ UNCHANGED <<pool, server, phase, step, reset>>

\* Any other error is taken as the network being down.
AcceptError ==
  /\ Accepting
  /\ turn' = 1
  /\ network_down' = TRUE
  /\ UNCHANGED <<pool, server, phase, step, reset>>

-----------------------------------------------------------------------------
(* The control connection: process_control_events of slot c                *)

Visiting(c) == phase = "running" /\ turn = c /\ clients[c] # NULL

Transferring(c) == clients[c] # NULL /\ clients[c].callback # "none"

\* An empty slot is skipped.
SkipSlot(c) ==
  /\ phase = "running" /\ turn = c /\ clients[c] = NULL
  /\ turn' = c + 1
  /\ UNCHANGED <<pool, main, step, reset>>

\* Mutant: the test of data_callback before net_read is missing.
ReadsDuringTransfer(c) == Visiting(c) /\ step = "read"

Reading(c) == Visiting(c) /\ ~Transferring(c) /\ step = "read"

Connected(c) == Usable(clients[c].socket, sockets)

\* net_read gives -EAGAIN.  Lines left over from before a transfer stay where
\* they are: they are looked at only after the next successful read.
ReadNothing(c) ==
  /\ Reading(c) /\ Connected(c)
  /\ turn' = c + 1
  /\ UNCHANGED <<pool, main, step, reset>>

\* net_read gives bytes that complete some number of lines, possibly none.
ReadLines(c) ==
  /\ Reading(c) /\ Connected(c)
  /\ \E n \in clients[c].lines..MaxLines :
       /\ clients' = [clients EXCEPT ![c].lines = n]
       /\ step' = IF n = 0 THEN "read" ELSE "lines"
  /\ UNCHANGED <<num_clients, sockets, port, files, owed, main, turn, reset>>

\* An error, the end of the stream, a null byte or a line that is too long.
ReadFails(c) ==
  /\ Reading(c)
  /\ Disconnect(c, clients[c], sockets, files)
  /\ ClosedStopListening
  /\ UNCHANGED <<main, reset>>

\* The condition of the for loop: there is a line and no transfer has started.
AtLine(c) == Visiting(c) /\ ~Transferring(c) /\ step = "lines" /\ clients[c].lines > 0

\* A line with a bare line feed in it closes the client.
RejectLine(c) ==
  /\ AtLine(c)
  /\ Disconnect(c, clients[c], sockets, files)
  /\ ClosedStopListening
  /\ UNCHANGED <<main, reset>>

Taken(c) == [clients[c] EXCEPT !.lines = @ - 1]

\* USER, SYST, TYPE, MODE, PWD, CWD, CDUP, DELE, MKD, RMD, RNFR, RNTO, SIZE, REST,
\* NOOP, ALLO, SITE CLEAR, CHMOD, PASSWD, NOPASSWD, EJECT, MOUNT, UNMOUNT, unknown
\* commands, and every command refused before it has touched a resource.
ReplyOnly(c) == Answered(c, Taken(c), sockets, files)

\* An empty line is dropped without a reply.
DropEmptyLine(c) == NextLine(c, Taken(c), sockets, files, owed[c])

\* The outcome of compare_ftp_password is left open; a wrong password does not
\* log a session out.
ftp_PASS(c) ==
  Answered(c, [Taken(c) EXCEPT !.authenticated = TRUE], sockets, files)

WithoutPassive(cl) == [cl EXCEPT !.passive_socket = NULL]

\* close_passive_socket
ClosePassive(c) == sockets \ {clients[c].passive_socket}

\* Mutant: REIN forgets the passive socket.
KeepsPassive(cl) == [cl EXCEPT !.authenticated = FALSE]

LoggedOut(cl) == [WithoutPassive(cl) EXCEPT !.authenticated = FALSE]

ftp_REIN(c) == Answered(c, LoggedOut(Taken(c)), ClosePassive(c), files)

ftp_QUIT(c) == Disconnect(c, Taken(c), sockets, files)

\* The new listening socket, or none when net_socket, net_bind or net_listen
\* fails (the socket is then closed again).
ftp_PASV(c) ==
  \/ /\ Answered(c, WithoutPassive(Taken(c)), ClosePassive(c), files)
     /\ ClosedStopListening
  \/ \E s \in Candidates(Sockets, ClosePassive(c)) :
       /\ Answered(c, [Taken(c) EXCEPT !.passive_socket = s], ClosePassive(c) \cup {s}, files)
       /\ port' = [t \in Sockets |-> IF t \notin sockets' THEN "none"
                                     ELSE IF t = s THEN "data" ELSE port[t]]

\* A well-formed address; a malformed one is a ReplyOnly.
ftp_PORT(c) == Answered(c, WithoutPassive(Taken(c)), ClosePassive(c), files)

-----------------------------------------------------------------------------
(* Transfer commands                                                       *)

\* The socket that will carry the transfer: the passive socket, from which the
\* connection is accepted later, or a new one to connect to the client.
DataSockets(c) ==
  IF clients[c].passive_socket # NULL THEN {clients[c].passive_socket}
  ELSE Candidates(Sockets, sockets)

\* Mutant: the caller closes f although the transfer goes on.
ClosesHandle(c, cb, f) ==
  \E s \in DataSockets(c) :
    NextLine(c,
             [Taken(c) EXCEPT !.data_socket = s, !.callback = cb, !.arg = f,
                              !.connected = FALSE, !.timer = "running"],
             sockets \cup ({s} \ {clients[c].passive_socket}), files, owed[c] + 1)

\* prepare_data_connection for the open handle f, and its caller's reaction.
\* When net_socket or net_bind fails in prepare_data_connection_active, the
\* result is that of write_reply(520): nonnegative, so that the caller does not
\* close f, although no client refers to it.
prepare_data_connection(c, cb, f) ==
  \/ \E s \in DataSockets(c) :
       /\ Connected(c)
       /\ NextLine(c,
                   [Taken(c) EXCEPT !.data_socket = s, !.callback = cb, !.arg = f,
                                    !.connected = FALSE, !.timer = "running"],
                   sockets \cup ({s} \ {clients[c].passive_socket}),
                   files \cup {f}, owed[c] + 1)
  \/ /\ clients[c].passive_socket = NULL /\ Connected(c)
     /\ NextLine(c, Taken(c), sockets, files \cup {f}, owed[c])
  \/ Disconnect(c, Taken(c), sockets, files) \* 150 or 520 not written: f closed

\* ftp_LIST, ftp_NLST, ftp_RETR, ftp_STOR and ftp_APPE.  Failing to open the
\* file or directory, or to seek, is a ReplyOnly (550).
StartTransfer(c, cb) ==
  \E f \in Candidates(Files, files) : prepare_data_connection(c, cb, f)

\* SITE LOAD: when the image loads, run_dol leaves the program for good.
ftp_SITE_LOAD(c) ==
  /\ \E f \in Candidates(Files, files) : files' = files \cup {f}
  /\ phase' = "replaced"
  /\ UNCHANGED <<clients, num_clients, sockets, port, owed, server, network_down, turn, step, reset>>

\* The reset flag is set whether or not the reply could be written.
ftp_SITE_LOADER(c) ==
  /\ reset' = TRUE
  /\ Answered(c, Taken(c), sockets, files)

\* dispatch_to_handler: the first table for every session, the second for
\* authenticated sessions only.
process_command(c) ==
  /\ AtLine(c)
  /\ \/ /\ \/ ReplyOnly(c) \/ DropEmptyLine(c)
           \/ ftp_PASS(c) \/ ftp_REIN(c) \/ ftp_QUIT(c)
        /\ ClosedStopListening
        /\ UNCHANGED <<main, reset>>
     \/ /\ clients[c].authenticated
        /\ \/ ftp_PASV(c) /\ UNCHANGED <<main, reset>>
           \/ /\ \/ ftp_PORT(c)
                 \/ \E cb \in Callbacks : StartTransfer(c, cb)
              /\ ClosedStopListening
              /\ UNCHANGED <<main, reset>>
           \/ ftp_SITE_LOADER(c) /\ ClosedStopListening /\ UNCHANGED main
           \/ ftp_SITE_LOAD(c)

-----------------------------------------------------------------------------
(* The data connection: process_data_events of slot c                      *)

Waiting(c) == Transferring(c) /\ ~clients[c].connected

DataEvent(c) ==
  /\ Visiting(c) /\ Transferring(c)
  /\ turn' = c + 1
  /\ UNCHANGED <<main, step, reset>>

\* net_accept on the passive socket gives the data socket.
DataAccepted(c) ==
  /\ DataEvent(c)
  /\ Waiting(c) /\ clients[c].passive_socket # NULL /\ Listens(clients[c].passive_socket)
  /\ \E s \in Candidates(Sockets, sockets) :
       Keep(c, [clients[c] EXCEPT !.data_socket = s, !.connected = TRUE],
            sockets \cup {s}, files, owed[c])
  /\ UNCHANGED port

\* net_connect on the data socket is done.
DataConnected(c) ==
  /\ DataEvent(c)
  /\ Waiting(c) /\ clients[c].passive_socket = NULL /\ Usable(clients[c].data_socket, sockets)
  /\ Keep(c, [clients[c] EXCEPT !.connected = TRUE], sockets, files, owed[c])
  /\ UNCHANGED port

\* Mutant: the timer is not looked at.
WaitsForever(c) ==
  /\ DataEvent(c)
  /\ Waiting(c)
  /\ UNCHANGED pool

\* Not connected yet, and 30 seconds have not passed.
DataPending(c) ==
  /\ DataEvent(c)
  /\ Waiting(c)
  /\ clients[c].timer # "expired"
  /\ UNCHANGED pool

\* The callback returned -EAGAIN: the rest follows in later passes.
TransferContinues(c) ==
  /\ DataEvent(c)
  /\ clients[c].connected /\ Usable(clients[c].data_socket, sockets)
  /\ clients[c].callback = "file"
  /\ UNCHANGED pool

\* Mutant: the transfer ends without a reply.
EndsSilently(c) ==
  /\ DataEvent(c)
  /\ Keep(c, CleanupDataResources(clients[c]), sockets \ DataSocketToClose(clients[c]),
          files \ {clients[c].arg}, owed[c])
  /\ ClosedStopListening

\* The transfer is complete (226), or it failed, could not connect or has timed
\* out (520).
TransferEnds(c) ==
  /\ DataEvent(c)
  /\ LET cl    == CleanupDataResources(clients[c])
         open  == sockets \ DataSocketToClose(clients[c])
         still == files \ {clients[c].arg}
     IN \/ Usable(cl.socket, open) /\ Keep(c, cl, open, still, owed[c] - 1)
        \/ CleanupClient(c, cl, open, still)
  /\ ClosedStopListening

\* gettime() passes data_connection_timer, which is read only while waiting.
TimerExpires(c) ==
  /\ phase \in {"running", "initialising"}
  /\ Waiting(c) /\ clients[c].timer = "running"
  /\ clients' = [clients EXCEPT ![c].timer = "expired"]
  /\ UNCHANGED <<num_clients, sockets, port, files, owed, main, turn, step, reset>>

-----------------------------------------------------------------------------
(* The main loop, at the test of its condition                             *)

AtLoopTest == phase = "running" /\ turn = Last

\* Mutant: the condition of the main loop does not test reset().
LoopsOnReset ==
  /\ AtLoopTest /\ ~network_down
  /\ turn' = 0
  /\ UNCHANGED <<pool, main, step, reset>>

NextPass ==
  /\ AtLoopTest /\ ~reset /\ ~network_down
  /\ turn' = 0
  /\ UNCHANGED <<pool, main, step, reset>>

\* The network is down: the server socket is closed, and initialise_network starts
\* with net_deinit.  (In the program server keeps its number, which nobody looks at.)
RestartNetwork ==
  /\ AtLoopTest /\ ~reset /\ network_down
  /\ phase' = "initialising"
  /\ server' = NULL
  /\ sockets' = IF SocketsSurviveDeinit THEN sockets \ {server} ELSE {}
  /\ ClosedStopListening
  /\ UNCHANGED <<clients, num_clients, files, owed, network_down, turn, step, reset>>

\* initialise_network retries net_deinit, net_init and net_gethostip, which changes
\* nothing any more, until they succeed or the reset flag is set; see Fairness.
\* create_server follows in either case: all its calls succeed; or net_bind or
\* net_listen fails, and the main loop tries again; or net_socket fails: die().
create_server ==
  /\ phase = "initialising"
  /\ \/ \E s \in Candidates(Sockets, sockets) :
          /\ server' = s
          /\ sockets' = sockets \cup {s}
          /\ port' = [port EXCEPT ![s] = "ftp"]
          /\ network_down' = FALSE
          /\ phase' = "running" /\ turn' = 0
     \/ /\ phase' \in {"running", "halted"}
        /\ UNCHANGED <<server, sockets, port, network_down, turn>>
  /\ UNCHANGED <<clients, num_clients, files, owed, step, reset>>

\* cleanup_ftp and net_close(server) at the end of main().
Exit ==
  /\ AtLoopTest /\ reset
  /\ phase' = "exited"
  /\ clients' = [c \in Slots |-> NULL]
  /\ num_clients' = num_clients - Cardinality(Present)
  /\ sockets' = {s \in sockets \ {server} :
                   \A c \in Present : s \in SocketsAfter(clients[c], sockets)}
  /\ files' = files \ {clients[c].arg : c \in Present}
  /\ owed' = [c \in Slots |-> 0]
  /\ server' = NULL
  /\ ClosedStopListening
  /\ UNCHANGED <<network_down, turn, step, reset>>

\* die() waits for a reset and leaves without any cleanup.
Die ==
  /\ phase = "halted" /\ reset
  /\ phase' = "died"
  /\ UNCHANGED <<pool, server, network_down, turn, step, reset>>

\* The callbacks of the reset and power buttons, and button A of a controller.
set_reset_flag ==
  /\ ~reset
  /\ reset' = TRUE
  /\ UNCHANGED <<pool, main, turn, step>>

Terminated ==
  /\ phase \in {"exited", "died", "replaced"}
  /\ UNCHANGED vars

-----------------------------------------------------------------------------

process_accept_events == AcceptClient \/ AcceptDone \/ AcceptError

process_control_events(c) ==
  ReadNothing(c) \/ ReadLines(c) \/ ReadFails(c) \/ RejectLine(c) \/ process_command(c)

process_data_events(c) ==
  DataAccepted(c) \/ DataConnected(c) \/ DataPending(c) \/ TransferContinues(c) \/ TransferEnds(c)

MainLoop ==
  \/ process_accept_events
  \/ \E c \in Slots : SkipSlot(c) \/ process_control_events(c) \/ process_data_events(c)
  \/ NextPass \/ RestartNetwork \/ Exit \/ Die

Next ==
  \/ MainLoop
  \/ create_server
  \/ set_reset_flag
  \/ \E c \in Slots : TimerExpires(c)
  \/ Terminated

Spec == Init /\ [][Next]_vars

-----------------------------------------------------------------------------
(* Fairness.  The loop never stops by itself; a peer's input runs dry sooner *)
(* or later; time passes; the network can be brought up again.  That         *)
(* initialise_network returns is assumed only then, and when its loops see   *)
(* the reset flag.                                                           *)

NetworkComesUp == create_server /\ server' # NULL

ResetSeen == reset /\ create_server

Fairness ==
  /\ WF_vars(MainLoop) /\ WF_vars(ResetSeen)
  /\ SF_vars(NetworkComesUp)
  /\ \A c \in Slots : SF_vars(ReadNothing(c)) /\ WF_vars(TimerExpires(c))

FairSpec == Spec /\ Fairness

-----------------------------------------------------------------------------
(* Properties                                                              *)

\* Type invariant: the variables of ftp.c and main() keep their ranges.
TypeOK ==
  /\ clients \in [Slots -> Client \cup {NULL}]
  /\ num_clients \in 0..MAX_CLIENTS
  /\ sockets \in SUBSET Sockets
  /\ port \in [Sockets -> {"none", "ftp", "data"}]
  /\ files \in SUBSET Files
  /\ server \in Sockets \cup {NULL}
  /\ network_down \in BOOLEAN
  /\ turn \in 0..Last
  /\ step \in {"read", "lines"}
  /\ reset \in BOOLEAN
  /\ phase \in {"running", "initialising", "exited", "halted", "died", "replaced"}
  /\ owed \in [Slots -> {0, 1}]

\* num_clients, which decides whether a peer is turned away, counts the slots in
\* use, whichever path (greeting, reply, read error, QUIT, data event) ends a
\* client: process_accept_events always finds an empty slot when it looks for one.
PoolConsistent == num_clients = Cardinality(Present)

\* The sockets a client is responsible for.
SocketsOf(c) ==
  IF clients[c] = NULL THEN {}
  ELSE {clients[c].socket, clients[c].passive_socket, clients[c].data_socket} \ {NULL}

\* No descriptor has two owners, so that no cleanup closes a socket of somebody
\* else; PASV, transfers and disconnects neither leak a socket nor leave a client
\* with a closed one.
SocketOwnership ==
  /\ sockets = (UNION {SocketsOf(c) : c \in Slots}) \cup ({server} \ {NULL})
  /\ \A c, d \in Slots : c # d => SocketsOf(c) \cap SocketsOf(d) = {}
  /\ \A c \in Slots : server \notin SocketsOf(c)

\* The handle of a transfer is open and is used by that transfer only: no callback
\* runs on a handle that fclose or vrt_dirclose has had.
FileOwnership ==
  \A c \in Slots : Transferring(c) =>
    /\ clients[c].arg \in files
    /\ \A d \in Slots \ {c} : Transferring(d) => clients[d].arg # clients[c].arg

\* Between transfers nothing of the last one is left behind, and during one the
\* data socket is the passive socket exactly until the connection is accepted:
\* what cleanup_data_resources relies on to close the right sockets.
DataConnectionConsistent ==
  \A c \in Present :
    LET cl == clients[c] IN
    /\ cl.socket \notin {cl.passive_socket, cl.data_socket}
    /\ IF cl.callback = "none"
       THEN /\ cl.data_socket = NULL /\ cl.arg = NULL
            /\ ~cl.connected /\ cl.timer = "off"
       ELSE /\ cl.data_socket # NULL /\ cl.timer # "off"
            /\ cl.passive_socket # NULL =>
                 (cl.data_socket = cl.passive_socket <=> ~cl.connected)

\* A session that is not logged in has no passive socket and no transfer, also
\* after REIN: REIN is not looked at during a transfer and closes the listener.
UnauthenticatedHoldsNothing ==
  \A c \in Present :
    ~clients[c].authenticated =>
      clients[c].passive_socket = NULL /\ ~Transferring(c)

\* Every command gets one final reply.  One is outstanding exactly while a transfer
\* announced by 150 runs; 226 or 520 follows, unless the connection is closed.
RepliesOwed ==
  \A c \in Slots : owed[c] = IF Transferring(c) THEN 1 ELSE 0

\* While a transfer runs no command of that client is executed, pipelined ones
\* included (ftp_QUIT's "dont quit if xfer in progress"): they wait in the buffer.
TransfersAreSerial ==
  [][\A c \in Slots :
       Transferring(c) /\ clients'[c] # NULL =>
         /\ clients'[c].lines = clients[c].lines
         /\ clients'[c].authenticated = clients[c].authenticated
         /\ clients'[c].passive_socket = clients[c].passive_socket]_vars

\* The main loop is left for good.
Stopped == phase \in {"exited", "halted", "died", "replaced"}

\* README.txt: "Added 30 second data connection timeout".  A client that never
\* opens its data connection does not block its session.
WaitingEnds ==
  \A c \in Slots : Waiting(c) ~> (~Waiting(c) \/ Stopped)

\* The reset button, A, or SITE LOADER leaves the program, whatever the clients
\* are doing and whatever state the network is in: the main loop, the loops of
\* initialise_network and die() look at the flag.  (A call into the network stack
\* that does not return is not modelled.)
ResetExits == reset ~> phase \in {"exited", "died", "replaced"}

\* What server names is the socket that create_server has made.
Listening == server # NULL /\ port[server] = "ftp"

\* It names the passive socket of a client.
TakenOver == server # NULL /\ port[server] = "data"

\* When the listening socket is gone, because of an error or because a client that
\* net_deinit has cut off closed a number that had been handed out again, the server
\* notices and listens again.  The one way not to notice is that the number has come
\* to be a passive socket, for which net_accept gives no error; it lasts until that
\* socket is closed.
ListensAgain == ~Listening ~> (Listening \/ TakenOver \/ Stopped)

\* README.txt: "Clean up open descriptors before exiting".
CleanExit == phase = "exited" => sockets = {} /\ files = {}

=============================================================================
