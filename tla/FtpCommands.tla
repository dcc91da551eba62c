---------------------------- MODULE FtpCommands ----------------------------
(***************************************************************************)
(* What the commands of source/ftp.c remember from one to the next: the    *)
(* login, the directory, the file that RNFR named, the position that REST  *)
(* gave, where data go, and, for all sessions together, the password.      *)
(*                                                                         *)
(* A command runs whole before another begins; sessions take turns.  Where *)
(* write_reply fails the command has had its effects, and Disconnect       *)
(* follows.                                                                *)
(***************************************************************************)
EXTENDS Naturals

CONSTANTS
  Sessions,       \* the slots of clients[]
  Dirs, Names,    \* directories, and names of files in them
  Home,           \* the directory "/"
  Addresses,      \* addresses for data, those of the peers among them
  Passwords,
  Knows,          \* Knows[c]: the passwords that the peers of slot c know
  Offsets,        \* positions for REST other than 0
  NULL            \* no file, no password

ASSUME ValuesAssumption ==
  /\ Home \in Dirs /\ Offsets \subseteq Nat \ {0}
  /\ "passive" \notin Addresses /\ NULL \notin Addresses \cup {"passive"}
  /\ NULL \notin Names \cup (Dirs \X Names)
  /\ Knows \in [Sessions -> SUBSET Passwords]

VARIABLES
  session,        \* struct client_struct; kept when the client is freed, see Accept
  password,
  history         \* what each client has asked for, see Unasked

vars == <<session, password, history>>

\* A name is relative to the directory, a pair is absolute.
Paths == Names \cup (Dirs \X Names)

Resolve(dir, path) == IF path \in Names THEN <<dir, path>> ELSE path

\* Does the peer know what it is asked for?
MayLogIn(c, secret) == secret \in Knows[c] \cup {NULL}

\* named: the file of the last RNFR that no RNTO has used; moved: the directory has
\* changed since; rest: the position of the last REST that no transfer has used; told:
\* where the last PORT or PASV, or else the connection, said data go; admitted: there has
\* been a time, since the connection or REIN, at which the client could log in.
Unasked(c, address) ==
  [named |-> NULL, moved |-> FALSE, rest |-> 0, told |-> address,
   admitted |-> MayLogIn(c, password)]

Session ==
  [connected : BOOLEAN, authenticated : BOOLEAN, cwd : Dirs,
   pending_rename : Paths \cup {NULL}, restart_marker : Offsets \cup {0},
   address : Addresses, passive : BOOLEAN]

History ==
  [named : (Dirs \X Names) \cup {NULL}, moved : BOOLEAN, rest : Offsets \cup {0},
   told : Addresses \cup {"passive", NULL}, admitted : BOOLEAN]

\* The memory of malloc may hold anything.
Init ==
  /\ session \in [Sessions -> {old \in Session : ~old.connected}]
  /\ password \in Passwords \cup {NULL}
  /\ history = [c \in Sessions |-> Unasked(c, session[c].address)]

-----------------------------------------------------------------------------
(* Sessions begin and end                                                  *)

\* Mutant: the marker is what the client before left in the memory.
AcceptedWithMarker(old, address) ==
  [old EXCEPT !.connected = TRUE, !.authenticated = FALSE, !.cwd = Home,
              !.pending_rename = NULL, !.address = address, !.passive = FALSE]

\* Mutant: likewise for the login.
AcceptedWithLogin(old, address) ==
  [old EXCEPT !.connected = TRUE, !.cwd = Home, !.pending_rename = NULL,
              !.restart_marker = 0, !.address = address, !.passive = FALSE]

\* process_accept_events assigns the fields of memory that another client may have used.
Accepted(old, address) ==
  [old EXCEPT !.connected = TRUE, !.authenticated = FALSE, !.cwd = Home,
              !.pending_rename = NULL, !.restart_marker = 0, !.address = address,
              !.passive = FALSE]

Accept(c) ==
  /\ ~session[c].connected
  /\ \E address \in Addresses :
       /\ session' = [session EXCEPT ![c] = Accepted(@, address)]
       /\ history' = [history EXCEPT ![c] = Unasked(c, address)]
  /\ UNCHANGED password

\* QUIT, a lost connection, or a reply that could not be written.
Disconnect(c) ==
  /\ session[c].connected
  /\ session' = [session EXCEPT ![c].connected = FALSE, ![c].passive = FALSE]
  /\ UNCHANGED <<password, history>>

\* The table of commands of a session that is not logged in.
Unauthenticated(c) == session[c].connected

Authenticated(c) == session[c].connected /\ session[c].authenticated

compare_ftp_password(c) == MayLogIn(c, password)

\* A wrong password leaves the session as it is.
ftp_PASS(c) ==
  /\ Unauthenticated(c)
  /\ compare_ftp_password(c)
  /\ session' = [session EXCEPT ![c].authenticated = TRUE]
  /\ UNCHANGED <<password, history>>

\* pending_rename, restart_marker and address stay for the next user.
ftp_REIN(c) ==
  /\ Unauthenticated(c)
  /\ session' = [session EXCEPT ![c].passive = FALSE, ![c].cwd = Home, ![c].authenticated = FALSE]
  /\ history' = [history EXCEPT ![c].moved = TRUE, ![c].told = NULL,
                   ![c].admitted = MayLogIn(c, password)]
  /\ UNCHANGED password

\* set_ftp_password, for SITE PASSWD and SITE NOPASSWD.
set_ftp_password(c) ==
  /\ Authenticated(c)
  /\ password' \in Passwords \cup {NULL}
  /\ history' = [d \in Sessions |->
       [history[d] EXCEPT !.admitted = @ \/ MayLogIn(d, password')]]
  /\ UNCHANGED session

-----------------------------------------------------------------------------
(* Directories and renaming                                                *)

\* CWD or CDUP that succeeds.
ChangeDirectory(c) ==
  /\ Authenticated(c)
  /\ \E dir \in Dirs : session' = [session EXCEPT ![c].cwd = dir]
  /\ history' = [history EXCEPT ![c].moved = TRUE]
  /\ UNCHANGED password

\* The path may be empty.
ftp_RNFR(c) ==
  /\ Authenticated(c)
  /\ \E path \in Paths \cup {NULL} :
       /\ session' = [session EXCEPT ![c].pending_rename = path]
       /\ history' = [history EXCEPT ![c].moved = FALSE,
                        ![c].named = IF path = NULL THEN NULL ELSE Resolve(session[c].cwd, path)]
  /\ UNCHANGED password

\* Mutant: only a rename that succeeds is forgotten.
ForgetsOnSuccess(old) == {old, NULL}

\* pending_rename after a rename, successful or not.
AfterRename(old) == {NULL}

ftp_RNTO(c) ==
  /\ Authenticated(c) /\ session[c].pending_rename # NULL
  /\ \E pending \in AfterRename(session[c].pending_rename) :
       session' = [session EXCEPT ![c].pending_rename = pending]
  /\ history' = [history EXCEPT ![c].named = NULL]
  /\ UNCHANGED password

-----------------------------------------------------------------------------
(* Transfers                                                               *)

ftp_REST(c) ==
  /\ Authenticated(c)
  /\ \E offset \in Offsets \cup {0} :
       /\ session' = [session EXCEPT ![c].restart_marker = offset]
       /\ history' = [history EXCEPT ![c].rest = offset]
  /\ UNCHANGED password

\* Mutant: a download leaves the marker for the next transfer.
OnlySeeks(s) == s

\* The file is positioned, or the command fails.
SeekAndReset(s) == [s EXCEPT !.restart_marker = 0]

\* A file that can be opened; if it cannot, the marker stays.
ftp_RETR(c) ==
  /\ Authenticated(c)
  /\ session' = [session EXCEPT ![c] = SeekAndReset(@)]
  /\ history' = [history EXCEPT ![c].rest = 0]
  /\ UNCHANGED password

\* Whether or not the file can be opened.  APPE leaves the marker alone.
ftp_STOR(c) ==
  /\ Authenticated(c)
  /\ session' = [session EXCEPT ![c].restart_marker = 0]
  /\ history' = [history EXCEPT ![c].rest = 0]
  /\ UNCHANGED password

\* Mutant: PORT does not close the passive socket.
KeepsListening(s, address) == [s EXCEPT !.address = address]

WithAddress(s, address) == [s EXCEPT !.address = address, !.passive = FALSE]

ftp_PORT(c) ==
  /\ Authenticated(c)
  /\ \E address \in Addresses :
       /\ session' = [session EXCEPT ![c] = WithAddress(@, address)]
       /\ history' = [history EXCEPT ![c].told = address]
  /\ UNCHANGED password

\* PASV closes the old listener first, and may fail to open another.
ftp_PASV(c) ==
  /\ Authenticated(c)
  /\ \E opened \in BOOLEAN :
       /\ session' = [session EXCEPT ![c].passive = opened]
       /\ history' = [history EXCEPT ![c].told = IF opened THEN "passive" ELSE NULL]
  /\ UNCHANGED password

-----------------------------------------------------------------------------

\* The first line of a session that need not be logged in, the others of one that must
\* be.  The other commands, TYPE among them, change nothing that a command reads.
process_command(c) ==
  \/ ftp_PASS(c) \/ ftp_REIN(c) \/ Disconnect(c)
  \/ set_ftp_password(c) \/ ChangeDirectory(c) \/ ftp_RNFR(c) \/ ftp_RNTO(c)
  \/ ftp_REST(c) \/ ftp_RETR(c) \/ ftp_STOR(c) \/ ftp_PORT(c) \/ ftp_PASV(c)

Next == \E c \in Sessions : Accept(c) \/ process_command(c)

Spec == Init /\ [][Next]_vars

-----------------------------------------------------------------------------
(* Properties                                                              *)

\* Type invariant: a session has at any time the fields struct client_struct may hold.
TypeOK ==
  /\ session \in [Sessions -> Session]
  /\ history \in [Sessions -> History]
  /\ password \in Passwords \cup {NULL}

\* ftp.c:92, README.txt:11: a session is logged in only if, since it was connected or
\* reinitialised, there was no password or one its peer knows, whoever changes it.
LoginIsOwn ==
  \A c \in Sessions : session[c].connected /\ session[c].authenticated => history[c].admitted

\* ftp.c:268: RNTO renames the file that this client's last RNFR named, once, though
\* the name is resolved only then; a relative name follows the directory.
RenameIsWhatWasNamed ==
  \A c \in Sessions :
    LET s == session[c] IN
    s.connected /\ s.pending_rename # NULL =>
      /\ history[c].named # NULL
      /\ \/ Resolve(s.cwd, s.pending_rename) = history[c].named
         \/ s.pending_rename \in Names /\ history[c].moved

\* ftp.c:467: a position is the one of this client's last REST, and used by one transfer.
RestartUsedOnce ==
  \A c \in Sessions :
    session[c].connected /\ session[c].restart_marker # 0
      => session[c].restart_marker = history[c].rest

\* ftp.c:375: data go where the last PORT or PASV said.
DataGoesWhereAsked ==
  \A c \in Sessions :
    session[c].connected /\ history[c].told # NULL =>
      history[c].told = IF session[c].passive THEN "passive" ELSE session[c].address

=============================================================================
