-------------------------- MODULE FtpServerProofs --------------------------
(***************************************************************************)
(* Invariants of FtpServer, for every number of slots, every set of        *)
(* descriptors and every allocation policy: the pool; then who owns the    *)
(* sockets, when net_deinit leaves open sockets alone; and what a transfer *)
(* leaves untouched in any case.                                           *)
(***************************************************************************)
EXTENDS FtpServer, FiniteSetTheorems, TLAPS

\* What each client record satisfies by itself.
ClientInv(cl) ==
  /\ cl.callback = "none" => cl.arg = NULL
  /\ cl.callback # "none" => cl.data_socket # NULL
  /\ ~cl.authenticated => cl.passive_socket = NULL /\ cl.callback = "none"

PoolInv ==
  /\ clients \in [Slots -> Client \cup {NULL}]
  /\ sockets \in SUBSET Sockets
  /\ files \in SUBSET Files
  /\ owed \in [Slots -> {0, 1}]
  /\ \A c \in Present : ClientInv(clients[c])
  /\ PoolConsistent
  /\ FileOwnership
  /\ RepliesOwed

MainInv ==
  /\ server \in Sockets \cup {NULL}
  /\ network_down \in BOOLEAN
  /\ turn \in 0..Last
  /\ step \in {"read", "lines"}
  /\ reset \in BOOLEAN
  /\ phase \in {"running", "initialising", "exited", "halted", "died", "replaced"}
  /\ phase = "initialising" => server = NULL

IInv == PoolInv /\ MainInv

-----------------------------------------------------------------------------
(* The pool                                                                *)

LEMMA SlotsFinite == IsFiniteSet(Slots) /\ Cardinality(Slots) = MAX_CLIENTS
  BY PoolAssumption, FS_Interval DEF Slots

LEMMA PresentFinite ==
  /\ IsFiniteSet(Present)
  /\ Cardinality(Present) \in 0..MAX_CLIENTS
<1>1. Present \in SUBSET Slots
  BY DEF Present
<1>2. QED
  BY <1>1, SlotsFinite, FS_Subset, FS_CardinalityType, PoolAssumption

\* A client that keeps its slot keeps the pool in order, if the handles of the
\* other transfers stay open and are not its own.
LEMMA KeepPool ==
  ASSUME PoolInv,
         NEW c \in Slots, clients[c] # NULL,
         NEW cl \in Client, ClientInv(cl),
         NEW open \in SUBSET Sockets, NEW handles \in SUBSET Files,
         NEW n, n = IF cl.callback = "none" THEN 0 ELSE 1,
         cl.callback # "none" => cl.arg \in handles,
         \A d \in Slots \ {c} : Transferring(d) =>
           clients[d].arg \in handles /\ (cl.callback # "none" => clients[d].arg # cl.arg),
         Keep(c, cl, open, handles, n)
  PROVE  PoolInv'
<1>1. clients' = [clients EXCEPT ![c] = cl] /\ sockets' = open /\ files' = handles
      /\ owed' = [owed EXCEPT ![c] = n] /\ num_clients' = num_clients
  BY DEF Keep
<1>2. cl # NULL
  BY NullAssumption
<1>3. /\ clients' \in [Slots -> Client \cup {NULL}] /\ owed' \in [Slots -> {0, 1}]
      /\ sockets' \in SUBSET Sockets /\ files' \in SUBSET Files
  BY <1>1 DEF PoolInv
<1>4. clients'[c] = cl /\ owed'[c] = n
      /\ \A d \in Slots \ {c} : clients'[d] = clients[d] /\ owed'[d] = owed[d]
  BY <1>1 DEF PoolInv
<1>5. Present' = Present
  BY <1>2, <1>4 DEF Present
<1>6. (\A d \in Present : ClientInv(clients[d]))'
  BY <1>4, <1>5 DEF PoolInv, Present, ClientInv
<1>7. PoolConsistent'
  BY <1>1, <1>5 DEF PoolInv, PoolConsistent
<1>8. /\ Transferring(c)' <=> cl.callback # "none"
      /\ \A d \in Slots \ {c} : Transferring(d)' <=> Transferring(d)
  BY <1>2, <1>4 DEF Transferring
<1>9. FileOwnership'
  BY <1>1, <1>4, <1>8 DEF PoolInv, FileOwnership
<1>10. RepliesOwed'
  BY <1>4, <1>8 DEF PoolInv, RepliesOwed
<1>11. QED
  BY <1>3, <1>6, <1>7, <1>9, <1>10 DEF PoolInv

\* So does cleanup_client, if the handles it leaves open include those of the
\* other transfers.
LEMMA CleanupPool ==
  ASSUME PoolInv,
         NEW c \in Slots, clients[c] # NULL,
         NEW cl \in Client,
         NEW open \in SUBSET Sockets, NEW handles \in SUBSET Files,
         \A d \in Slots \ {c} : Transferring(d) => clients[d].arg \in handles \ {cl.arg},
         CleanupClient(c, cl, open, handles)
  PROVE  PoolInv'
<1>1. clients' = [clients EXCEPT ![c] = NULL] /\ sockets' = SocketsAfter(cl, open)
      /\ files' = handles \ {cl.arg}
      /\ owed' = [owed EXCEPT ![c] = 0] /\ num_clients' = num_clients - 1
  BY DEF CleanupClient
<1>3. /\ clients' \in [Slots -> Client \cup {NULL}] /\ owed' \in [Slots -> {0, 1}]
      /\ sockets' \in SUBSET Sockets /\ files' \in SUBSET Files
  BY <1>1 DEF PoolInv, SocketsAfter
<1>4. clients'[c] = NULL /\ owed'[c] = 0
      /\ \A d \in Slots \ {c} : clients'[d] = clients[d] /\ owed'[d] = owed[d]
  BY <1>1 DEF PoolInv
<1>5. Present' = Present \ {c} /\ c \in Present
  BY <1>4 DEF Present
<1>6. (\A d \in Present : ClientInv(clients[d]))'
  BY <1>4, <1>5 DEF PoolInv, Present, ClientInv
<1>7. PoolConsistent'
  <2>1. Cardinality(Present') = Cardinality(Present) - 1
    BY <1>5, PresentFinite, FS_RemoveElement
  <2>2. QED
    BY <2>1, <1>1 DEF PoolInv, PoolConsistent
<1>8. /\ ~Transferring(c)'
      /\ \A d \in Slots \ {c} : Transferring(d)' <=> Transferring(d)
  BY <1>4 DEF Transferring
<1>9. FileOwnership'
  BY <1>1, <1>4, <1>8 DEF PoolInv, FileOwnership
<1>10. RepliesOwed'
  BY <1>4, <1>8 DEF PoolInv, RepliesOwed
<1>11. QED
  BY <1>3, <1>6, <1>7, <1>9, <1>10 DEF PoolInv

-----------------------------------------------------------------------------
(* The shapes that the control connection's actions share                  *)

LEMMA SlotsInRange == Slots \subseteq 0..Last /\ 0 \in 0..Last /\ Last \in 0..Last
                      /\ \A c \in Slots : c + 1 \in 0..Last
  BY PoolAssumption DEF Slots, Last

\* An idle client that keeps its slot with the state cl, idle as well.
LEMMA NextLinePool ==
  ASSUME IInv,
         NEW c \in Slots, clients[c] # NULL, ~Transferring(c),
         NEW cl \in Client, ClientInv(cl), cl.callback = "none",
         NEW open \in SUBSET Sockets, NEW handles \in SUBSET Files,
         files \subseteq handles,
         NextLine(c, cl, open, handles, owed[c])
  PROVE  PoolInv' /\ turn' \in 0..Last /\ step' \in {"read", "lines"}
<1>1. owed[c] = 0
  BY DEF IInv, PoolInv, RepliesOwed
<1>2. \A d \in Slots \ {c} : Transferring(d) =>
        clients[d].arg \in handles /\ (cl.callback # "none" => clients[d].arg # cl.arg)
  BY DEF IInv, PoolInv, FileOwnership
<1>3. PoolInv'
  BY <1>1, <1>2, KeepPool DEF NextLine, IInv
<1>4. QED
  BY <1>3, SlotsInRange DEF NextLine

\* Closing an idle client.
LEMMA DisconnectPool ==
  ASSUME IInv,
         NEW c \in Slots, clients[c] # NULL,
         NEW cl \in Client, ClientInv(cl), cl.callback = "none",
         NEW open \in SUBSET Sockets,
         Disconnect(c, cl, open, files)
  PROVE  PoolInv' /\ turn' \in 0..Last /\ step' \in {"read", "lines"}
<1>1. cl.arg = NULL
  BY DEF ClientInv
<1>2. \A d \in Slots \ {c} : Transferring(d) => clients[d].arg \in files \ {cl.arg}
  BY <1>1, NullAssumption DEF IInv, PoolInv, FileOwnership
<1>3. PoolInv' 
  BY <1>2, CleanupPool DEF Disconnect, IInv, PoolInv
<1>4. QED
  BY <1>3, SlotsInRange DEF Disconnect

LEMMA AnsweredPool ==
  ASSUME IInv,
         NEW c \in Slots, clients[c] # NULL, ~Transferring(c),
         NEW cl \in Client, ClientInv(cl), cl.callback = "none",
         NEW open \in SUBSET Sockets,
         Answered(c, cl, open, files)
  PROVE  PoolInv' /\ turn' \in 0..Last /\ step' \in {"read", "lines"}
<1>1. files \in SUBSET Files
  BY DEF IInv, PoolInv
<1>2. QED
  BY <1>1, NextLinePool, DisconnectPool DEF Answered

\* A client between transfers.
Idle(cl) == cl \in Client /\ ClientInv(cl) /\ cl.callback = "none"

\* What a command handler starts from.
LEMMA TakenClient ==
  ASSUME IInv, NEW c \in Slots, AtLine(c)
  PROVE  /\ clients[c] # NULL /\ ~Transferring(c) /\ Idle(clients[c])
         /\ Idle(Taken(c))
         /\ Taken(c).authenticated = clients[c].authenticated
<1>1. clients[c] # NULL /\ ~Transferring(c) /\ clients[c].lines > 0
  BY DEF AtLine, Visiting
<1>2. clients[c] \in Client /\ ClientInv(clients[c])
  BY <1>1 DEF IInv, PoolInv, Present
<1>3. clients[c].callback = "none"
  BY <1>1 DEF Transferring
<1>4. clients[c].lines - 1 \in 0..MaxLines
  BY <1>1, <1>2, PoolAssumption DEF Client
<1>5. Taken(c) = [clients[c] EXCEPT !.lines = clients[c].lines - 1]
  BY DEF Taken
<1>6. /\ Taken(c) \in Client
      /\ Taken(c).authenticated = clients[c].authenticated
      /\ Taken(c).passive_socket = clients[c].passive_socket
      /\ Taken(c).callback = clients[c].callback
      /\ Taken(c).arg = clients[c].arg
  BY <1>2, <1>4, <1>5 DEF Client
<1>7. QED
  BY <1>1, <1>2, <1>3, <1>6 DEF ClientInv, Idle

\* Logging in and out and changing the passive socket leave a client idle.
LEMMA IdleUpdates ==
  ASSUME NEW cl, Idle(cl)
  PROVE  /\ Idle([cl EXCEPT !.authenticated = TRUE])
         /\ Idle(WithoutPassive(cl))
         /\ Idle(LoggedOut(cl))
         /\ \A s \in Sockets : cl.authenticated => Idle([cl EXCEPT !.passive_socket = s])
BY DEF Idle, Client, ClientInv, WithoutPassive, LoggedOut

-----------------------------------------------------------------------------
(* Commands                                                                *)

LEMMA ReplyCommandsPool ==
  ASSUME IInv, NEW c \in Slots, AtLine(c),
         ReplyOnly(c) \/ DropEmptyLine(c) \/ ftp_PASS(c) \/ ftp_REIN(c) \/ ftp_QUIT(c)
           \/ ftp_PORT(c) \/ ftp_SITE_LOADER(c)
  PROVE  PoolInv' /\ turn' \in 0..Last /\ step' \in {"read", "lines"}
<1>1. clients[c] # NULL /\ ~Transferring(c) /\ Idle(Taken(c))
  BY TakenClient
<1>2. sockets \in SUBSET Sockets /\ ClosePassive(c) \in SUBSET Sockets
  BY DEF IInv, PoolInv, ClosePassive
<1>3. ASSUME NEW cl, Idle(cl), NEW open \in SUBSET Sockets, Answered(c, cl, open, files)
      PROVE  PoolInv' /\ turn' \in 0..Last /\ step' \in {"read", "lines"}
  BY <1>1, <1>3, AnsweredPool DEF Idle
<1>4. CASE ReplyOnly(c) \/ DropEmptyLine(c) \/ ftp_SITE_LOADER(c)
  <2>1. DropEmptyLine(c) => PoolInv' /\ turn' \in 0..Last /\ step' \in {"read", "lines"}
    BY <1>1, <1>2, NextLinePool DEF DropEmptyLine, Idle, IInv, PoolInv
  <2>2. QED
    BY <2>1, <1>1, <1>2, <1>3, <1>4 DEF ReplyOnly, ftp_SITE_LOADER
<1>5. CASE ftp_PASS(c)
  <2>1. Idle([Taken(c) EXCEPT !.authenticated = TRUE])
    BY <1>1, IdleUpdates
  <2>2. QED
    BY <2>1, <1>2, <1>3, <1>5 DEF ftp_PASS
<1>6. CASE ftp_REIN(c)
  <2>1. Idle(LoggedOut(Taken(c)))
    BY <1>1, IdleUpdates
  <2>2. QED
    BY <2>1, <1>2, <1>3, <1>6 DEF ftp_REIN
<1>7. CASE ftp_PORT(c)
  <2>1. Idle(WithoutPassive(Taken(c)))
    BY <1>1, IdleUpdates
  <2>2. QED
    BY <2>1, <1>2, <1>3, <1>7 DEF ftp_PORT
<1>8. CASE ftp_QUIT(c)
  BY <1>1, <1>2, <1>8, DisconnectPool DEF ftp_QUIT, Idle
<1>9. QED
  BY <1>4, <1>5, <1>6, <1>7, <1>8

LEMMA PasvPool ==
  ASSUME IInv, NEW c \in Slots, AtLine(c), clients[c].authenticated, ftp_PASV(c)
  PROVE  PoolInv' /\ turn' \in 0..Last /\ step' \in {"read", "lines"}
<1>1. /\ clients[c] # NULL /\ ~Transferring(c) /\ Idle(Taken(c))
      /\ Taken(c).authenticated
  BY TakenClient
<1>2. ClosePassive(c) \in SUBSET Sockets
  BY DEF IInv, PoolInv, ClosePassive
<1>3. ASSUME NEW cl, Idle(cl), NEW open \in SUBSET Sockets, Answered(c, cl, open, files)
      PROVE  PoolInv' /\ turn' \in 0..Last /\ step' \in {"read", "lines"}
  BY <1>1, <1>3, AnsweredPool DEF Idle
<1>4. CASE Answered(c, WithoutPassive(Taken(c)), ClosePassive(c), files)
  <2>1. Idle(WithoutPassive(Taken(c)))
    BY <1>1, IdleUpdates
  <2>2. QED
    BY <2>1, <1>2, <1>3, <1>4
<1>5. ASSUME NEW s \in Candidates(Sockets, ClosePassive(c)),
             Answered(c, [Taken(c) EXCEPT !.passive_socket = s],
                      ClosePassive(c) \cup {s}, files)
      PROVE  PoolInv' /\ turn' \in 0..Last /\ step' \in {"read", "lines"}
  <2>1. s \in Sockets
    BY <1>2, CandidatesAssumption
  <2>2. Idle([Taken(c) EXCEPT !.passive_socket = s])
    BY <1>1, <2>1, IdleUpdates
  <2>3. ClosePassive(c) \cup {s} \in SUBSET Sockets
    BY <1>2, <2>1
  <2>4. QED
    BY <2>2, <2>3, <1>3, <1>5
<1>6. QED
  BY <1>4, <1>5 DEF ftp_PASV

\* A new handle belongs to no transfer yet.
LEMMA FreshHandle ==
  ASSUME PoolInv, NEW f \in Candidates(Files, files)
  PROVE  f \in Files /\ f \notin files /\ files \cup {f} \in SUBSET Files
BY CandidatesAssumption DEF PoolInv

LEMMA StartTransferPool ==
  ASSUME IInv, NEW c \in Slots, AtLine(c), clients[c].authenticated,
         NEW cb \in Callbacks, StartTransfer(c, cb)
  PROVE  PoolInv' /\ turn' \in 0..Last /\ step' \in {"read", "lines"}
<1>1. /\ clients[c] # NULL /\ ~Transferring(c) /\ Idle(clients[c]) /\ Idle(Taken(c))
      /\ Taken(c).authenticated
  BY TakenClient
<1>2. PoolInv /\ sockets \in SUBSET Sockets /\ owed[c] = 0
  BY <1>1 DEF IInv, PoolInv, RepliesOwed
<1>3. PICK f \in Candidates(Files, files) : prepare_data_connection(c, cb, f)
  BY DEF StartTransfer
<1>4. f \in Files /\ f \notin files /\ files \cup {f} \in SUBSET Files
  BY <1>2, FreshHandle
<1>5. ASSUME NEW s \in DataSockets(c),
             NextLine(c,
                      [Taken(c) EXCEPT !.data_socket = s, !.callback = cb, !.arg = f,
                                       !.connected = FALSE, !.timer = "running"],
                      sockets \cup ({s} \ {clients[c].passive_socket}), files \cup {f}, owed[c] + 1)
      PROVE  PoolInv' /\ turn' \in 0..Last /\ step' \in {"read", "lines"}
  <2> DEFINE cl == [Taken(c) EXCEPT !.data_socket = s, !.callback = cb, !.arg = f,
                                    !.connected = FALSE, !.timer = "running"]
             open == sockets \cup ({s} \ {clients[c].passive_socket})
  <2>1. s \in Sockets /\ s # NULL
    BY <1>1, <1>2, CandidatesAssumption, NullAssumption DEF DataSockets, Idle, Client
  <2>2. cb # "none"
    BY DEF Callbacks
  <2>3. cl \in Client /\ ClientInv(cl) /\ cl.callback = cb /\ cl.arg = f
    <3> HIDE DEF Callbacks
    <3>1. Taken(c) \in Client /\ Taken(c).authenticated
      BY <1>1 DEF Idle
    <3>2. /\ cl \in Client /\ cl.callback = cb /\ cl.arg = f /\ cl.data_socket = s
          /\ cl.authenticated = Taken(c).authenticated
      BY <3>1, <2>1, <1>4 DEF Client
    <3>3. QED
      BY <3>1, <3>2, <2>1, <2>2 DEF ClientInv
  <2>4. open \in SUBSET Sockets /\ owed[c] + 1 = 1
    BY <1>2, <2>1
  <2>5. \A d \in Slots \ {c} : Transferring(d) =>
          clients[d].arg \in files \cup {f} /\ clients[d].arg # f
    BY <1>2, <1>4 DEF PoolInv, FileOwnership
  <2>6. Keep(c, cl, open, files \cup {f}, owed[c] + 1)
    BY <1>5 DEF NextLine
  <2> HIDE DEF cl, open
  <2>7. PoolInv'
    BY <1>1, <1>2, <1>4, <2>2, <2>3, <2>4, <2>5, <2>6, KeepPool
  <2>8. QED
    BY <1>5, <2>7, SlotsInRange DEF NextLine
<1>6. CASE NextLine(c, Taken(c), sockets, files \cup {f}, owed[c])
  BY <1>1, <1>2, <1>4, <1>6, NextLinePool DEF Idle
<1>7. CASE Disconnect(c, Taken(c), sockets, files)
  BY <1>1, <1>2, <1>7, DisconnectPool DEF Idle
<1>8. QED
  BY <1>3, <1>5, <1>6, <1>7 DEF prepare_data_connection

\* Every command, with the variables of the main loop.
LEMMA CommandInv ==
  ASSUME IInv, NEW c \in Slots, process_command(c)
  PROVE  IInv'
<1>1. AtLine(c)
  BY DEF process_command
<1>2. CASE /\ ReplyOnly(c) \/ DropEmptyLine(c) \/ ftp_PASS(c) \/ ftp_REIN(c) \/ ftp_QUIT(c)
           /\ UNCHANGED <<main, reset>>
  <2>1. PoolInv' /\ turn' \in 0..Last /\ step' \in {"read", "lines"}
    BY <1>1, <1>2, ReplyCommandsPool
  <2>2. QED
    BY <1>2, <2>1 DEF IInv, MainInv, main
<1>3. CASE /\ clients[c].authenticated
           /\ ftp_PASV(c) \/ ftp_PORT(c) \/ \E cb \in Callbacks : StartTransfer(c, cb)
           /\ UNCHANGED <<main, reset>>
  <2>1. PoolInv' /\ turn' \in 0..Last /\ step' \in {"read", "lines"}
    BY <1>1, <1>3, ReplyCommandsPool, PasvPool, StartTransferPool
  <2>2. QED
    BY <1>3, <2>1 DEF IInv, MainInv, main
<1>4. CASE ftp_SITE_LOADER(c) /\ UNCHANGED main
  <2>1. PoolInv' /\ turn' \in 0..Last /\ step' \in {"read", "lines"}
    BY <1>1, <1>4, ReplyCommandsPool
  <2>2. QED
    BY <1>4, <2>1 DEF IInv, MainInv, main, ftp_SITE_LOADER
<1>5. CASE ftp_SITE_LOAD(c)
  <2>1. PICK f \in Candidates(Files, files) : files' = files \cup {f}
    BY <1>5 DEF ftp_SITE_LOAD
  <2>2. files' \in SUBSET Files /\ files \subseteq files'
    BY <2>1, FreshHandle DEF IInv
  <2>3. UNCHANGED <<clients, num_clients, sockets, owed>>
    BY <1>5 DEF ftp_SITE_LOAD
  <2>4. PoolInv'
    BY <2>2, <2>3 DEF IInv, PoolInv, PoolConsistent, Present, FileOwnership, RepliesOwed,
                      Transferring, ClientInv
  <2>5. QED
    BY <2>4, <1>5 DEF IInv, MainInv, ftp_SITE_LOAD
<1>6. QED
  BY <1>2, <1>3, <1>4, <1>5 DEF process_command

-----------------------------------------------------------------------------
(* The other actions                                                       *)

LEMMA UnchangedPool ==
  ASSUME PoolInv, UNCHANGED pool
  PROVE  PoolInv'
BY DEF PoolInv, pool, PoolConsistent, Present, FileOwnership, RepliesOwed, Transferring,
       ClientInv

\* Buffer, timer and data connection of a client may change freely.
LEMMA TouchPool ==
  ASSUME PoolInv, NEW c \in Slots, clients[c] # NULL,
         NEW cl \in Client,
         cl.authenticated = clients[c].authenticated,
         cl.passive_socket = clients[c].passive_socket,
         cl.callback = clients[c].callback, cl.arg = clients[c].arg,
         cl.callback # "none" => cl.data_socket # NULL,
         NEW open \in SUBSET Sockets,
         Keep(c, cl, open, files, owed[c])
  PROVE  PoolInv'
<1>1. ClientInv(cl)
  BY DEF PoolInv, Present, ClientInv
<1>2. owed[c] = IF cl.callback = "none" THEN 0 ELSE 1
  BY DEF PoolInv, RepliesOwed, Transferring
<1>3. files \in SUBSET Files /\ (cl.callback # "none" => cl.arg \in files)
  BY DEF PoolInv, FileOwnership, Transferring
<1>4. \A d \in Slots \ {c} : Transferring(d) =>
        clients[d].arg \in files /\ (cl.callback # "none" => clients[d].arg # cl.arg)
  BY DEF PoolInv, FileOwnership, Transferring
<1>5. QED
  BY <1>1, <1>2, <1>3, <1>4, KeepPool

LEMMA AcceptClientInv == IInv /\ AcceptClient => IInv'
<1> SUFFICES ASSUME IInv, AcceptClient PROVE IInv'
  OBVIOUS
<1>1. PICK c \in Slots, s \in Candidates(Sockets, sockets) :
        /\ clients[c] = NULL
        /\ clients' = [clients EXCEPT ![c] =
             [socket |-> s, authenticated |-> FALSE, lines |-> 0,
              passive_socket |-> NULL, data_socket |-> NULL, connected |-> FALSE,
              callback |-> "none", arg |-> NULL, timer |-> "off"]]
        /\ sockets' = sockets \cup {s}
  BY DEF AcceptClient
<1> DEFINE cl == [socket |-> s, authenticated |-> FALSE, lines |-> 0,
                  passive_socket |-> NULL, data_socket |-> NULL, connected |-> FALSE,
                  callback |-> "none", arg |-> NULL, timer |-> "off"]
<1>2. UNCHANGED <<files, owed>> /\ num_clients' = num_clients + 1
  BY DEF AcceptClient
<1>3. s \in Sockets
  BY CandidatesAssumption DEF IInv, PoolInv
<1>4. cl \in Client /\ cl # NULL /\ ClientInv(cl) /\ cl.callback = "none"
  <2>1. cl \in Client
    BY <1>3, PoolAssumption DEF Client
  <2>2. QED
    BY <2>1, NullAssumption DEF ClientInv
<1>5. /\ clients' \in [Slots -> Client \cup {NULL}]
      /\ clients'[c] = cl /\ \A d \in Slots \ {c} : clients'[d] = clients[d]
  BY <1>1, <1>4 DEF IInv, PoolInv
<1> HIDE DEF cl
<1>6. Present' = Present \cup {c} /\ c \notin Present
  BY <1>1, <1>4, <1>5 DEF Present
<1>7. PoolConsistent'
  <2>1. Cardinality(Present') = Cardinality(Present) + 1
    BY <1>6, PresentFinite, FS_AddElement
  <2>2. QED
    BY <2>1, <1>2 DEF IInv, PoolInv, PoolConsistent
<1>8. (\A d \in Present : ClientInv(clients[d]))'
  BY <1>4, <1>5, <1>6 DEF IInv, PoolInv, Present, ClientInv
<1>9. ~Transferring(c) /\ ~Transferring(c)'
      /\ \A d \in Slots \ {c} : Transferring(d)' <=> Transferring(d)
  BY <1>1, <1>4, <1>5 DEF Transferring
<1>10. FileOwnership'
  BY <1>2, <1>5, <1>9 DEF IInv, PoolInv, FileOwnership
<1>11. RepliesOwed'
  BY <1>2, <1>9 DEF IInv, PoolInv, RepliesOwed
<1>12. PoolInv'
  BY <1>1, <1>2, <1>3, <1>5, <1>7, <1>8, <1>10, <1>11 DEF IInv, PoolInv
<1>13. MainInv'
  BY DEF IInv, MainInv, AcceptClient, main
<1>14. QED
  BY <1>12, <1>13 DEF IInv

\* What an action finds in a slot it visits.
LEMMA VisitedClient ==
  ASSUME PoolInv, NEW c \in Slots, clients[c] # NULL
  PROVE  clients[c] \in Client /\ ClientInv(clients[c])
BY DEF PoolInv, Present

LEMMA ReadingInv ==
  ASSUME IInv, NEW c \in Slots,
         ReadNothing(c) \/ ReadLines(c) \/ ReadFails(c) \/ RejectLine(c)
  PROVE  IInv'
<1>1. clients[c] # NULL /\ ~Transferring(c)
  BY DEF ReadNothing, ReadLines, ReadFails, RejectLine, Reading, AtLine, Visiting
<1>2. PoolInv /\ clients[c] \in Client /\ ClientInv(clients[c])
      /\ clients[c].callback = "none" /\ sockets \in SUBSET Sockets
  BY <1>1, VisitedClient DEF IInv, PoolInv, Transferring
<1>3. CASE ReadNothing(c)
  BY <1>2, <1>3, UnchangedPool, SlotsInRange DEF ReadNothing, IInv, MainInv, main
<1>4. CASE ReadLines(c)
  <2>1. PICK n \in clients[c].lines..MaxLines :
          /\ clients' = [clients EXCEPT ![c].lines = n]
          /\ step' = IF n = 0 THEN "read" ELSE "lines"
    BY <1>4 DEF ReadLines
  <2> DEFINE cl == [clients[c] EXCEPT !.lines = n]
  <2>2. n \in 0..MaxLines
    BY <1>2 DEF Client
  <2>3. /\ cl \in Client
        /\ cl.authenticated = clients[c].authenticated
        /\ cl.passive_socket = clients[c].passive_socket
        /\ cl.callback = clients[c].callback /\ cl.arg = clients[c].arg
    BY <1>2, <2>2 DEF Client
  <2>4. Keep(c, cl, sockets, files, owed[c])
    BY <1>2, <1>4, <2>1 DEF ReadLines, Keep, PoolInv
  <2> HIDE DEF cl
  <2>5. PoolInv'
    BY <1>1, <1>2, <2>3, <2>4, TouchPool
  <2>6. QED
    BY <1>4, <2>1, <2>5 DEF ReadLines, IInv, MainInv, main
<1>5. CASE ReadFails(c)
  BY <1>1, <1>2, <1>5, DisconnectPool DEF ReadFails, IInv, MainInv, main
<1>6. CASE RejectLine(c)
  BY <1>1, <1>2, <1>6, DisconnectPool DEF RejectLine, IInv, MainInv, main
<1>7. QED
  BY <1>3, <1>4, <1>5, <1>6

LEMMA DataEventsInv ==
  ASSUME IInv, NEW c \in Slots, process_data_events(c)
  PROVE  IInv'
<1>1. /\ clients[c] # NULL /\ Transferring(c)
      /\ turn' = c + 1 /\ UNCHANGED <<main, step, reset>>
  BY DEF process_data_events, DataAccepted, DataConnected, DataPending, TransferContinues, TransferEnds,
         DataEvent, Visiting
<1>2. MainInv'
  BY <1>1, SlotsInRange DEF IInv, MainInv, main
<1>3. PoolInv /\ clients[c] \in Client /\ ClientInv(clients[c])
      /\ sockets \in SUBSET Sockets /\ files \in SUBSET Files
  BY <1>1, VisitedClient DEF IInv, PoolInv
<1>4. CASE DataPending(c) \/ TransferContinues(c)
  BY <1>2, <1>3, <1>4, UnchangedPool DEF DataPending, TransferContinues, IInv
<1>5. CASE DataAccepted(c) \/ DataConnected(c)
  <2>1. PICK s \in Sockets :
          /\ s # NULL
          /\ \E open \in SUBSET Sockets :
               Keep(c, [clients[c] EXCEPT !.data_socket = s, !.connected = TRUE],
                    open, files, owed[c])
    <3>1. CASE DataAccepted(c)
      <4>1. PICK s \in Candidates(Sockets, sockets) :
              Keep(c, [clients[c] EXCEPT !.data_socket = s, !.connected = TRUE],
                   sockets \cup {s}, files, owed[c])
        BY <3>1 DEF DataAccepted
      <4>2. s \in Sockets /\ s # NULL /\ sockets \cup {s} \in SUBSET Sockets
        BY <1>3, CandidatesAssumption, NullAssumption
      <4>3. QED
        BY <4>1, <4>2
    <3>2. CASE DataConnected(c)
      <4>1. clients[c].data_socket \in Sockets /\ clients[c].data_socket # NULL
        BY <1>1, <1>3 DEF Client, ClientInv, Transferring
      <4>2. [clients[c] EXCEPT !.connected = TRUE]
              = [clients[c] EXCEPT !.data_socket = clients[c].data_socket, !.connected = TRUE]
        BY <1>3 DEF Client
      <4>3. Keep(c, [clients[c] EXCEPT !.connected = TRUE], sockets, files, owed[c])
        BY <3>2 DEF DataConnected
      <4>4. QED
        BY <1>3, <4>1, <4>2, <4>3
    <3>3. QED
      BY <1>5, <3>1, <3>2
  <2> DEFINE cl == [clients[c] EXCEPT !.data_socket = s, !.connected = TRUE]
  <2>2. PICK open \in SUBSET Sockets : Keep(c, cl, open, files, owed[c])
    BY <2>1
  <2>3. /\ cl \in Client /\ cl.data_socket = s
        /\ cl.authenticated = clients[c].authenticated
        /\ cl.passive_socket = clients[c].passive_socket
        /\ cl.callback = clients[c].callback /\ cl.arg = clients[c].arg
    BY <1>3, <2>1 DEF Client
  <2> HIDE DEF cl
  <2>4. PoolInv'
    BY <1>1, <1>3, <2>1, <2>2, <2>3, TouchPool
  <2>5. QED
    BY <1>2, <2>4 DEF IInv
<1>6. CASE TransferEnds(c)
  <2> DEFINE cl    == CleanupDataResources(clients[c])
             open  == sockets \ DataSocketToClose(clients[c])
             still == files \ {clients[c].arg}
  <2>1. /\ cl \in Client
        /\ cl.authenticated = clients[c].authenticated
        /\ cl.passive_socket = clients[c].passive_socket
        /\ cl.callback = "none" /\ cl.arg = NULL
    BY <1>3 DEF CleanupDataResources, Client
  <2>2. ClientInv(cl)
    BY <1>3, <2>1 DEF ClientInv
  <2>3. open \in SUBSET Sockets /\ still \in SUBSET Files /\ owed[c] - 1 = 0
    BY <1>1, <1>3 DEF PoolInv, RepliesOwed
  <2>4. \A d \in Slots \ {c} : Transferring(d) => clients[d].arg \in still
    BY <1>1, <1>3 DEF PoolInv, FileOwnership
  <2>5. Keep(c, cl, open, still, owed[c] - 1) \/ CleanupClient(c, cl, open, still)
    BY <1>6 DEF TransferEnds
  <2> HIDE DEF cl, open, still
  <2>6. CASE Keep(c, cl, open, still, owed[c] - 1)
    BY <1>1, <1>2, <1>3, <2>1, <2>2, <2>3, <2>4, <2>6, KeepPool DEF IInv
  <2>7. CASE CleanupClient(c, cl, open, still)
    <3>1. \A d \in Slots \ {c} : Transferring(d) => clients[d].arg \in still \ {cl.arg}
      BY <2>1, <2>3, <2>4, NullAssumption
    <3>2. QED
      BY <1>1, <1>2, <1>3, <2>1, <2>3, <2>7, <3>1, CleanupPool DEF IInv
  <2>8. QED
    BY <2>5, <2>6, <2>7
<1>7. QED
  BY <1>4, <1>5, <1>6 DEF process_data_events

LEMMA TimerExpiresInv ==
  ASSUME IInv, NEW c \in Slots, TimerExpires(c)
  PROVE  IInv'
<1> DEFINE cl == [clients[c] EXCEPT !.timer = "expired"]
<1>1. clients[c] # NULL
  BY DEF TimerExpires, Waiting, Transferring
<1>2. /\ PoolInv /\ clients[c] \in Client /\ sockets \in SUBSET Sockets
      /\ clients[c].callback # "none" => clients[c].data_socket # NULL
  BY <1>1, VisitedClient DEF IInv, PoolInv, ClientInv
<1>3. /\ cl \in Client
      /\ cl.authenticated = clients[c].authenticated
      /\ cl.passive_socket = clients[c].passive_socket
      /\ cl.callback = clients[c].callback /\ cl.arg = clients[c].arg
      /\ cl.data_socket = clients[c].data_socket
  BY <1>2 DEF Client
<1>4. Keep(c, cl, sockets, files, owed[c])
  BY <1>2 DEF TimerExpires, Keep, PoolInv
<1> HIDE DEF cl
<1>5. PoolInv'
  BY <1>1, <1>2, <1>3, <1>4, TouchPool
<1>6. QED
  BY <1>5 DEF TimerExpires, IInv, MainInv, main

LEMMA ExitInv == IInv /\ Exit => IInv'
<1> SUFFICES ASSUME IInv, Exit PROVE IInv'
  OBVIOUS
<1>1. /\ clients' = [c \in Slots |-> NULL] /\ owed' = [c \in Slots |-> 0]
      /\ num_clients' = num_clients - Cardinality(Present)
      /\ sockets' \subseteq sockets /\ files' \subseteq files
  BY DEF Exit
<1>2. Present' = {} /\ \A c \in Slots : ~Transferring(c)'
  BY <1>1 DEF Present, Transferring
<1>3. PoolConsistent'
  BY <1>1, <1>2, PresentFinite, FS_EmptySet DEF IInv, PoolInv, PoolConsistent
<1>4. PoolInv'
  BY <1>1, <1>2, <1>3 DEF IInv, PoolInv, FileOwnership, RepliesOwed
<1>5. MainInv'
  BY DEF IInv, MainInv, Exit
<1>6. QED
  BY <1>4, <1>5 DEF IInv

LEMMA RestartNetworkInv == IInv /\ (RestartNetwork \/ create_server) => IInv'
<1> SUFFICES ASSUME IInv, RestartNetwork \/ create_server PROVE IInv'
  OBVIOUS
<1>1. UNCHANGED <<clients, num_clients, files, owed, step, reset>>
  BY DEF RestartNetwork, create_server
<1>2. sockets' \in SUBSET Sockets /\ MainInv'
  <2>1. CASE RestartNetwork
    <3>1. sockets' \in SUBSET Sockets
      BY <2>1 DEF RestartNetwork, IInv, PoolInv
    <3>2. QED
      BY <2>1, <3>1 DEF RestartNetwork, IInv, MainInv
  <2>2. CASE create_server
    <3>1. CASE UNCHANGED <<server, sockets, port, network_down, turn>> /\ phase' \in {"running", "halted"}
      BY <1>1, <3>1 DEF IInv, PoolInv, MainInv
    <3>2. ASSUME NEW s \in Candidates(Sockets, sockets), server' = s, sockets' = sockets \cup {s},
                 network_down' = FALSE, phase' = "running", turn' = 0
          PROVE  sockets' \in SUBSET Sockets /\ MainInv'
      <4>1. s \in Sockets /\ sockets \in SUBSET Sockets
        BY CandidatesAssumption DEF IInv, PoolInv
      <4>2. QED
        BY <1>1, <3>2, <4>1, SlotsInRange DEF IInv, MainInv
    <3>3. QED
      BY <2>2, <3>1, <3>2 DEF create_server
  <2>3. QED
    BY <2>1, <2>2
<1>3. PoolInv'
  BY <1>1, <1>2 DEF IInv, PoolInv, PoolConsistent, Present, FileOwnership, RepliesOwed,
                    Transferring, ClientInv
<1>4. QED
  BY <1>2, <1>3 DEF IInv

-----------------------------------------------------------------------------
(* The invariant, and what follows from it                                 *)

LEMMA InitInv == Init => IInv
<1> SUFFICES ASSUME Init PROVE IInv
  OBVIOUS
<1>1. Present = {} /\ \A c \in Slots : ~Transferring(c)
  BY DEF Init, Present, Transferring
<1>2. PoolInv
  BY <1>1, FS_EmptySet DEF Init, PoolInv, PoolConsistent, FileOwnership, RepliesOwed
<1>3. MainInv
  BY SlotsInRange DEF Init, MainInv
<1>4. QED
  BY <1>2, <1>3 DEF IInv

LEMMA NextInv == IInv /\ [Next]_vars => IInv'
<1> SUFFICES ASSUME IInv, [Next]_vars PROVE IInv'
  OBVIOUS
<1>1. CASE UNCHANGED vars
  BY <1>1, UnchangedPool DEF vars, main, IInv, MainInv
<1>2. CASE process_accept_events
  <2>1. CASE AcceptClient
    BY <2>1, AcceptClientInv
  <2>2. 1 \in 0..Last
    BY PoolAssumption DEF Last
  <2>3. CASE AcceptDone
    BY <2>2, <2>3, UnchangedPool DEF AcceptDone, IInv, MainInv, main
  <2>4. CASE AcceptError
    BY <2>2, <2>4, UnchangedPool DEF AcceptError, IInv, MainInv
  <2>5. QED
    BY <1>2, <2>1, <2>3, <2>4 DEF process_accept_events
<1>3. ASSUME NEW c \in Slots, SkipSlot(c)
      PROVE  IInv'
  BY <1>3, UnchangedPool, SlotsInRange DEF SkipSlot, IInv, MainInv, main
<1>4. ASSUME NEW c \in Slots, process_control_events(c)
      PROVE  IInv'
  BY <1>4, ReadingInv, CommandInv DEF process_control_events
<1>5. ASSUME NEW c \in Slots, process_data_events(c)
      PROVE  IInv'
  BY <1>5, DataEventsInv
<1>6. CASE NextPass \/ Die \/ set_reset_flag
  BY <1>6, UnchangedPool, SlotsInRange
  DEF NextPass, Die, set_reset_flag, IInv, MainInv, main
<1>7. CASE RestartNetwork \/ create_server \/ Exit
  BY <1>7, RestartNetworkInv, ExitInv
<1>8. ASSUME NEW c \in Slots, TimerExpires(c)
      PROVE  IInv'
  BY <1>8, TimerExpiresInv
<1>9. QED
  BY <1>1, <1>2, <1>3, <1>4, <1>5, <1>6, <1>7, <1>8 DEF Next, MainLoop, Terminated

\* The invariant of the pool and of the main loop holds in every state.
THEOREM Invariance == Spec => []IInv
<1>1. Init => IInv
  BY InitInv
<1>2. IInv /\ [Next]_vars => IInv'
  BY NextInv
<1>3. QED
  BY <1>1, <1>2, PTL DEF Spec

\* What a socket listens on.
PortInv == port \in [Sockets -> {"none", "ftp", "data"}]

LEMMA PortStep == ASSUME PortInv, [Next]_vars PROVE PortInv'
<1>1. CASE UNCHANGED port
  BY <1>1 DEF PortInv
<1>2. CASE ClosedStopListening
  BY <1>2 DEF PortInv, ClosedStopListening
<1>3. ASSUME NEW s, port' = [t \in Sockets |-> IF t \notin sockets' THEN "none"
                                             ELSE IF t = s THEN "data" ELSE port[t]]
      PROVE  PortInv'
  BY <1>3 DEF PortInv
<1>4. ASSUME NEW s, port' = [port EXCEPT ![s] = "ftp"] PROVE PortInv'
  BY <1>4 DEF PortInv
<1>5. UNCHANGED vars \/ process_accept_events \/ NextPass \/ Die \/ set_reset_flag \/ Terminated
        => UNCHANGED port
  BY DEF vars, pool, process_accept_events, AcceptClient, AcceptDone, AcceptError, NextPass, Die,
         set_reset_flag, Terminated
<1>6. ASSUME NEW c \in Slots, SkipSlot(c) \/ TimerExpires(c) \/ process_data_events(c)
      PROVE  UNCHANGED port \/ ClosedStopListening
  BY <1>6 DEF pool, SkipSlot, TimerExpires, process_data_events, DataAccepted, DataConnected,
              DataPending, TransferContinues, TransferEnds
<1>7. ASSUME NEW c \in Slots, process_control_events(c) PROVE PortInv'
  <2>1. CASE ReadNothing(c) \/ ReadLines(c) \/ ReadFails(c) \/ RejectLine(c)
    BY <1>1, <1>2, <2>1 DEF pool, ReadNothing, ReadLines, ReadFails, RejectLine
  <2>2. CASE ftp_PASV(c)
    BY <1>2, <1>3, <2>2 DEF ftp_PASV
  <2>3. CASE ftp_SITE_LOAD(c)
    BY <1>1, <2>3 DEF ftp_SITE_LOAD
  <2>4. QED
    BY <1>2, <1>7, <2>1, <2>2, <2>3 DEF process_control_events, process_command
<1>8. CASE create_server
  BY <1>1, <1>4, <1>8 DEF create_server
<1>9. CASE RestartNetwork \/ Exit
  BY <1>2, <1>9 DEF RestartNetwork, Exit
<1>10. QED
  BY <1>1, <1>2, <1>5, <1>6, <1>7, <1>8, <1>9 DEF Next, MainLoop

\* A socket listens on PORT, on a passive port, or not at all.
THEOREM PortInvariance == Spec => []PortInv
<1>1. Init => PortInv
  BY DEF Init, PortInv
<1>2. PortInv /\ [Next]_vars => PortInv'
  BY PortStep
<1>3. QED
  BY <1>1, <1>2, PTL DEF Spec

\* The variables of ftp.c and main() keep their ranges; in particular num_clients
\* never leaves 0..MAX_CLIENTS.
THEOREM TypeCorrect == Spec => []TypeOK
<1>1. IInv /\ PortInv => TypeOK
  BY PresentFinite DEF IInv, PoolInv, MainInv, PortInv, PoolConsistent, TypeOK
<1>2. QED
  BY <1>1, Invariance, PortInvariance, PTL

\* num_clients counts the slots in use.
THEOREM PoolConsistency == Spec => []PoolConsistent
<1>1. IInv => PoolConsistent
  BY DEF IInv, PoolInv
<1>2. QED
  BY <1>1, Invariance, PTL

\* A transfer's handle is open and its own, whatever happens to the network.
THEOREM FileOwnershipHolds == Spec => []FileOwnership
<1>1. IInv => FileOwnership
  BY DEF IInv, PoolInv
<1>2. QED
  BY <1>1, Invariance, PTL

\* A session that is not logged in holds neither listener nor transfer.
THEOREM LoggedOutHoldsNothing == Spec => []UnauthenticatedHoldsNothing
<1>1. IInv => UnauthenticatedHoldsNothing
  BY DEF IInv, PoolInv, UnauthenticatedHoldsNothing, Transferring, ClientInv
<1>2. QED
  BY <1>1, Invariance, PTL

\* A final reply is outstanding exactly while a transfer runs.
THEOREM RepliesOwedHolds == Spec => []RepliesOwed
<1>1. IInv => RepliesOwed
  BY DEF IInv, PoolInv
<1>2. QED
  BY <1>1, Invariance, PTL

-----------------------------------------------------------------------------
(* Sockets and their owners                                                *)

\* The sockets of a client record.
Owned(cl) == {cl.socket, cl.passive_socket, cl.data_socket} \ {NULL}

\* DataConnectionConsistent, of one record.
Linked(cl) ==
  /\ cl.socket \notin {cl.passive_socket, cl.data_socket}
  /\ IF cl.callback = "none"
     THEN /\ cl.data_socket = NULL /\ cl.arg = NULL
          /\ ~cl.connected /\ cl.timer = "off"
     ELSE /\ cl.data_socket # NULL /\ cl.timer # "off"
          /\ cl.passive_socket # NULL =>
               (cl.data_socket = cl.passive_socket <=> ~cl.connected)

SocketInv == SocketOwnership /\ DataConnectionConsistent

LEMMA LinkedPresent == DataConnectionConsistent <=> \A c \in Present : Linked(clients[c])
BY DEF DataConnectionConsistent, Linked

-----------------------------------------------------------------------------
(* Sets of sockets                                                         *)

AllOf(owner) == UNION {owner[c] : c \in Slots}

\* open is divided among the owners and the server.
Divided(open, srv, owner) ==
  /\ open = AllOf(owner) \cup ({srv} \ {NULL})
  /\ \A c, d \in Slots : c # d => owner[c] \cap owner[d] = {}
  /\ \A c \in Slots : srv \notin owner[c]

LEMMA InSomeOwners ==
  ASSUME NEW owner, NEW s
  PROVE  s \in AllOf(owner) <=> \E c \in Slots : s \in owner[c]
<1>1. ASSUME s \in AllOf(owner)
      PROVE  \E c \in Slots : s \in owner[c]
  <2>1. PICK own \in {owner[c] : c \in Slots} : s \in own
    BY <1>1 DEF AllOf
  <2> QED BY <2>1
<1>2. ASSUME NEW c \in Slots, s \in owner[c]
      PROVE  s \in AllOf(owner)
  BY <1>2 DEF AllOf
<1> QED BY <1>1, <1>2

\* One owner exchanges its sockets for others that nobody else has.
LEMMA ChangeOwner ==
  ASSUME NEW open, NEW srv, NEW owner, Divided(open, srv, owner),
         NEW c \in Slots, NEW new, NEW owner2,
         owner2[c] = new, \A d \in Slots \ {c} : owner2[d] = owner[d],
         new \cap (open \ owner[c]) = {}, NULL \notin new
  PROVE  Divided((open \ owner[c]) \cup new, srv, owner2)
<1>1. \A s : s \in open <=> (s = srv /\ s # NULL) \/ \E d \in Slots : s \in owner[d]
  <2>1. \A s : s \in AllOf(owner) <=> \E d \in Slots : s \in owner[d]
    BY InSomeOwners
  <2> QED BY <2>1 DEF Divided
<1>2. srv \notin new
  BY <1>1 DEF Divided
<1>3. \A d \in Slots \ {c} : owner[d] \cap new = {} /\ owner[d] \cap owner[c] = {}
  BY <1>1 DEF Divided
<1>4. \A s : s \in (open \ owner[c]) \cup new
               <=> (s = srv /\ s # NULL) \/ \E d \in Slots : s \in owner2[d]
  <2> TAKE s
  <2>1. CASE s \in new
    BY <2>1
  <2>2. CASE s \notin new
    <3>1. (\E d \in Slots : s \in owner2[d]) <=> \E d \in Slots \ {c} : s \in owner[d]
      BY <2>2
    <3>2. s \in open \ owner[c] <=> (s = srv /\ s # NULL) \/ \E d \in Slots \ {c} : s \in owner[d]
      BY <1>1, <1>3 DEF Divided
    <3> QED BY <2>2, <3>1, <3>2
  <2> QED BY <2>1, <2>2
<1>5. (open \ owner[c]) \cup new = AllOf(owner2) \cup ({srv} \ {NULL})
  <2>1. \A s : s \in AllOf(owner2) <=> \E d \in Slots : s \in owner2[d]
    BY InSomeOwners
  <2>2. \A s : s \in (open \ owner[c]) \cup new <=> s \in AllOf(owner2) \cup ({srv} \ {NULL})
    BY <1>4, <2>1
  <2> QED BY <2>2
<1>6. \A d, e \in Slots : d # e => owner2[d] \cap owner2[e] = {}
  BY <1>3 DEF Divided
<1>7. \A d \in Slots : srv \notin owner2[d]
  BY <1>2 DEF Divided
<1> QED BY <1>5, <1>6, <1>7 DEF Divided

-----------------------------------------------------------------------------
(* A client changes                                                        *)

Owners == [c \in Slots |-> SocketsOf(c)]

\* Before and after a step.
LEMMA OwnersDivide ==
  /\ SocketOwnership <=> Divided(sockets, server, Owners)
  /\ SocketOwnership' <=> Divided(sockets', server', Owners')
<1>1. \A c \in Slots : Owners[c] = SocketsOf(c) /\ Owners'[c] = SocketsOf(c)'
  BY DEF Owners
<1>2. /\ UNION {SocketsOf(c) : c \in Slots} = AllOf(Owners)
      /\ UNION {SocketsOf(c)' : c \in Slots} = AllOf(Owners')
  <2>1. {SocketsOf(c) : c \in Slots} = {Owners[c] : c \in Slots}
    BY <1>1
  <2>2. {SocketsOf(c)' : c \in Slots} = {Owners'[c] : c \in Slots}
    BY <1>1
  <2> QED BY <2>1, <2>2 DEF AllOf
<1>3. /\ (\A c, d \in Slots : c # d => SocketsOf(c) \cap SocketsOf(d) = {})
           <=> \A c, d \in Slots : c # d => Owners[c] \cap Owners[d] = {}
      /\ (\A c, d \in Slots : c # d => SocketsOf(c)' \cap SocketsOf(d)' = {})
           <=> \A c, d \in Slots : c # d => Owners'[c] \cap Owners'[d] = {}
  BY <1>1
<1>4. /\ (\A c \in Slots : server \notin SocketsOf(c)) <=> \A c \in Slots : server \notin Owners[c]
      /\ (\A c \in Slots : server' \notin SocketsOf(c)') <=> \A c \in Slots : server' \notin Owners'[c]
  BY <1>1
<1>5. SocketOwnership <=> Divided(sockets, server, Owners)
  <2> HIDE DEF Owners
  <2> QED BY <1>2, <1>3, <1>4 DEF SocketOwnership, Divided
<1>6. SocketOwnership' <=> Divided(sockets', server', Owners')
  BY <1>2, <1>3, <1>4 DEF SocketOwnership, Divided
<1> QED BY <1>5, <1>6

\* What a handler that leaves cl and the sockets open has to see to.
Replaces(c, cl, open) ==
  /\ open = (sockets \ SocketsOf(c)) \cup Owned(cl)
  /\ Owned(cl) \cap (sockets \ SocketsOf(c)) = {}

LEMMA KeepOwned ==
  ASSUME IInv, SocketInv, NEW c \in Slots, NEW cl \in Client, Linked(cl),
         NEW open, Replaces(c, cl, open),
         clients' = [clients EXCEPT ![c] = cl], sockets' = open, server' = server
  PROVE  SocketInv'
<1>1. cl # NULL /\ clients'[c] = cl /\ \A d \in Slots \ {c} : clients'[d] = clients[d]
  BY NullAssumption DEF IInv, PoolInv
<1>2. Owners'[c] = Owned(cl) /\ \A d \in Slots \ {c} : Owners'[d] = Owners[d]
  BY <1>1 DEF Owners, SocketsOf, Owned
<1>3. Divided(sockets, server, Owners) /\ Owners[c] = SocketsOf(c)
  BY OwnersDivide DEF SocketInv, Owners
<1>4. NULL \notin Owned(cl)
  BY DEF Owned
<1>5. Divided((sockets \ SocketsOf(c)) \cup Owned(cl), server, Owners')
  BY <1>2, <1>3, <1>4, ChangeOwner DEF Replaces
<1>6. SocketOwnership'
  <2>1. Divided(sockets', server', Owners')
    BY <1>5 DEF Replaces
  <2> QED BY <2>1, OwnersDivide
<1>7. DataConnectionConsistent'
  <2>1. \A d \in Slots : clients'[d] # NULL => Linked(clients'[d])
    BY <1>1, LinkedPresent DEF SocketInv, Present
  <2> QED BY <2>1 DEF DataConnectionConsistent, Linked, Present
<1> QED BY <1>6, <1>7 DEF SocketInv

LEMMA CleanupOwned ==
  ASSUME IInv, SocketInv, NEW c \in Slots, clients[c] # NULL, NEW cl \in Client,
         NEW open, Replaces(c, cl, open),
         clients' = [clients EXCEPT ![c] = NULL], sockets' = SocketsAfter(cl, open),
         server' = server
  PROVE  SocketInv'
<1>1. clients'[c] = NULL /\ \A d \in Slots \ {c} : clients'[d] = clients[d]
  BY DEF IInv, PoolInv
<1>2. Owners'[c] = {} /\ \A d \in Slots \ {c} : Owners'[d] = Owners[d]
  BY <1>1 DEF Owners, SocketsOf
<1>3. Divided(sockets, server, Owners) /\ Owners[c] = SocketsOf(c)
  BY OwnersDivide DEF SocketInv, Owners
<1>4. Divided((sockets \ SocketsOf(c)) \cup {}, server, Owners')
  BY <1>2, <1>3, ChangeOwner
<1>5. SocketsAfter(cl, open) = sockets \ SocketsOf(c)
  <2>1. NULL \notin sockets
    BY NullAssumption DEF IInv, PoolInv
  <2> QED BY <2>1 DEF SocketsAfter, DataSocketToClose, Replaces, Owned
<1>6. SocketOwnership'
  <2>1. Divided(sockets', server', Owners')
    BY <1>4, <1>5
  <2> QED BY <2>1, OwnersDivide
<1>7. DataConnectionConsistent'
  <2>1. \A d \in Slots : clients'[d] # NULL => Linked(clients'[d])
    BY <1>1, LinkedPresent DEF SocketInv, Present
  <2> QED BY <2>1 DEF DataConnectionConsistent, Linked, Present
<1> QED BY <1>6, <1>7 DEF SocketInv

LEMMA AnsweredOwned ==
  ASSUME IInv, SocketInv, NEW c \in Slots, clients[c] # NULL,
         NEW cl \in Client, Linked(cl), NEW open, NEW handles, NEW n,
         Replaces(c, cl, open), UNCHANGED server,
         NextLine(c, cl, open, handles, n) \/ Disconnect(c, cl, open, handles)
  PROVE  SocketInv'
BY KeepOwned, CleanupOwned DEF NextLine, Keep, Disconnect, CleanupClient

-----------------------------------------------------------------------------
(* The control connection                                                  *)

\* What is known of the client that a handler works for.
LEMMA OwnerFacts ==
  ASSUME IInv, SocketInv, NEW c \in Slots, clients[c] # NULL
  PROVE  /\ clients[c] \in Client /\ Linked(clients[c])
         /\ SocketsOf(c) = Owned(clients[c]) /\ SocketsOf(c) \subseteq sockets
         /\ sockets \subseteq Sockets /\ NULL \notin Sockets
<1>1. clients[c] \in Client /\ sockets \subseteq Sockets
  BY DEF IInv, PoolInv
<1>2. Linked(clients[c])
  BY LinkedPresent DEF SocketInv, Present
<1>3. SocketsOf(c) = Owned(clients[c])
  BY DEF SocketsOf, Owned
<1>4. SocketsOf(c) \subseteq sockets
  BY DEF SocketInv, SocketOwnership
<1> QED BY <1>1, <1>2, <1>3, <1>4, NullAssumption

\* A record with the same sockets, and all sockets as they are.
LEMMA SameSockets ==
  ASSUME IInv, SocketInv, NEW c \in Slots, clients[c] # NULL,
         NEW cl, cl.socket = clients[c].socket, cl.passive_socket = clients[c].passive_socket,
         cl.data_socket = clients[c].data_socket
  PROVE  Replaces(c, cl, sockets)
<1>1. Owned(cl) = SocketsOf(c) /\ SocketsOf(c) \subseteq sockets
  BY OwnerFacts DEF Owned
<1> QED BY <1>1 DEF Replaces

\* A client between transfers, and the same client when a line has been taken.
LEMMA TakenOwned ==
  ASSUME IInv, SocketInv, NEW c \in Slots, AtLine(c)
  PROVE  /\ clients[c] # NULL /\ Idle(Taken(c)) /\ Linked(Taken(c))
         /\ Taken(c).socket = clients[c].socket
         /\ Taken(c).passive_socket = clients[c].passive_socket
         /\ Taken(c).data_socket = NULL /\ clients[c].data_socket = NULL
         /\ Replaces(c, Taken(c), sockets)
<1>1. clients[c] # NULL /\ Idle(clients[c]) /\ Idle(Taken(c))
  BY TakenClient
<1>2. Linked(clients[c]) /\ clients[c] \in Client
  BY <1>1, OwnerFacts
<1>3. /\ Taken(c).socket = clients[c].socket
      /\ Taken(c).passive_socket = clients[c].passive_socket
      /\ Taken(c).data_socket = clients[c].data_socket
      /\ Taken(c).callback = clients[c].callback /\ Taken(c).arg = clients[c].arg
      /\ Taken(c).connected = clients[c].connected /\ Taken(c).timer = clients[c].timer
  BY <1>2 DEF Taken, Client
<1>4. Linked(Taken(c)) /\ clients[c].data_socket = NULL
  BY <1>1, <1>2, <1>3 DEF Linked, Idle
<1>5. Replaces(c, Taken(c), sockets)
  BY <1>1, <1>3, SameSockets
<1> QED BY <1>1, <1>3, <1>4, <1>5

\* The passive socket is closed, or exchanged for one that is not open.
LEMMA PassiveReplaced ==
  ASSUME IInv, SocketInv, NEW c \in Slots, AtLine(c),
         NEW cl \in Client, cl.socket = Taken(c).socket, cl.data_socket = NULL,
         cl.passive_socket # NULL => cl.passive_socket \notin ClosePassive(c),
         NEW open, open = ClosePassive(c) \cup ({cl.passive_socket} \ {NULL})
  PROVE  Replaces(c, cl, open) /\ cl.socket # cl.passive_socket
<1> DEFINE old == clients[c]
<1>1. /\ old # NULL /\ old.data_socket = NULL /\ cl.socket = old.socket
  BY TakenOwned
<1>2. /\ old \in Client /\ SocketsOf(c) = Owned(old) /\ Owned(old) \subseteq sockets
      /\ Linked(old) /\ NULL \notin sockets /\ NULL \notin Sockets
  BY <1>1, OwnerFacts
<1>3. old.socket \in sockets /\ old.socket # old.passive_socket /\ old.socket # NULL
  BY <1>2 DEF Owned, Linked, Client
<1>4. cl.socket # cl.passive_socket
  BY <1>1, <1>3 DEF ClosePassive
<1>5. Owned(cl) = {cl.socket} \cup ({cl.passive_socket} \ {NULL})
  BY <1>1, <1>3 DEF Owned
<1>6. sockets \ SocketsOf(c) = ClosePassive(c) \ {old.socket}
  BY <1>1, <1>2 DEF Owned, ClosePassive
<1>7. ClosePassive(c) = (ClosePassive(c) \ {old.socket}) \cup {cl.socket}
  BY <1>1, <1>3 DEF ClosePassive
<1>8. Replaces(c, cl, open)
  BY <1>1, <1>5, <1>6, <1>7 DEF Replaces
<1> QED BY <1>4, <1>8

LEMMA UnchangedOwned ==
  ASSUME SocketInv, UNCHANGED <<clients, sockets, server>>
  PROVE  SocketInv'
BY DEF SocketInv, SocketOwnership, DataConnectionConsistent, SocketsOf, Present

LEMMA CommandOwned ==
  ASSUME IInv, SocketInv, NEW c \in Slots, process_command(c)
  PROVE  SocketInv'
<1> DEFINE cl == Taken(c)
<1>1. AtLine(c)
  BY DEF process_command
<1>2. /\ clients[c] # NULL /\ Idle(cl) /\ Linked(cl) /\ cl \in Client
      /\ cl.socket = clients[c].socket
      /\ cl.passive_socket = clients[c].passive_socket
      /\ cl.data_socket = NULL /\ clients[c].data_socket = NULL
      /\ cl.callback = "none" /\ cl.arg = NULL /\ ~cl.connected /\ cl.timer = "off"
      /\ Replaces(c, cl, sockets)
  BY <1>1, TakenOwned DEF Idle, Linked
<1>3. CASE /\ ReplyOnly(c) \/ DropEmptyLine(c) \/ ftp_QUIT(c) \/ ftp_SITE_LOADER(c)
           /\ UNCHANGED main
  <2> HIDE DEF cl
  <2> QED BY <1>2, <1>3, AnsweredOwned
          DEF ReplyOnly, DropEmptyLine, ftp_QUIT, ftp_SITE_LOADER, Answered, main, cl
<1>4. CASE ftp_PASS(c) /\ UNCHANGED main
  <2> DEFINE in == [cl EXCEPT !.authenticated = TRUE]
  <2>1. in \in Client /\ Linked(in) /\ Replaces(c, in, sockets)
    <3>1. /\ in \in Client /\ in.socket = cl.socket /\ in.passive_socket = cl.passive_socket
          /\ in.data_socket = cl.data_socket /\ in.callback = cl.callback /\ in.arg = cl.arg
          /\ in.connected = cl.connected /\ in.timer = cl.timer
      BY <1>2 DEF Client
    <3> HIDE DEF cl, in
    <3> QED BY <1>2, <3>1 DEF Linked, Replaces, Owned
  <2>2. NextLine(c, in, sockets, files, owed[c]) \/ Disconnect(c, in, sockets, files)
    BY <1>4 DEF ftp_PASS, Answered
  <2> HIDE DEF cl, in
  <2> QED BY <1>2, <1>4, <2>1, <2>2, AnsweredOwned DEF main
<1>5. CASE (ftp_REIN(c) \/ ftp_PORT(c)) /\ UNCHANGED main
  <2>1. PICK out \in {LoggedOut(cl), WithoutPassive(cl)} :
          NextLine(c, out, ClosePassive(c), files, owed[c]) \/ Disconnect(c, out, ClosePassive(c), files)
    BY <1>5 DEF ftp_REIN, ftp_PORT, Answered
  <2>2. /\ out \in Client /\ out.socket = cl.socket /\ out.passive_socket = NULL
        /\ out.data_socket = cl.data_socket /\ out.callback = cl.callback /\ out.arg = cl.arg
        /\ out.connected = cl.connected /\ out.timer = cl.timer
    <3> HIDE DEF cl
    <3> QED BY <1>2 DEF Client, LoggedOut, WithoutPassive
  <2>3. Replaces(c, out, ClosePassive(c)) /\ out.socket # out.passive_socket
    BY <1>1, <1>2, <2>2, PassiveReplaced
  <2>4. Linked(out)
    <3> HIDE DEF cl
    <3> QED BY <1>2, <2>2, <2>3, NullAssumption DEF Linked, Client
  <2> QED BY <1>2, <1>5, <2>1, <2>2, <2>3, <2>4, AnsweredOwned DEF main
<1>6. CASE ftp_PASV(c) /\ UNCHANGED main
  <2>1. CASE Answered(c, WithoutPassive(cl), ClosePassive(c), files)
    BY <1>5, <1>6, <2>1 DEF ftp_PORT
  <2>2. ASSUME NEW s \in Candidates(Sockets, ClosePassive(c)),
               Answered(c, [cl EXCEPT !.passive_socket = s], ClosePassive(c) \cup {s}, files)
        PROVE  SocketInv'
    <3> DEFINE new == [cl EXCEPT !.passive_socket = s]
    <3>1. s \in Sockets /\ s \notin ClosePassive(c) /\ s # NULL
      BY CandidatesAssumption, NullAssumption DEF IInv, PoolInv, ClosePassive
    <3>2. /\ new \in Client /\ new.socket = cl.socket /\ new.passive_socket = s
          /\ new.data_socket = cl.data_socket /\ new.callback = cl.callback /\ new.arg = cl.arg
          /\ new.connected = cl.connected /\ new.timer = cl.timer
      <4> HIDE DEF cl
      <4> QED BY <1>2, <3>1 DEF Client
    <3>3. NextLine(c, new, ClosePassive(c) \cup {s}, files, owed[c])
            \/ Disconnect(c, new, ClosePassive(c) \cup {s}, files)
      BY <2>2 DEF Answered
    <3> HIDE DEF new
    <3>4. ClosePassive(c) \cup {s} = ClosePassive(c) \cup ({new.passive_socket} \ {NULL})
      BY <3>1, <3>2
    <3>5. Replaces(c, new, ClosePassive(c) \cup {s}) /\ new.socket # new.passive_socket
      BY <1>1, <1>2, <3>1, <3>2, <3>4, PassiveReplaced
    <3>6. Linked(new)
      <4> HIDE DEF cl
      <4> QED BY <1>2, <3>2, <3>5, NullAssumption DEF Linked, Client
    <3> QED BY <1>2, <1>6, <3>2, <3>3, <3>5, <3>6, AnsweredOwned DEF main
  <2> QED BY <1>6, <2>1, <2>2 DEF ftp_PASV
<1>7. ASSUME NEW cb \in Callbacks, StartTransfer(c, cb), UNCHANGED main
      PROVE  SocketInv'
  <2>1. PICK f \in Candidates(Files, files) : prepare_data_connection(c, cb, f)
    BY <1>7 DEF StartTransfer
  <2>2. ASSUME NEW s \in DataSockets(c),
               NextLine(c, [cl EXCEPT !.data_socket = s, !.callback = cb, !.arg = f,
                                      !.connected = FALSE, !.timer = "running"],
                        sockets \cup ({s} \ {clients[c].passive_socket}), files \cup {f},
                        owed[c] + 1)
        PROVE  SocketInv'
    <3> DEFINE new == [cl EXCEPT !.data_socket = s, !.callback = cb, !.arg = f,
                                 !.connected = FALSE, !.timer = "running"]
    <3>1. /\ SocketsOf(c) = Owned(clients[c]) /\ SocketsOf(c) \subseteq sockets
          /\ sockets \subseteq Sockets /\ NULL \notin Sockets /\ clients[c] \in Client
          /\ Linked(clients[c])
      BY <1>2, OwnerFacts
    <3>2. /\ s \in Sockets /\ s # NULL
          /\ cl.passive_socket = NULL => s \notin sockets
          /\ cl.passive_socket # NULL => s = cl.passive_socket
      BY <1>2, <3>1, CandidatesAssumption DEF DataSockets, Client
    <3>3. f \in Files
      BY FreshHandle DEF IInv
    <3>4. /\ new \in Client /\ new.socket = cl.socket /\ new.passive_socket = cl.passive_socket
          /\ new.data_socket = s /\ new.callback = cb /\ new.connected = FALSE
          /\ new.timer = "running"
      <4> HIDE DEF cl, Callbacks
      <4> QED BY <1>2, <3>2, <3>3 DEF Client
    <3>5. cl.socket \in sockets /\ cl.socket # cl.passive_socket
      BY <1>2, <3>1 DEF Owned, Linked, Client
    <3>6. NextLine(c, new, sockets \cup {s}, files \cup {f}, owed[c] + 1)
      <4>1. NextLine(c, new, sockets \cup ({s} \ {clients[c].passive_socket}),
                     files \cup {f}, owed[c] + 1)
        BY <2>2
      <4>2. clients[c].passive_socket # NULL => clients[c].passive_socket \in sockets
        BY <3>1 DEF Owned
      <4>3. sockets \cup ({s} \ {clients[c].passive_socket}) = sockets \cup {s}
        BY <3>2, <4>2
      <4> HIDE DEF new
      <4> QED BY <4>1, <4>3
    <3> HIDE DEF new, cl
    <3>7. Linked(new)
      BY <3>2, <3>4, <3>5 DEF Linked, Callbacks
    <3>8. Owned(new) = SocketsOf(c) \cup {s} /\ (s \in SocketsOf(c) \/ s \notin sockets)
      <4>1. Owned(new) = ({cl.socket, cl.passive_socket} \ {NULL}) \cup {s}
        BY <3>2, <3>4 DEF Owned
      <4>2. SocketsOf(c) = {cl.socket, cl.passive_socket} \ {NULL}
        BY <1>2, <3>1 DEF Owned
      <4> QED BY <3>2, <4>1, <4>2
    <3>9. Replaces(c, new, sockets \cup {s})
      BY <3>1, <3>8 DEF Replaces
    <3> QED BY <1>2, <1>7, <3>4, <3>6, <3>7, <3>9, AnsweredOwned DEF main
  <2>3. CASE NextLine(c, cl, sockets, files \cup {f}, owed[c]) \/ Disconnect(c, cl, sockets, files)
    <3> HIDE DEF cl
    <3> QED BY <1>2, <1>7, <2>3, AnsweredOwned DEF main
  <2> QED BY <2>1, <2>2, <2>3 DEF prepare_data_connection
<1>8. CASE ftp_SITE_LOAD(c)
  BY <1>8, UnchangedOwned DEF ftp_SITE_LOAD
<1> QED BY <1>3, <1>4, <1>5, <1>6, <1>7, <1>8 DEF process_command

-----------------------------------------------------------------------------
(* The other actions                                                       *)

LEMMA AcceptClientOwned ==
  ASSUME IInv, SocketInv, AcceptClient
  PROVE  SocketInv'
<1>1. PICK c \in Slots, s \in Candidates(Sockets, sockets) :
        /\ clients[c] = NULL
        /\ clients' = [clients EXCEPT ![c] =
             [socket |-> s, authenticated |-> FALSE, lines |-> 0,
              passive_socket |-> NULL, data_socket |-> NULL, connected |-> FALSE,
              callback |-> "none", arg |-> NULL, timer |-> "off"]]
        /\ sockets' = sockets \cup {s}
  BY DEF AcceptClient
<1> DEFINE cl == [socket |-> s, authenticated |-> FALSE, lines |-> 0,
                  passive_socket |-> NULL, data_socket |-> NULL, connected |-> FALSE,
                  callback |-> "none", arg |-> NULL, timer |-> "off"]
<1>2. s \in Sockets /\ s \notin sockets /\ s # NULL
  BY CandidatesAssumption, NullAssumption DEF IInv, PoolInv
<1>3. cl \in Client
  BY <1>2, PoolAssumption DEF Client
<1>4. Linked(cl) /\ Owned(cl) = {s}
  BY <1>2 DEF Linked, Owned
<1>5. SocketsOf(c) = {}
  BY <1>1 DEF SocketsOf
<1>6. Replaces(c, cl, sockets \cup {s})
  BY <1>2, <1>4, <1>5 DEF Replaces
<1>7. clients' = [clients EXCEPT ![c] = cl] /\ sockets' = sockets \cup {s} /\ server' = server
  BY <1>1 DEF AcceptClient, main
<1> HIDE DEF cl
<1> QED BY <1>3, <1>4, <1>6, <1>7, KeepOwned

LEMMA ReadingOwned ==
  ASSUME IInv, SocketInv, NEW c \in Slots,
         ReadNothing(c) \/ ReadLines(c) \/ ReadFails(c) \/ RejectLine(c)
  PROVE  SocketInv'
<1>1. clients[c] # NULL /\ UNCHANGED server
  BY DEF ReadNothing, ReadLines, ReadFails, RejectLine, Reading, AtLine, Visiting, main
<1>2. clients[c] \in Client /\ Linked(clients[c]) /\ Replaces(c, clients[c], sockets)
  BY <1>1, OwnerFacts, SameSockets
<1>3. CASE ReadNothing(c)
  BY <1>1, <1>3, UnchangedOwned DEF ReadNothing, pool
<1>4. CASE ReadLines(c)
  <2>1. PICK n \in clients[c].lines..MaxLines : clients' = [clients EXCEPT ![c].lines = n]
    BY <1>4 DEF ReadLines
  <2> DEFINE cl == [clients[c] EXCEPT !.lines = n]
  <2>2. /\ cl \in Client /\ cl.socket = clients[c].socket
        /\ cl.passive_socket = clients[c].passive_socket
        /\ cl.data_socket = clients[c].data_socket /\ cl.callback = clients[c].callback
        /\ cl.arg = clients[c].arg /\ cl.connected = clients[c].connected
        /\ cl.timer = clients[c].timer
    <3>1. n \in 0..MaxLines
      BY <1>2 DEF Client
    <3> QED BY <1>2, <3>1 DEF Client
  <2>3. clients' = [clients EXCEPT ![c] = cl] /\ sockets' = sockets
    BY <1>4, <2>1 DEF ReadLines
  <2> HIDE DEF cl
  <2>4. Linked(cl) /\ Replaces(c, cl, sockets)
    BY <1>1, <1>2, <2>2, SameSockets DEF Linked
  <2> QED BY <1>1, <2>2, <2>3, <2>4, KeepOwned
<1>5. CASE ReadFails(c) \/ RejectLine(c)
  BY <1>1, <1>2, <1>5, CleanupOwned DEF ReadFails, RejectLine, Disconnect, CleanupClient
<1> QED BY <1>3, <1>4, <1>5

LEMMA DataEventsOwned ==
  ASSUME IInv, SocketInv, NEW c \in Slots, process_data_events(c)
  PROVE  SocketInv'
<1> DEFINE old == clients[c]
<1>1. old # NULL /\ old.callback # "none" /\ UNCHANGED server
  BY DEF process_data_events, DataAccepted, DataConnected, DataPending, TransferContinues, TransferEnds,
         DataEvent, Visiting, Transferring, main
<1>2. /\ old \in Client /\ Linked(old) /\ SocketsOf(c) = Owned(old)
      /\ SocketsOf(c) \subseteq sockets /\ sockets \subseteq Sockets /\ NULL \notin Sockets
  BY <1>1, OwnerFacts
<1>3. /\ old.data_socket # NULL /\ old.timer # "off" /\ old.socket # old.data_socket
      /\ old.socket # old.passive_socket /\ old.socket # NULL
      /\ old.passive_socket # NULL => (old.data_socket = old.passive_socket <=> ~old.connected)
  BY <1>1, <1>2 DEF Linked, Client
<1>4. CASE DataPending(c) \/ TransferContinues(c)
  BY <1>1, <1>4, UnchangedOwned DEF DataPending, TransferContinues, pool
<1>5. CASE DataAccepted(c) \/ DataConnected(c)
  <2>1. PICK s \in IF old.passive_socket # NULL
                   THEN Candidates(Sockets, sockets) ELSE {old.data_socket} :
          Keep(c, [old EXCEPT !.data_socket = s, !.connected = TRUE],
               sockets \cup {s}, files, owed[c])
    <3>1. CASE DataAccepted(c)
      BY <3>1 DEF DataAccepted
    <3>2. CASE DataConnected(c)
      <4>1. old.passive_socket = NULL /\ old.data_socket \in sockets
        BY <3>2 DEF DataConnected, Usable
      <4>2. Keep(c, [old EXCEPT !.connected = TRUE], sockets, files, owed[c])
        BY <3>2 DEF DataConnected
      <4>3. /\ [old EXCEPT !.connected = TRUE]
                 = [old EXCEPT !.data_socket = old.data_socket, !.connected = TRUE]
            /\ sockets \cup {old.data_socket} = sockets
        BY <1>2, <4>1 DEF Client
      <4>4. Keep(c, [old EXCEPT !.data_socket = old.data_socket, !.connected = TRUE],
                 sockets \cup {old.data_socket}, files, owed[c])
        BY <4>2, <4>3
      <4> QED BY <4>1, <4>4
    <3> QED BY <1>5, <3>1, <3>2
  <2>2. ~old.connected
    BY <1>5 DEF DataAccepted, DataConnected, Waiting
  <2>3. /\ s \in Sockets /\ s # NULL
        /\ old.passive_socket # NULL => s \notin sockets /\ old.data_socket = old.passive_socket
        /\ old.passive_socket = NULL => s = old.data_socket
    BY <1>2, <1>3, <2>2, CandidatesAssumption DEF Client
  <2> DEFINE cl == [old EXCEPT !.data_socket = s, !.connected = TRUE]
  <2>4. /\ cl \in Client /\ cl.socket = old.socket /\ cl.passive_socket = old.passive_socket
        /\ cl.data_socket = s /\ cl.callback = old.callback /\ cl.connected = TRUE
        /\ cl.timer = old.timer
    BY <1>2, <2>3 DEF Client
  <2>5. clients' = [clients EXCEPT ![c] = cl] /\ sockets' = sockets \cup {s}
    BY <2>1 DEF Keep
  <2>6. {old.socket, old.passive_socket} \ {NULL} \subseteq sockets
    BY <1>2 DEF Owned
  <2> HIDE DEF cl, old
  <2>7. old.socket # s /\ (old.passive_socket # NULL => old.passive_socket # s)
    BY <1>3, <2>3, <2>6
  <2>8. Linked(cl)
    BY <1>1, <1>3, <2>3, <2>4, <2>7 DEF Linked
  <2>9. Owned(cl) = SocketsOf(c) \cup {s}
    <3>1. Owned(cl) = ({old.socket, old.passive_socket} \ {NULL}) \cup {s}
      BY <2>3, <2>4 DEF Owned
    <3>2. SocketsOf(c) = ({old.socket, old.passive_socket} \ {NULL}) \cup {old.data_socket}
      BY <1>2, <1>3 DEF Owned
    <3> QED BY <2>3, <3>1, <3>2
  <2>10. s \in SocketsOf(c) \/ s \notin sockets
    BY <1>2, <1>3, <2>3 DEF Owned
  <2>11. Replaces(c, cl, sockets \cup {s})
    BY <1>2, <2>9, <2>10 DEF Replaces
  <2> QED BY <1>1, <2>4, <2>5, <2>8, <2>11, KeepOwned
<1>6. CASE TransferEnds(c)
  <2> DEFINE cl   == CleanupDataResources(old)
             open == sockets \ DataSocketToClose(old)
  <2>1. \/ clients' = [clients EXCEPT ![c] = cl] /\ sockets' = open
        \/ clients' = [clients EXCEPT ![c] = NULL] /\ sockets' = SocketsAfter(cl, open)
    BY <1>6 DEF TransferEnds, Keep, CleanupClient
  <2>2. /\ cl \in Client /\ cl.socket = old.socket /\ cl.passive_socket = old.passive_socket
        /\ cl.data_socket = NULL /\ cl.callback = "none" /\ cl.arg = NULL
        /\ cl.connected = FALSE /\ cl.timer = "off"
    BY <1>2 DEF CleanupDataResources, Client
  <2>3. open = sockets \ ({old.data_socket} \ {old.passive_socket})
    BY DEF DataSocketToClose
  <2> HIDE DEF cl, open, old
  <2>4. Linked(cl)
    BY <1>3, <2>2 DEF Linked
  <2>5. Replaces(c, cl, open)
    <3>1. Owned(cl) = {old.socket, old.passive_socket} \ {NULL}
      BY <2>2 DEF Owned
    <3>2. SocketsOf(c) = ({old.socket, old.passive_socket} \ {NULL}) \cup {old.data_socket}
      BY <1>2, <1>3 DEF Owned
    <3> QED BY <1>2, <1>3, <2>3, <3>1, <3>2 DEF Replaces
  <2> QED BY <1>1, <2>1, <2>2, <2>4, <2>5, KeepOwned, CleanupOwned DEF old
<1> QED BY <1>4, <1>5, <1>6 DEF process_data_events

LEMMA TimerExpiresOwned ==
  ASSUME IInv, SocketInv, NEW c \in Slots, TimerExpires(c)
  PROVE  SocketInv'
<1> DEFINE cl == [clients[c] EXCEPT !.timer = "expired"]
<1>1. clients[c] # NULL /\ clients[c].callback # "none"
  BY DEF TimerExpires, Waiting, Transferring
<1>2. clients[c] \in Client /\ Linked(clients[c])
  BY <1>1, OwnerFacts
<1>3. /\ cl \in Client /\ cl.socket = clients[c].socket
      /\ cl.passive_socket = clients[c].passive_socket
      /\ cl.data_socket = clients[c].data_socket /\ cl.callback = clients[c].callback
      /\ cl.connected = clients[c].connected /\ cl.timer = "expired"
  BY <1>2 DEF Client
<1>4. clients' = [clients EXCEPT ![c] = cl] /\ sockets' = sockets /\ server' = server
  BY DEF TimerExpires, main
<1> HIDE DEF cl
<1>5. Linked(cl) /\ Replaces(c, cl, sockets)
  BY <1>1, <1>2, <1>3, SameSockets DEF Linked
<1> QED BY <1>3, <1>4, <1>5, KeepOwned

\* A restart closes the old listening socket; a new one is nobody else's.
LEMMA RestartOwned ==
  ASSUME IInv, SocketInv,
         \/ SocketsSurviveDeinit /\ RestartNetwork
         \/ create_server /\ server' # server
  PROVE  SocketInv'
<1>2. UNCHANGED clients /\ server' \notin sockets \ {server}
      /\ sockets' = (sockets \ {server}) \cup ({server'} \ {NULL})
  <2>1. NULL \notin sockets /\ sockets \in SUBSET Sockets
    BY NullAssumption DEF IInv, PoolInv
  <2>2. CASE SocketsSurviveDeinit /\ RestartNetwork
    BY <2>1, <2>2 DEF RestartNetwork
  <2>3. CASE create_server /\ server' # server
    <3>1. PICK s \in Candidates(Sockets, sockets) : server' = s /\ sockets' = sockets \cup {s}
      BY <2>3 DEF create_server
    <3>2. s \notin sockets /\ s # NULL /\ server = NULL
      BY <2>1, <2>3, CandidatesAssumption, NullAssumption DEF create_server, IInv, MainInv
    <3>3. UNCHANGED clients
      BY <2>3 DEF create_server
    <3> QED BY <2>1, <3>1, <3>2, <3>3
  <2> QED BY <2>2, <2>3
<1>3. Divided(sockets, server, Owners)
  BY OwnersDivide DEF SocketInv
<1>4. \A s : s \in sockets <=> (s = server /\ s # NULL) \/ \E d \in Slots : s \in Owners[d]
  <2>1. \A s : s \in AllOf(Owners) <=> \E d \in Slots : s \in Owners[d]
    BY InSomeOwners
  <2> QED BY <1>3, <2>1 DEF Divided
<1>5. \A s : s \in AllOf(Owners) <=> s \in sockets /\ s # server
  <2>1. \A s : s \in AllOf(Owners) <=> \E d \in Slots : s \in Owners[d]
    BY InSomeOwners
  <2> QED BY <1>3, <1>4, <2>1 DEF Divided
<1>6. AllOf(Owners) = sockets \ {server}
  BY <1>5
<1>7. \A d \in Slots : server' \notin Owners[d]
  <2>1. \A s : s \in AllOf(Owners) <=> \E d \in Slots : s \in Owners[d]
    BY InSomeOwners
  <2> QED BY <1>2, <1>6, <2>1
<1>8. Owners' = Owners
  BY <1>2 DEF Owners, SocketsOf
<1>9. Divided(sockets', server', Owners')
  <2>1. sockets' = AllOf(Owners) \cup ({server'} \ {NULL})
    BY <1>2, <1>6
  <2> QED BY <1>3, <1>7, <1>8, <2>1 DEF Divided
<1>10. DataConnectionConsistent'
  BY <1>2 DEF SocketInv, DataConnectionConsistent, Present
<1> QED BY <1>9, <1>10, OwnersDivide DEF SocketInv

LEMMA ExitOwned ==
  ASSUME IInv, SocketInv, Exit
  PROVE  SocketInv'
<1>1. /\ clients' = [c \in Slots |-> NULL] /\ server' = NULL
      /\ sockets' = {s \in sockets \ {server} :
                       \A c \in Present : s \in SocketsAfter(clients[c], sockets)}
  BY DEF Exit
<1>2. sockets' = {}
  <2> SUFFICES ASSUME NEW s \in sockets \ {server}
               PROVE  \E c \in Present : s \notin SocketsAfter(clients[c], sockets)
    BY <1>1
  <2>1. \E c \in Slots : s \in Owners[c]
    <3>1. s \in AllOf(Owners)
      BY OwnersDivide DEF SocketInv, Divided
    <3> QED BY <3>1, InSomeOwners
  <2>2. PICK c \in Slots : s \in SocketsOf(c)
    BY <2>1 DEF Owners
  <2>3. c \in Present
    BY <2>2 DEF SocketsOf, Present
  <2>4. s \notin SocketsAfter(clients[c], sockets)
    BY <2>2 DEF SocketsOf, SocketsAfter, DataSocketToClose
  <2> QED BY <2>3, <2>4
<1>3. \A c \in Slots : SocketsOf(c)' = {}
  BY <1>1 DEF SocketsOf
<1>4. Divided(sockets', server', Owners')
  <2>1. \A c \in Slots : Owners'[c] = {}
    BY <1>3 DEF Owners
  <2>2. AllOf(Owners') = {}
    BY <2>1 DEF AllOf
  <2> QED BY <1>1, <1>2, <2>1, <2>2 DEF Divided
<1>5. DataConnectionConsistent'
  BY <1>1 DEF DataConnectionConsistent, Present
<1> QED BY <1>4, <1>5, OwnersDivide DEF SocketInv

-----------------------------------------------------------------------------
(* Every action                                                            *)

LEMMA InitOwned == Init => SocketInv
<1> SUFFICES ASSUME Init PROVE SocketInv
  OBVIOUS
<1>1. \A c \in Slots : clients[c] = NULL
  BY DEF Init
<1>2. Divided(sockets, server, Owners)
  <2>1. \A c \in Slots : Owners[c] = {}
    BY <1>1 DEF Owners, SocketsOf
  <2>2. AllOf(Owners) = {}
    BY <2>1 DEF AllOf
  <2> QED BY <2>1, <2>2 DEF Init, Divided
<1>3. DataConnectionConsistent
  BY <1>1 DEF DataConnectionConsistent, Present
<1> QED BY <1>2, <1>3, OwnersDivide DEF SocketInv

LEMMA NextOwned ==
  ASSUME SocketsSurviveDeinit, IInv, SocketInv, [Next]_vars
  PROVE  SocketInv'
<1>1. CASE UNCHANGED vars
  BY <1>1, UnchangedOwned DEF vars, pool, main
<1>2. CASE process_accept_events
  BY <1>2, AcceptClientOwned, UnchangedOwned
  DEF process_accept_events, AcceptDone, AcceptError, pool, main
<1>3. ASSUME NEW c \in Slots, SkipSlot(c)
      PROVE  SocketInv'
  BY <1>3, UnchangedOwned DEF SkipSlot, pool, main
<1>4. ASSUME NEW c \in Slots, process_control_events(c)
      PROVE  SocketInv'
  BY <1>4, ReadingOwned, CommandOwned DEF process_control_events
<1>5. ASSUME NEW c \in Slots, process_data_events(c)
      PROVE  SocketInv'
  BY <1>5, DataEventsOwned
<1>6. CASE NextPass \/ Die \/ set_reset_flag
  BY <1>6, UnchangedOwned DEF NextPass, Die, set_reset_flag, pool, main
<1>7. CASE RestartNetwork \/ create_server \/ Exit
  <2>1. CASE create_server
    <3>1. server' = server => UNCHANGED <<clients, sockets, server>>
      <4>1. \A s \in Candidates(Sockets, sockets) : s # server
        BY <2>1, CandidatesAssumption, NullAssumption
        DEF create_server, IInv, MainInv, PoolInv
      <4> QED BY <2>1, <4>1 DEF create_server
    <3> QED BY <2>1, <3>1, RestartOwned, UnchangedOwned
  <2> QED BY <1>7, <2>1, RestartOwned, ExitOwned
<1>8. ASSUME NEW c \in Slots, TimerExpires(c)
      PROVE  SocketInv'
  BY <1>8, TimerExpiresOwned
<1> QED BY <1>1, <1>2, <1>3, <1>4, <1>5, <1>6, <1>7, <1>8 DEF Next, MainLoop, Terminated

-----------------------------------------------------------------------------
(* What a transfer leaves untouched                                        *)

\* TransfersAreSerial, for one client.
Undisturbed(c) ==
  Transferring(c) /\ clients'[c] # NULL =>
    /\ clients'[c].lines = clients[c].lines
    /\ clients'[c].authenticated = clients[c].authenticated
    /\ clients'[c].passive_socket = clients[c].passive_socket

\* The handlers of the control connection write one client, which has no transfer.
LEMMA ControlUndisturbed ==
  ASSUME IInv, NEW c \in Slots, process_control_events(c)
  PROVE  \A d \in Slots : Undisturbed(d)
<1>1. ~Transferring(c)
  BY DEF process_control_events, ReadNothing, ReadLines, ReadFails, RejectLine, Reading, AtLine,
         process_command
<1>2. (\E cl : clients' = [clients EXCEPT ![c] = cl]) \/ clients' = clients
  <2>1. ASSUME NEW cl, NEW open, NEW handles, NEW n,
               NextLine(c, cl, open, handles, n) \/ Disconnect(c, cl, open, handles)
        PROVE  \E new : clients' = [clients EXCEPT ![c] = new]
    BY <2>1 DEF NextLine, Keep, Disconnect, CleanupClient
  <2>2. CASE ReadNothing(c) \/ ReadLines(c)
    BY <2>2 DEF ReadNothing, ReadLines, pool
  <2>3. CASE ReadFails(c) \/ RejectLine(c)
    BY <2>1, <2>3 DEF ReadFails, RejectLine
  <2>4. CASE process_command(c)
    <3>1. CASE ReplyOnly(c) \/ DropEmptyLine(c) \/ ftp_PASS(c) \/ ftp_REIN(c) \/ ftp_QUIT(c)
                 \/ ftp_PORT(c) \/ ftp_SITE_LOADER(c)
      BY <2>1, <3>1 DEF ReplyOnly, DropEmptyLine, ftp_PASS, ftp_REIN, ftp_QUIT, ftp_PORT,
                        ftp_SITE_LOADER, Answered
    <3>2. CASE ftp_PASV(c)
      BY <2>1, <3>2 DEF ftp_PASV, Answered
    <3>3. CASE \E cb \in Callbacks : StartTransfer(c, cb)
      BY <2>1, <3>3 DEF StartTransfer, prepare_data_connection
    <3>4. CASE ftp_SITE_LOAD(c)
      BY <3>4 DEF ftp_SITE_LOAD
    <3> QED BY <2>4, <3>1, <3>2, <3>3, <3>4 DEF process_command
  <2> QED BY <2>2, <2>3, <2>4 DEF process_control_events
<1>3. \A d \in Slots \ {c} : clients'[d] = clients[d]
  BY <1>2 DEF IInv, PoolInv
<1> QED BY <1>1, <1>3 DEF Undisturbed

LEMMA DataUndisturbed ==
  ASSUME IInv, NEW c \in Slots, process_data_events(c) \/ TimerExpires(c)
  PROVE  \A d \in Slots : Undisturbed(d)
<1>1. clients[c] \in Client
  <2>1. clients[c] # NULL
    BY DEF process_data_events, DataAccepted, DataConnected, DataPending, TransferContinues, TransferEnds,
           DataEvent, Visiting, TimerExpires, Waiting, Transferring
  <2> QED BY <2>1, VisitedClient DEF IInv
<1>2. PICK cl :
        /\ clients' = [clients EXCEPT ![c] = cl]
        /\ cl # NULL => /\ cl.lines = clients[c].lines
                        /\ cl.authenticated = clients[c].authenticated
                        /\ cl.passive_socket = clients[c].passive_socket
  <2>1. CASE DataPending(c) \/ TransferContinues(c)
    <3>1. clients' = [clients EXCEPT ![c] = clients[c]]
      BY <2>1 DEF DataPending, TransferContinues, pool, IInv, PoolInv
    <3> QED BY <3>1
  <2>2. CASE DataAccepted(c) \/ DataConnected(c)
    <3>1. PICK s : clients' = [clients EXCEPT ![c] =
                                 [clients[c] EXCEPT !.data_socket = s, !.connected = TRUE]]
      <4>1. [clients[c] EXCEPT !.connected = TRUE]
              = [clients[c] EXCEPT !.data_socket = clients[c].data_socket, !.connected = TRUE]
        BY <1>1 DEF Client
      <4> QED BY <2>2, <4>1 DEF DataAccepted, DataConnected, Keep
    <3>2. /\ [clients[c] EXCEPT !.data_socket = s, !.connected = TRUE].lines = clients[c].lines
          /\ [clients[c] EXCEPT !.data_socket = s, !.connected = TRUE].authenticated
               = clients[c].authenticated
          /\ [clients[c] EXCEPT !.data_socket = s, !.connected = TRUE].passive_socket
               = clients[c].passive_socket
      BY <1>1 DEF Client
    <3> QED BY <3>1, <3>2
  <2>3. CASE TransferEnds(c)
    <3> DEFINE after == CleanupDataResources(clients[c])
    <3>1. clients' = [clients EXCEPT ![c] = after] \/ clients' = [clients EXCEPT ![c] = NULL]
      BY <2>3 DEF TransferEnds, Keep, CleanupClient
    <3>2. /\ after.lines = clients[c].lines /\ after.authenticated = clients[c].authenticated
          /\ after.passive_socket = clients[c].passive_socket
      BY <1>1 DEF CleanupDataResources, Client
    <3> HIDE DEF after
    <3> QED BY <3>1, <3>2
  <2>4. CASE TimerExpires(c)
    <3> DEFINE after == [clients[c] EXCEPT !.timer = "expired"]
    <3>1. clients' = [clients EXCEPT ![c] = after]
      BY <2>4 DEF TimerExpires
    <3>2. /\ after.lines = clients[c].lines /\ after.authenticated = clients[c].authenticated
          /\ after.passive_socket = clients[c].passive_socket
      BY <1>1 DEF Client
    <3> HIDE DEF after
    <3> QED BY <3>1, <3>2
  <2> QED BY <2>1, <2>2, <2>3, <2>4 DEF process_data_events
<1>3. clients'[c] = cl /\ \A d \in Slots \ {c} : clients'[d] = clients[d]
  BY <1>2 DEF IInv, PoolInv
<1> QED BY <1>2, <1>3 DEF Undisturbed

LEMMA NextUndisturbed ==
  ASSUME IInv, [Next]_vars
  PROVE  \A c \in Slots : Undisturbed(c)
<1>1. CASE UNCHANGED clients
  BY <1>1 DEF Undisturbed
<1>2. CASE AcceptClient
  <2>1. PICK c \in Slots : clients[c] = NULL /\ \E cl : clients' = [clients EXCEPT ![c] = cl]
    BY <1>2 DEF AcceptClient
  <2>2. \A d \in Slots \ {c} : clients'[d] = clients[d]
    BY <2>1 DEF IInv, PoolInv
  <2> QED BY <2>1, <2>2 DEF Undisturbed, Transferring
<1>3. ASSUME NEW c \in Slots, process_control_events(c) \/ process_data_events(c) \/ TimerExpires(c)
      PROVE  \A d \in Slots : Undisturbed(d)
  BY <1>3, ControlUndisturbed, DataUndisturbed
<1>4. CASE Exit
  BY <1>4 DEF Exit, Undisturbed
<1>5. CASE \/ AcceptDone \/ AcceptError \/ NextPass \/ RestartNetwork \/ create_server \/ Die
           \/ set_reset_flag \/ UNCHANGED vars \/ \E c \in Slots : SkipSlot(c)
  <2>1. UNCHANGED clients
    BY <1>5 DEF AcceptDone, AcceptError, NextPass, RestartNetwork, create_server, Die,
                set_reset_flag, SkipSlot, vars, pool
  <2> QED BY <1>1, <2>1
<1> QED BY <1>2, <1>3, <1>4, <1>5 DEF Next, MainLoop, process_accept_events, Terminated

-----------------------------------------------------------------------------
(* The theorems                                                            *)

\* If net_deinit leaves open sockets alone, ownership is invariant.
THEOREM SocketInvariance == SocketsSurviveDeinit => (Spec => []SocketInv)
<1> SUFFICES ASSUME SocketsSurviveDeinit PROVE Spec => []SocketInv
  OBVIOUS
<1>1. Init => SocketInv
  BY InitOwned
<1>2. IInv /\ SocketInv /\ [Next]_vars => SocketInv'
  BY NextOwned
<1> QED BY <1>1, <1>2, Invariance, PTL DEF Spec

\* No descriptor has two owners and none that is open has no owner: PASV, PORT, REIN,
\* transfers and disconnects close what is theirs, and nothing else.
THEOREM SocketOwnershipHolds == SocketsSurviveDeinit => (Spec => []SocketOwnership)
<1> SUFFICES ASSUME SocketsSurviveDeinit PROVE Spec => []SocketOwnership
  OBVIOUS
<1>1. SocketInv => SocketOwnership
  BY DEF SocketInv
<1> QED BY <1>1, SocketInvariance, PTL

\* The data socket is the passive socket exactly until the connection is accepted, and
\* between transfers there is none.
THEOREM DataConnectionHolds == SocketsSurviveDeinit => (Spec => []DataConnectionConsistent)
<1> SUFFICES ASSUME SocketsSurviveDeinit PROVE Spec => []DataConnectionConsistent
  OBVIOUS
<1>1. SocketInv => DataConnectionConsistent
  BY DEF SocketInv
<1> QED BY <1>1, SocketInvariance, PTL

\* No step executes a command of a client, or changes its login or its listener, while
\* it has a transfer, whatever net_deinit does.
THEOREM TransfersSerial == Spec => TransfersAreSerial
<1>1. IInv /\ [Next]_vars =>
        [\A c \in Slots :
           Transferring(c) /\ clients'[c] # NULL =>
             /\ clients'[c].lines = clients[c].lines
             /\ clients'[c].authenticated = clients[c].authenticated
             /\ clients'[c].passive_socket = clients[c].passive_socket]_vars
  BY NextUndisturbed DEF Undisturbed
<1> QED BY <1>1, Invariance, PTL DEF Spec, TransfersAreSerial
=============================================================================
