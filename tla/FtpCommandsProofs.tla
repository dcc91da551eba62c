------------------------- MODULE FtpCommandsProofs -------------------------
(***************************************************************************)
(* The properties of FtpCommands for all sessions, files, addresses,       *)
(* passwords and positions.                                                *)
(***************************************************************************)
EXTENDS FtpCommands, TLAPS

\* What is true of one session, whatever the others do.
SessionInv(c, s, h) ==
  s.connected =>
    /\ MayLogIn(c, password) => h.admitted
    /\ s.authenticated => h.admitted
    /\ s.pending_rename # NULL =>
         /\ h.named # NULL
         /\ \/ Resolve(s.cwd, s.pending_rename) = h.named
            \/ s.pending_rename \in Names /\ h.moved
    /\ s.restart_marker # 0 => s.restart_marker = h.rest
    /\ h.told # NULL => h.told = IF s.passive THEN "passive" ELSE s.address

IInv == TypeOK /\ \A c \in Sessions : SessionInv(c, session[c], history[c])

-----------------------------------------------------------------------------

\* What a name stands for is a file in a directory.
LEMMA ResolveType ==
  ASSUME NEW dir \in Dirs, NEW path \in Paths
  PROVE  Resolve(dir, path) \in Dirs \X Names /\ Resolve(dir, path) # NULL
  BY ValuesAssumption DEF Resolve, Paths

\* What may be asked of a peer is a Boolean value, as a field of a record has to be.
LEMMA MayLogInType == ASSUME NEW c \in Sessions PROVE MayLogIn(c, password) \in BOOLEAN
  BY DEF MayLogIn

\* A step that gives one session the record s and the history h keeps the invariant if
\* it does so for that session.
LEMMA OneSession ==
  ASSUME IInv, NEW c \in Sessions, NEW s \in Session, NEW h \in History,
         session' = [session EXCEPT ![c] = s], history' = [history EXCEPT ![c] = h],
         UNCHANGED password, SessionInv(c, s, h)
  PROVE  IInv'
  BY DEF IInv, TypeOK, SessionInv, MayLogIn

\* The initial states satisfy the invariant: nobody is connected.
LEMMA InitIInv == Init => IInv
<1> SUFFICES ASSUME Init PROVE IInv
  OBVIOUS
<1>1. TypeOK
  BY ValuesAssumption DEF Init, TypeOK, Session, History, Unasked, MayLogIn
<1>2. \A c \in Sessions : ~session[c].connected
  BY DEF Init
<1> QED
  BY <1>1, <1>2 DEF IInv, SessionInv

\* A new session has nothing of the one before it.
LEMMA AcceptKeeps ==
  ASSUME IInv, NEW c \in Sessions, Accept(c) PROVE IInv'
<1> DEFINE s == session[c]
           h == history[c]
<1>1. s \in Session /\ h \in History /\ SessionInv(c, s, h)
  BY DEF IInv, TypeOK
<1>2. PICK address \in Addresses :
        /\ session' = [session EXCEPT ![c] = Accepted(@, address)]
        /\ history' = [history EXCEPT ![c] = Unasked(c, address)]
  BY DEF Accept
<1> DEFINE t == Accepted(s, address)
           g == Unasked(c, address)
<1>3. t \in Session /\ g \in History
  <2>1. t \in Session
    BY <1>1, <1>2, ValuesAssumption DEF Session, Paths, Accepted
  <2>2. g \in History
    BY <1>2, MayLogInType DEF History, Unasked
  <2> QED
    BY <2>1, <2>2
<1>4. SessionInv(c, t, g)
  BY <1>1, <1>2, ValuesAssumption DEF SessionInv, Session, History, Accepted, Unasked, MayLogIn
<1>5. session' = [session EXCEPT ![c] = t] /\ history' = [history EXCEPT ![c] = g] /\ UNCHANGED password
  BY <1>2 DEF Accept
<1> HIDE DEF t, g
<1> QED
  BY <1>3, <1>4, <1>5, OneSession

\* The end of a session.
LEMMA DisconnectKeeps ==
  ASSUME IInv, NEW c \in Sessions, Disconnect(c) PROVE IInv'
<1> DEFINE s == session[c]
           h == history[c]
<1>1. s \in Session /\ h \in History /\ SessionInv(c, s, h)
  BY DEF IInv, TypeOK
<1> DEFINE t == [s EXCEPT !.connected = FALSE, !.passive = FALSE]
           g == h
<1>3. t \in Session /\ g \in History
  BY <1>1 DEF Session, History
<1>4. SessionInv(c, t, g)
  BY <1>1 DEF SessionInv, Session, History
<1>5. session' = [session EXCEPT ![c] = t] /\ history' = [history EXCEPT ![c] = g] /\ UNCHANGED password
  BY <1>1 DEF IInv, TypeOK, Disconnect
<1> HIDE DEF t, g
<1> QED
  BY <1>3, <1>4, <1>5, OneSession

\* Login.
LEMMA ftp_PASSKeeps ==
  ASSUME IInv, NEW c \in Sessions, ftp_PASS(c) PROVE IInv'
<1> DEFINE s == session[c]
           h == history[c]
<1>1. s \in Session /\ h \in History /\ SessionInv(c, s, h)
  BY DEF IInv, TypeOK
<1> DEFINE t == [s EXCEPT !.authenticated = TRUE]
           g == h
<1>3. t \in Session /\ g \in History
  BY <1>1 DEF Session, History, ftp_PASS, compare_ftp_password
<1>4. SessionInv(c, t, g)
  BY <1>1 DEF SessionInv, Session, ftp_PASS, compare_ftp_password
<1>5. session' = [session EXCEPT ![c] = t] /\ history' = [history EXCEPT ![c] = g] /\ UNCHANGED password
  BY <1>1 DEF IInv, TypeOK, ftp_PASS
<1> HIDE DEF t, g
<1> QED
  BY <1>3, <1>4, <1>5, OneSession

\* Logout.
LEMMA ftp_REINKeeps ==
  ASSUME IInv, NEW c \in Sessions, ftp_REIN(c) PROVE IInv'
<1> DEFINE s == session[c]
           h == history[c]
<1>1. s \in Session /\ h \in History /\ SessionInv(c, s, h)
  BY DEF IInv, TypeOK
<1> DEFINE t == [s EXCEPT !.passive = FALSE, !.cwd = Home, !.authenticated = FALSE]
           g == [h EXCEPT !.moved = TRUE, !.told = NULL, !.admitted = MayLogIn(c, password)]
<1>3. t \in Session /\ g \in History
  <2>1. t \in Session
    BY <1>1, ValuesAssumption DEF Session
  <2>2. g \in History
    BY <1>1, MayLogInType DEF History
  <2> QED
    BY <2>1, <2>2
<1>4. SessionInv(c, t, g)
  BY <1>1, ValuesAssumption DEF SessionInv, Session, History, MayLogIn, Resolve, Paths
<1>5. session' = [session EXCEPT ![c] = t] /\ history' = [history EXCEPT ![c] = g] /\ UNCHANGED password
  BY DEF ftp_REIN, IInv, TypeOK
<1> HIDE DEF t, g
<1> QED
  BY <1>3, <1>4, <1>5, OneSession

\* A relative name may mean another file from now on.
LEMMA ChangeDirectoryKeeps ==
  ASSUME IInv, NEW c \in Sessions, ChangeDirectory(c) PROVE IInv'
<1> DEFINE s == session[c]
           h == history[c]
<1>1. s \in Session /\ h \in History /\ SessionInv(c, s, h)
  BY DEF IInv, TypeOK
<1>2. PICK dir \in Dirs : session' = [session EXCEPT ![c].cwd = dir]
  BY DEF ChangeDirectory
<1> DEFINE t == [s EXCEPT !.cwd = dir]
           g == [h EXCEPT !.moved = TRUE]
<1>3. t \in Session /\ g \in History
  BY <1>1, <1>2 DEF Session, History
<1>4. SessionInv(c, t, g)
  BY <1>1, <1>2 DEF SessionInv, Session, History, Resolve, Paths
<1>5. session' = [session EXCEPT ![c] = t] /\ history' = [history EXCEPT ![c] = g] /\ UNCHANGED password
  BY <1>1, <1>2 DEF IInv, TypeOK, ChangeDirectory
<1> HIDE DEF t, g
<1> QED
  BY <1>3, <1>4, <1>5, OneSession

\* RNFR names a file.
LEMMA ftp_RNFRKeeps ==
  ASSUME IInv, NEW c \in Sessions, ftp_RNFR(c) PROVE IInv'
<1> DEFINE s == session[c]
           h == history[c]
<1>1. s \in Session /\ h \in History /\ SessionInv(c, s, h)
  BY DEF IInv, TypeOK
<1>2. PICK path \in Paths \cup {NULL} :
        /\ session' = [session EXCEPT ![c].pending_rename = path]
        /\ history' = [history EXCEPT ![c].moved = FALSE,
                         ![c].named = IF path = NULL THEN NULL ELSE Resolve(session[c].cwd, path)]
  BY DEF ftp_RNFR
<1> DEFINE t == [s EXCEPT !.pending_rename = path]
           g == [h EXCEPT !.moved = FALSE, !.named = IF path = NULL THEN NULL ELSE Resolve(s.cwd, path)]
<1>3. t \in Session /\ g \in History
  BY <1>1, <1>2, ResolveType, ValuesAssumption DEF Session, History
<1>4. SessionInv(c, t, g)
  BY <1>1, <1>2, ResolveType, ValuesAssumption DEF SessionInv, Session, History
<1>5. session' = [session EXCEPT ![c] = t] /\ history' = [history EXCEPT ![c] = g] /\ UNCHANGED password
  BY <1>2 DEF ftp_RNFR, IInv, TypeOK
<1> HIDE DEF t, g
<1> QED
  BY <1>3, <1>4, <1>5, OneSession

\* RNTO forgets it.
LEMMA ftp_RNTOKeeps ==
  ASSUME IInv, NEW c \in Sessions, ftp_RNTO(c) PROVE IInv'
<1> DEFINE s == session[c]
           h == history[c]
<1>1. s \in Session /\ h \in History /\ SessionInv(c, s, h)
  BY DEF IInv, TypeOK
<1> DEFINE t == [s EXCEPT !.pending_rename = NULL]
           g == [h EXCEPT !.named = NULL]
<1>3. t \in Session /\ g \in History
  BY <1>1 DEF Session, History, AfterRename
<1>4. SessionInv(c, t, g)
  BY <1>1 DEF SessionInv, Session, History, AfterRename
<1>5. session' = [session EXCEPT ![c] = t] /\ history' = [history EXCEPT ![c] = g] /\ UNCHANGED password
  BY <1>1 DEF IInv, TypeOK, ftp_RNTO, AfterRename
<1> HIDE DEF t, g
<1> QED
  BY <1>3, <1>4, <1>5, OneSession

\* REST gives a position.
LEMMA ftp_RESTKeeps ==
  ASSUME IInv, NEW c \in Sessions, ftp_REST(c) PROVE IInv'
<1> DEFINE s == session[c]
           h == history[c]
<1>1. s \in Session /\ h \in History /\ SessionInv(c, s, h)
  BY DEF IInv, TypeOK
<1>2. PICK offset \in Offsets \cup {0} :
        /\ session' = [session EXCEPT ![c].restart_marker = offset]
        /\ history' = [history EXCEPT ![c].rest = offset]
  BY DEF ftp_REST
<1> DEFINE t == [s EXCEPT !.restart_marker = offset]
           g == [h EXCEPT !.rest = offset]
<1>3. t \in Session /\ g \in History
  BY <1>1, <1>2 DEF Session, History
<1>4. SessionInv(c, t, g)
  BY <1>1, <1>2 DEF SessionInv, Session, History
<1>5. session' = [session EXCEPT ![c] = t] /\ history' = [history EXCEPT ![c] = g] /\ UNCHANGED password
  BY <1>1, <1>2 DEF IInv, TypeOK, ftp_REST
<1> HIDE DEF t, g
<1> QED
  BY <1>3, <1>4, <1>5, OneSession

\* RETR uses it.
LEMMA ftp_RETRKeeps ==
  ASSUME IInv, NEW c \in Sessions, ftp_RETR(c) PROVE IInv'
<1> DEFINE s == session[c]
           h == history[c]
<1>1. s \in Session /\ h \in History /\ SessionInv(c, s, h)
  BY DEF IInv, TypeOK
<1> DEFINE t == [s EXCEPT !.restart_marker = 0]
           g == [h EXCEPT !.rest = 0]
<1>3. t \in Session /\ g \in History
  BY <1>1 DEF Session, History, SeekAndReset
<1>4. SessionInv(c, t, g)
  BY <1>1 DEF SessionInv, Session, History, SeekAndReset
<1>5. session' = [session EXCEPT ![c] = t] /\ history' = [history EXCEPT ![c] = g] /\ UNCHANGED password
  BY <1>1 DEF IInv, TypeOK, ftp_RETR, SeekAndReset
<1> HIDE DEF t, g
<1> QED
  BY <1>3, <1>4, <1>5, OneSession

\* So does STOR.
LEMMA ftp_STORKeeps ==
  ASSUME IInv, NEW c \in Sessions, ftp_STOR(c) PROVE IInv'
<1> DEFINE s == session[c]
           h == history[c]
<1>1. s \in Session /\ h \in History /\ SessionInv(c, s, h)
  BY DEF IInv, TypeOK
<1> DEFINE t == [s EXCEPT !.restart_marker = 0]
           g == [h EXCEPT !.rest = 0]
<1>3. t \in Session /\ g \in History
  BY <1>1 DEF Session, History
<1>4. SessionInv(c, t, g)
  BY <1>1 DEF SessionInv, Session, History
<1>5. session' = [session EXCEPT ![c] = t] /\ history' = [history EXCEPT ![c] = g] /\ UNCHANGED password
  BY <1>1 DEF IInv, TypeOK, ftp_STOR
<1> HIDE DEF t, g
<1> QED
  BY <1>3, <1>4, <1>5, OneSession

\* PORT closes the listener of PASV.
LEMMA ftp_PORTKeeps ==
  ASSUME IInv, NEW c \in Sessions, ftp_PORT(c) PROVE IInv'
<1> DEFINE s == session[c]
           h == history[c]
<1>1. s \in Session /\ h \in History /\ SessionInv(c, s, h)
  BY DEF IInv, TypeOK
<1>2. PICK address \in Addresses :
        /\ session' = [session EXCEPT ![c] = WithAddress(@, address)]
        /\ history' = [history EXCEPT ![c].told = address]
  BY DEF ftp_PORT
<1> DEFINE t == WithAddress(s, address)
           g == [h EXCEPT !.told = address]
<1>3. t \in Session /\ g \in History
  BY <1>1, <1>2, ValuesAssumption DEF Session, History, WithAddress
<1>4. SessionInv(c, t, g)
  BY <1>1, <1>2, ValuesAssumption DEF SessionInv, Session, History, WithAddress
<1>5. session' = [session EXCEPT ![c] = t] /\ history' = [history EXCEPT ![c] = g] /\ UNCHANGED password
  BY <1>1, <1>2, ValuesAssumption DEF IInv, TypeOK, ftp_PORT, WithAddress
<1> HIDE DEF t, g
<1> QED
  BY <1>3, <1>4, <1>5, OneSession

\* PASV goes before the address of PORT.
LEMMA ftp_PASVKeeps ==
  ASSUME IInv, NEW c \in Sessions, ftp_PASV(c) PROVE IInv'
<1> DEFINE s == session[c]
           h == history[c]
<1>1. s \in Session /\ h \in History /\ SessionInv(c, s, h)
  BY DEF IInv, TypeOK
<1>2. PICK opened \in BOOLEAN :
        /\ session' = [session EXCEPT ![c].passive = opened]
        /\ history' = [history EXCEPT ![c].told = IF opened THEN "passive" ELSE NULL]
  BY DEF ftp_PASV
<1> DEFINE t == [s EXCEPT !.passive = opened]
           g == [h EXCEPT !.told = IF opened THEN "passive" ELSE NULL]
<1>3. t \in Session /\ g \in History
  BY <1>1, <1>2 DEF Session, History
<1>4. SessionInv(c, t, g)
  BY <1>1, <1>2 DEF SessionInv, Session, History
<1>5. session' = [session EXCEPT ![c] = t] /\ history' = [history EXCEPT ![c] = g] /\ UNCHANGED password
  BY <1>1, <1>2 DEF IInv, TypeOK, ftp_PASV
<1> HIDE DEF t, g
<1> QED
  BY <1>3, <1>4, <1>5, OneSession

\* Another password lets more peers in, and nobody out.
LEMMA set_ftp_passwordKeeps ==
  ASSUME IInv, NEW c \in Sessions, set_ftp_password(c) PROVE IInv'
<1>1. \A d \in Sessions :
        /\ history'[d] = [history[d] EXCEPT !.admitted = @ \/ MayLogIn(d, password')]
        /\ session'[d] = session[d]
  BY DEF set_ftp_password
<1>2. TypeOK'
  BY <1>1, ZenonT(60) DEF set_ftp_password, IInv, TypeOK, History, MayLogIn
<1>3. \A d \in Sessions : SessionInv(d, session[d], history[d])'
  <2> TAKE d \in Sessions
  <2>1. history[d] \in History /\ SessionInv(d, session[d], history[d])
    BY DEF IInv, TypeOK
  <2>2. /\ history'[d].named = history[d].named /\ history'[d].moved = history[d].moved
        /\ history'[d].rest = history[d].rest /\ history'[d].told = history[d].told
        /\ history[d].admitted \/ MayLogIn(d, password') => history'[d].admitted
    BY <1>1, <2>1 DEF History
  <2> QED
    BY <1>1, <2>1, <2>2 DEF SessionInv, MayLogIn
<1> QED
  BY <1>2, <1>3 DEF IInv

-----------------------------------------------------------------------------

\* The invariant holds in every reachable state.
THEOREM Invariance == Spec => []IInv
<1>1. IInv /\ [Next]_vars => IInv'
  <2> SUFFICES ASSUME IInv, [Next]_vars PROVE IInv'
    OBVIOUS
  <2>1. CASE UNCHANGED vars
    BY <2>1 DEF vars, IInv, TypeOK, SessionInv, MayLogIn
  <2>2. CASE Next
    <3>1. PICK c \in Sessions : Accept(c) \/ process_command(c)
      BY <2>2 DEF Next
    <3>2. CASE Accept(c)
      BY <3>2, AcceptKeeps
    <3>3. CASE process_command(c)
      BY <3>3, ftp_PASSKeeps, ftp_REINKeeps, DisconnectKeeps, set_ftp_passwordKeeps, ChangeDirectoryKeeps,
          ftp_RNFRKeeps, ftp_RNTOKeeps, ftp_RESTKeeps, ftp_RETRKeeps, ftp_STORKeeps,
         ftp_PORTKeeps, ftp_PASVKeeps
         DEF process_command
    <3> QED
      BY <3>1, <3>2, <3>3
  <2> QED
    BY <2>1, <2>2
<1> QED
  BY <1>1, InitIInv, PTL DEF Spec

\* The fields of a session keep their types.
THEOREM TypeCorrect == Spec => []TypeOK
<1>1. IInv => TypeOK
  BY DEF IInv, SessionInv, TypeOK
<1> QED
  BY <1>1, Invariance, PTL

\* ftp.c:92: nobody is logged in who could not have logged in since the connection or REIN,
\* whatever the memory of malloc held and whoever changed the password.
THEOREM LoginsAreOwn == Spec => []LoginIsOwn
<1>1. IInv => LoginIsOwn
  BY DEF IInv, SessionInv, LoginIsOwn
<1> QED
  BY <1>1, Invariance, PTL

\* ftp.c:268: RNTO renames what this client's last RNFR named.
THEOREM RenamesAreNamed == Spec => []RenameIsWhatWasNamed
<1>1. IInv => RenameIsWhatWasNamed
  BY DEF IInv, SessionInv, RenameIsWhatWasNamed
<1> QED
  BY <1>1, Invariance, PTL

\* ftp.c:467: the position of REST is used once, and by the client that gave it.
THEOREM RestartsAreOwn == Spec => []RestartUsedOnce
<1>1. IInv => RestartUsedOnce
  BY DEF IInv, SessionInv, RestartUsedOnce
<1> QED
  BY <1>1, Invariance, PTL

\* ftp.c:375: data go where the last PORT or PASV said.
THEOREM DataGoWhereAsked == Spec => []DataGoesWhereAsked
<1>1. IInv => DataGoesWhereAsked
  BY DEF IInv, SessionInv, DataGoesWhereAsked
<1> QED
  BY <1>1, Invariance, PTL

=============================================================================
