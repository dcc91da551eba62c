--------------------------- MODULE ControlBuffer ---------------------------
(***************************************************************************)
(* client->buf and the loops of process_control_events in source/ftp.c: a  *)
(* C string that bytes are read into, in which lines are found and cut off *)
(* by zero bytes, and whose rest is moved to the front.  FtpServer counts  *)
(* the lines; here they have contents.                                     *)
(***************************************************************************)
EXTENDS Integers, Sequences

CONSTANTS
  FTP_BUFFER_SIZE,  \* size of client->buf
  Chars,            \* the bytes a client may send
  CR, LF, NUL       \* the ones that mean something

ASSUME SizeAssumption == FTP_BUFFER_SIZE \in Nat /\ FTP_BUFFER_SIZE >= 3

ASSUME CharsAssumption == {CR, LF, NUL} \subseteq Chars /\ CR # LF /\ NUL \notin {CR, LF}

VARIABLES
  buf,      \* client->buf
  offset,   \* client->offset
  next,     \* next, in the for loop; 0 outside it
  state,    \* "read": at the while loop; "resumed": there, and nothing has been
            \* read since a transfer ended; "lines": in the for loop;
            \* "transfer": data_callback is set; "closed"
  command,  \* the line given to process_command last
  why       \* why the client was cleaned up

vars == <<buf, offset, next, state, command, why>>

Indices == 0..FTP_BUFFER_SIZE-1

\* malloc leaves anything in the buffer: here the same byte everywhere.
Init ==
  /\ \E garbage \in Chars : buf = [i \in Indices |-> garbage]
  /\ offset = 0 /\ next = 0
  /\ state = "read" /\ command = <<>> /\ why = "none"

\* The end of the C string that starts at i (strlen(b + i) = StringEnd(b, i) - i).
StringEnd(b, i) ==
  CHOOSE j \in i..FTP_BUFFER_SIZE-1 : b[j] = NUL /\ \A k \in i..j-1 : b[k] # NUL

\* strstr(b + i, CRLF): the places where it could match, and the one it returns.
Matches(b, i) ==
  {j \in i..FTP_BUFFER_SIZE-2 : b[j] = CR /\ b[j+1] = LF /\ \A k \in i..j : b[k] # NUL}

IsFirstMatch(b, i, j) == j \in Matches(b, i) /\ \A k \in Matches(b, i) : j <= k

Close(reason) ==
  /\ state' = "closed" /\ why' = reason
  /\ UNCHANGED <<offset, next>>

\* The buffer once s has been read into it, with a zero byte after it.
Filled(s) ==
  [i \in Indices |-> IF i \in offset..offset+Len(s)-1 THEN s[i-offset+1]
                     ELSE IF i = offset + Len(s) THEN NUL ELSE buf[i]]

\* At the while loop, in a pass that finds no data_callback.
Reading == state \in {"read", "resumed"}

\* net_read gives the bytes s.  A zero byte among them ends the session.
Read ==
  /\ Reading /\ offset < FTP_BUFFER_SIZE - 1
  /\ \E n \in 1..(FTP_BUFFER_SIZE - 1 - offset) : \E s \in [1..n -> Chars] :
       /\ buf' = Filled(s)
       /\ IF StringEnd(Filled(s), offset) = offset + n
          THEN offset' = offset + n /\ state' = "lines" /\ UNCHANGED <<next, why>>
          ELSE Close("null")
  /\ UNCHANGED command

\* net_read gives the end of the stream or an error.
ReadFails ==
  /\ Reading /\ offset < FTP_BUFFER_SIZE - 1
  /\ Close("peer")
  /\ UNCHANGED <<buf, command>>

\* The while loop ends.
LineTooLong ==
  /\ Reading /\ offset >= FTP_BUFFER_SIZE - 1
  /\ Close("toolong")
  /\ UNCHANGED <<buf, command>>

\* Mutant: offset is not reduced by what was cut off in front.
KeepsOffset(b, n, then) ==
  /\ offset' = IF n = 0 THEN offset ELSE StringEnd(b, n)
  /\ buf' = [i \in Indices |-> IF n # 0 /\ i < offset' - n THEN b[n+i] ELSE b[i]]
  /\ next' = 0
  /\ state' = then

\* Mutant: what is left over stays where it is.
ForgetsToMove(b, n, then) ==
  /\ offset' = IF n = 0 THEN offset ELSE StringEnd(b, n) - n
  /\ buf' = b
  /\ next' = 0
  /\ state' = then

\* The end of the for loop: if a line was taken, the string at n moves to the front.
MoveRest(b, n, then) ==
  /\ offset' = IF n = 0 THEN offset ELSE StringEnd(b, n) - n
  /\ buf' = [i \in Indices |-> IF n # 0 /\ i < offset' THEN b[n+i] ELSE b[i]]
  /\ next' = 0
  /\ state' = then

\* Mutant: the next line is looked for one byte too far.
SkipsOne(end) ==
  LET cut == [buf EXCEPT ![end] = NUL] IN
  /\ \/ buf' = cut /\ next' = end + 3 /\ state' = "lines" /\ UNCHANGED offset
     \/ MoveRest(cut, end + 2, "transfer")
  /\ UNCHANGED why

\* Mutant: one line is executed after each read.
OneLineOnly(end) ==
  LET cut == [buf EXCEPT ![end] = NUL] IN
  /\ \E then \in {"read", "transfer"} : MoveRest(cut, end + 2, then)
  /\ UNCHANGED why

\* The line that ends at end has been executed: the for loop goes on, or, if a
\* transfer has started, it ends and with it the visit.
GoOn(end) ==
  LET cut == [buf EXCEPT ![end] = NUL] IN
  /\ \/ buf' = cut /\ next' = end + 2 /\ state' = "lines" /\ UNCHANGED offset
     \/ MoveRest(cut, end + 2, "transfer")
  /\ UNCHANGED why

\* One turn of the for loop: cut the line off, check it, execute it.
Line ==
  /\ state = "lines"
  /\ \E end \in Matches(buf, next) :
       LET line == [i \in 1..end-next |-> buf[next+i-1]]
           cut  == [buf EXCEPT ![end] = NUL]
       IN
       /\ IsFirstMatch(buf, next, end)
       /\ \/ /\ \E i \in DOMAIN line : line[i] = LF
             /\ Close("linefeed") /\ buf' = cut /\ UNCHANGED command
          \/ /\ line = <<>>
             /\ buf' = cut /\ next' = end + 2 /\ UNCHANGED <<offset, state, why, command>>
          \/ /\ line # <<>> /\ \A i \in DOMAIN line : line[i] # LF
             /\ command' = line
             /\ \/ GoOn(end)
                \/ Close("command") /\ buf' = cut

\* There is no further complete line: back to the while loop.
LinesDone ==
  /\ state = "lines" /\ Matches(buf, next) = {}
  /\ MoveRest(buf, next, "read")
  /\ UNCHANGED <<command, why>>

\* process_data_events ends the transfer, and the client if the reply fails.  The
\* lines behind the transfer command are not looked at before something is read.
TransferEnds ==
  /\ state = "transfer"
  /\ \/ state' = "resumed" /\ UNCHANGED <<offset, next, why>>
     \/ Close("peer")
  /\ UNCHANGED <<buf, command>>

Closed == state = "closed" /\ UNCHANGED vars

Next == Read \/ ReadFails \/ LineTooLong \/ Line \/ LinesDone \/ TransferEnds \/ Closed

Spec == Init /\ [][Next]_vars

-----------------------------------------------------------------------------
(* Properties                                                              *)

\* Type invariant: offset and next stay inside the buffer and its terminator.
TypeOK ==
  /\ buf \in [Indices -> Chars]
  /\ offset \in Indices /\ next \in Indices
  /\ state \in {"read", "resumed", "lines", "transfer", "closed"}
  /\ \A i \in DOMAIN command : command[i] \in Chars \ {LF, NUL}
  /\ why \in {"none", "null", "peer", "toolong", "linefeed", "command"}

\* In the for loop the C string at next is exactly what has been received and not
\* executed: strstr and strlen stop inside the buffer, neither at a zero byte that
\* cut off an earlier line nor in what an earlier use left behind.
StringIsRest ==
  state = "lines" =>
    /\ next <= offset /\ buf[offset] = NUL
    /\ \A i \in next..offset-1 : buf[i] # NUL

\* At the while loop no complete line is in the buffer: all lines of a read have been
\* executed before the next.  The exception is a client whose transfer has ended and
\* that has sent nothing since: what it sent behind the transfer command waits for
\* its next bytes.
NoLineLeftBehind ==
  state = "read" => ~\E i \in 0..offset-2 : buf[i] = CR /\ buf[i+1] = LF

\* What has been received and not executed, as a sequence.
Rest ==
  IF state = "closed" THEN <<>>
  ELSE [i \in 1..offset-next |-> buf[next+i-1]]

\* The buffer implements the stream of lines: lines are executed in the order sent,
\* each once and none during a transfer, however reads split them, and the
\* connection is closed only for the faults the messages of ftp.c name.
Lines == INSTANCE LineStream WITH
  MaxLine <- FTP_BUFFER_SIZE - 1,
  pending <- Rest,
  status  <- IF state \in {"read", "resumed", "lines"} THEN "open"
             ELSE IF state = "transfer" THEN "busy" ELSE "closed"

ImplementsLineStream == Lines!Spec

=============================================================================
