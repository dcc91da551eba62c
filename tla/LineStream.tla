----------------------------- MODULE LineStream -----------------------------
(***************************************************************************)
(* What the control connection promises, without a buffer: the bytes of a  *)
(* client form lines ended by CR LF, and the lines are executed one at a   *)
(* time, in the order in which they were sent, each of them once, and none *)
(* while a transfer runs.                                                  *)
(***************************************************************************)
EXTENDS Integers, Sequences

CONSTANTS Chars, CR, LF, NUL, MaxLine

VARIABLES
  pending,  \* what the client has sent and the server has not executed
  command,  \* the line executed last
  status,   \* "open", "busy" (a transfer runs), "closed"
  why       \* why the connection was closed

vars == <<pending, command, status, why>>

LineEnds(s) == {i \in 1..Len(s)-1 : s[i] = CR /\ s[i+1] = LF}

\* The first complete line of s is s[1..i-1].
IsFirstLine(s, i) == i \in LineEnds(s) /\ \A j \in LineEnds(s) : i <= j

HasBareLF(line) == \E i \in 1..Len(line) : line[i] = LF

Init == pending = <<>> /\ command = <<>> /\ status = "open" /\ why = "none"

Close(reason) == status' = "closed" /\ why' = reason /\ pending' = <<>>

Receive ==
  /\ status = "open"
  /\ pending' \in Seq(Chars \ {NUL})
  /\ Len(pending') \in Len(pending)+1..MaxLine
  /\ SubSeq(pending', 1, Len(pending)) = pending
  /\ UNCHANGED <<command, status, why>>

\* An empty line is passed over.  Any other is executed: the session goes on, a
\* transfer starts, or the connection ends.
Execute ==
  /\ status = "open"
  /\ \E i \in LineEnds(pending) :
       LET line == SubSeq(pending, 1, i - 1) IN
       /\ IsFirstLine(pending, i) /\ ~HasBareLF(line)
       /\ command' = IF line = <<>> THEN command ELSE line
       /\ \/ /\ pending' = SubSeq(pending, i + 2, Len(pending))
             /\ status' = "open" \/ (line # <<>> /\ status' = "busy")
             /\ UNCHANGED why
          \/ line # <<>> /\ Close("command")

\* The server closes the connection only for these faults of the client.
Reject ==
  /\ status = "open"
  /\ \/ Close("null")
     \/ /\ \E i \in LineEnds(pending) :
             IsFirstLine(pending, i) /\ HasBareLF(SubSeq(pending, 1, i - 1))
        /\ Close("linefeed")
     \/ /\ LineEnds(pending) = {} /\ Len(pending) = MaxLine
        /\ Close("toolong")
  /\ UNCHANGED command

TransferEnds ==
  /\ status = "busy"
  /\ \/ status' = "open" /\ UNCHANGED <<pending, why>>
     \/ Close("peer")
  /\ UNCHANGED command

PeerCloses == status = "open" /\ Close("peer") /\ UNCHANGED command

Next == Receive \/ Execute \/ Reject \/ TransferEnds \/ PeerCloses

Spec == Init /\ [][Next]_vars
=============================================================================
