------------------------------ MODULE Transfer ------------------------------
(***************************************************************************)
(* The data of the transfers of source/net.c: send_from_file (RETR) and    *)
(* recv_to_file (STOR, APPE), with the loop of transfer_exact, the C       *)
(* library's files and the socket that may take or give less than asked.   *)
(*                                                                         *)
(* Several clients transfer at once; process_ftp_events calls their        *)
(* callbacks in turn.  A call is a run of steps, one for every call it     *)
(* makes to the network or a file.  All share NET_BUFFER_SIZE.             *)
(***************************************************************************)
EXTENDS Naturals, Sequences

CONSTANTS
  Clients,
  Bytes,
  Contents,               \* the contents of the files, sequences of bytes
  MAX_NET_BUFFER_SIZE, MIN_NET_BUFFER_SIZE, FREAD_BUFFER_SIZE,
  NULL

ASSUME SizesAssumption ==
  /\ MAX_NET_BUFFER_SIZE \in Nat /\ MIN_NET_BUFFER_SIZE \in Nat /\ FREAD_BUFFER_SIZE \in Nat
  /\ 0 < MIN_NET_BUFFER_SIZE /\ MIN_NET_BUFFER_SIZE < MAX_NET_BUFFER_SIZE /\ 0 < FREAD_BUFFER_SIZE

\* What the variable call may hold.
WriteCalls == [client : Clients, at : {"write"}, buf : Seq(Bytes), full : BOOLEAN]
ReadCalls  == [client : Clients, at : {"read"}, size : Nat]

ASSUME ContentsAssumption ==
  Contents \subseteq Seq(Bytes) /\ NULL \notin WriteCalls \cup ReadCalls

VARIABLES
  NET_BUFFER_SIZE,
  transfer,    \* for each client a record, see Idle
  call         \* the callback that runs: its client, where it is, buf; or NULL

vars == <<NET_BUFFER_SIZE, transfer, call>>

\* status: idle, active, or the code of the final reply; source: what is still to be
\* read from the file, or from the peer; arrived: what net_write or fwrite has taken;
\* eof: feof of the file; blocking: the mode of the socket.
Idle == [status |-> "idle", kind |-> "send", source |-> <<>>, arrived |-> <<>>,
         eof |-> FALSE, blocking |-> FALSE]

Init ==
  /\ NET_BUFFER_SIZE = MAX_NET_BUFFER_SIZE
  /\ transfer = [c \in Clients |-> Idle]
  /\ call = NULL

Upto(s, n) == SubSeq(s, 1, n)
From(s, n) == SubSeq(s, n + 1, Len(s))
Smaller(m, n) == IF m < n THEN m ELSE n

-----------------------------------------------------------------------------
(* A transfer begins and ends                                              *)

\* A data connection is made: an active one does not block, an accepted one does.
Start(c, kind) ==
  /\ call = NULL /\ transfer[c].status # "active"
  /\ \E content \in Contents, blocking \in BOOLEAN :
       transfer' = [transfer EXCEPT ![c] =
         [Idle EXCEPT !.status = "active", !.kind = kind, !.source = content,
                      !.blocking = blocking]]
  /\ UNCHANGED <<NET_BUFFER_SIZE, call>>

\* What process_data_events does with the result of a callback that leaves t behind.
Return(c, t, result) ==
  /\ call' = NULL
  /\ transfer' = [transfer EXCEPT ![c] =
       IF result = "again" THEN t
       ELSE [t EXCEPT !.status = IF result = "done" THEN "226" ELSE "520", !.source = <<>>]]
  /\ UNCHANGED NET_BUFFER_SIZE

\* Mutant: the mode stays what it is.
KeepsMode(t, blocking) == t

\* net_fcntl is assumed to succeed.
set_blocking(t, blocking) == [t EXCEPT !.blocking = blocking]

\* Mutant: after a refusal the other size is tried.
TogglesBuffer ==
  NET_BUFFER_SIZE' = IF NET_BUFFER_SIZE = MAX_NET_BUFFER_SIZE
                     THEN MIN_NET_BUFFER_SIZE ELSE MAX_NET_BUFFER_SIZE

\* -EINVAL: the stack does not take calls of this size.  It is believed once.
Shrink ==
  /\ NET_BUFFER_SIZE = MAX_NET_BUFFER_SIZE
  /\ NET_BUFFER_SIZE' = MIN_NET_BUFFER_SIZE

-----------------------------------------------------------------------------
(* send_from_file                                                          *)

\* The result when everything that was read has been sent.
SentResult(t, full) == IF full THEN "again" ELSE IF t.eof THEN "done" ELSE "error"

\* fread: less than asked only at the end of the file or on an error.
fread(c) ==
  /\ call = NULL /\ transfer[c].status = "active" /\ transfer[c].kind = "send"
  /\ LET t       == transfer[c]
         longest == Smaller(FREAD_BUFFER_SIZE, Len(t.source))
     IN \E n \in 0..longest, error \in BOOLEAN :
          /\ n < longest => error
          /\ error => n < FREAD_BUFFER_SIZE
          /\ LET full == n = FREAD_BUFFER_SIZE
                 read == [t EXCEPT !.source = From(@, n), !.eof = ~full /\ ~error]
             IN IF n = 0 THEN Return(c, read, SentResult(read, full))
                ELSE /\ transfer' = [transfer EXCEPT ![c] = set_blocking(read, TRUE)]
                     /\ call' = [client |-> c, at |-> "write", buf |-> Upto(t.source, n), full |-> full]
                     /\ UNCHANGED NET_BUFFER_SIZE

Writing(c) == call # NULL /\ call.client = c /\ call.at = "write"

\* net_write takes some of what it is offered.
WriteSome(c) ==
  /\ Writing(c)
  /\ \E n \in 1..Smaller(Len(call.buf), NET_BUFFER_SIZE) :
       /\ transfer' = [transfer EXCEPT ![c].arrived = @ \o Upto(call.buf, n)]
       /\ call' = [call EXCEPT !.buf = From(@, n)]
  /\ UNCHANGED NET_BUFFER_SIZE

WriteRefused(c) == Writing(c) /\ call.buf # <<>> /\ Shrink /\ UNCHANGED <<transfer, call>>

\* Any other result ends the loop, -EAGAIN among them if the socket does not block.
WriteFails(c) ==
  /\ Writing(c) /\ call.buf # <<>>
  /\ \E result \in {"error", "again"} :
       /\ result = "again" => ~transfer[c].blocking
       /\ Return(c, set_blocking(transfer[c], FALSE), result)

WriteDone(c) ==
  /\ Writing(c) /\ call.buf = <<>>
  /\ Return(c, set_blocking(transfer[c], FALSE), SentResult(transfer[c], call.full))

-----------------------------------------------------------------------------
(* recv_to_file                                                            *)

\* buf is as long as NET_BUFFER_SIZE is now.
RecvToFile(c) ==
  /\ call = NULL /\ transfer[c].status = "active" /\ transfer[c].kind = "recv"
  /\ call' = [client |-> c, at |-> "read", size |-> NET_BUFFER_SIZE]
  /\ UNCHANGED <<NET_BUFFER_SIZE, transfer>>

Reading(c) == call # NULL /\ call.client = c /\ call.at = "read"

\* fwrite takes all that was read, or the transfer ends.
ReadSome(c) ==
  /\ Reading(c)
  /\ \E n \in 1..Smaller(Len(transfer[c].source), NET_BUFFER_SIZE) :
       LET t == [transfer[c] EXCEPT !.source = From(@, n)] IN
       \/ /\ transfer' = [transfer EXCEPT ![c] = [t EXCEPT !.arrived = @ \o Upto(transfer[c].source, n)]]
          /\ UNCHANGED <<NET_BUFFER_SIZE, call>>
       \/ Return(c, t, "error")

ReadRefused(c) == Reading(c) /\ Shrink /\ UNCHANGED <<transfer, call>>

\* Nothing to read yet, which only a socket that does not block says.
ReadAgain(c) == Reading(c) /\ ~transfer[c].blocking /\ Return(c, transfer[c], "again")

\* The peer closes the connection when it has sent everything.
ReadEnd(c) == Reading(c) /\ transfer[c].source = <<>> /\ Return(c, transfer[c], "done")

\* The connection breaks.
ReadFails(c) == Reading(c) /\ Return(c, transfer[c], "error")

-----------------------------------------------------------------------------

\* A reply or a listing is refused by the stack: transfer_exact, too.
OtherRefused == call = NULL /\ Shrink /\ UNCHANGED <<transfer, call>>

SendStep(c) == WriteSome(c) \/ WriteRefused(c) \/ WriteFails(c) \/ WriteDone(c)

RecvStep(c) == ReadSome(c) \/ ReadRefused(c) \/ ReadAgain(c) \/ ReadEnd(c) \/ ReadFails(c)

Callback(c) == fread(c) \/ RecvToFile(c)

Next ==
  \/ \E c \in Clients :
       \/ \E kind \in {"send", "recv"} : Start(c, kind)
       \/ Callback(c) \/ SendStep(c) \/ RecvStep(c)
  \/ OtherRefused

Spec == Init /\ [][Next]_vars

\* process_ftp_events comes round to every slot; a call that has begun goes on; and the
\* peer of an upload sends on, so that it is not always too early.
Fairness ==
  \A c \in Clients :
    /\ SF_vars(Callback(c))
    /\ WF_vars(SendStep(c) \/ RecvStep(c))
    /\ SF_vars(ReadSome(c) \/ ReadEnd(c))

FairSpec == Spec /\ Fairness

-----------------------------------------------------------------------------
(* Properties                                                              *)

\* net.c:152: buf was allocated with the NET_BUFFER_SIZE of the beginning of the call;
\* reads that are made with a later value must fit into it.
ReadFitsBuffer == call # NULL /\ call.at = "read" => NET_BUFFER_SIZE <= call.size

\* What has arrived and what has not, in order, are the content of the file.
Unsent(c) == (IF Writing(c) THEN call.buf ELSE <<>>) \o transfer[c].source

Status  == [c \in Clients |-> transfer[c].status]
Pending == [c \in Clients |-> IF transfer[c].status = "active" THEN Unsent(c) ELSE <<>>]
Arrived == [c \in Clients |-> transfer[c].arrived]

\* Nothing is lost, repeated or reordered on the way, and 226 (ftp.c:792) is sent only for
\* a transfer that is complete: the implementation of FileTransfer.
Promise == INSTANCE FileTransfer WITH status <- Status, pending <- Pending, arrived <- Arrived

ImplementsFileTransfer == Promise!FTSpec

\* A transfer ends if its peer goes on: a refused size is not tried for ever.
TransferEnds == \A c \in Clients : transfer[c].status = "active" ~> transfer[c].status # "active"

=============================================================================
