---------------------------- MODULE FileTransfer ----------------------------
(***************************************************************************)
(* What a transfer command promises to a client: the content arrives in    *)
(* order, and a 226 reply means that all of it has.                        *)
(***************************************************************************)
EXTENDS Naturals, Sequences

CONSTANTS Clients, Contents

VARIABLES
  status,      \* of each client's transfer: idle, active, or the code of its final reply
  pending,     \* what has not arrived
  arrived

fvars == <<status, pending, arrived>>

FTInit ==
  /\ status  = [c \in Clients |-> "idle"]
  /\ pending = [c \in Clients |-> <<>>]
  /\ arrived = [c \in Clients |-> <<>>]

Begin(c) ==
  /\ status[c] # "active"
  /\ status'  = [status EXCEPT ![c] = "active"]
  /\ \E content \in Contents : pending' = [pending EXCEPT ![c] = content]
  /\ arrived' = [arrived EXCEPT ![c] = <<>>]

\* The next part arrives.
Arrive(c) ==
  /\ status[c] = "active"
  /\ \E n \in 1..Len(pending[c]) :
       /\ arrived' = [arrived EXCEPT ![c] = @ \o SubSeq(pending[c], 1, n)]
       /\ pending' = [pending EXCEPT ![c] = SubSeq(@, n + 1, Len(@))]
  /\ UNCHANGED status

Confirm(c) ==
  /\ status[c] = "active" /\ pending[c] = <<>>
  /\ status' = [status EXCEPT ![c] = "226"]
  /\ UNCHANGED <<pending, arrived>>

\* The transfer fails, at any place.
Abort(c) ==
  /\ status[c] = "active"
  /\ status'  = [status EXCEPT ![c] = "520"]
  /\ pending' = [pending EXCEPT ![c] = <<>>]
  /\ UNCHANGED arrived

FTNext == \E c \in Clients : Begin(c) \/ Arrive(c) \/ Confirm(c) \/ Abort(c)

FTSpec == FTInit /\ [][FTNext]_fvars

=============================================================================
