--------------------------- MODULE TransferProofs ---------------------------
(***************************************************************************)
(* Transfer implements FileTransfer, for all contents and buffer sizes,    *)
(* any number of clients, and a stack that takes and refuses what it will. *)
(***************************************************************************)
EXTENDS Transfer, SequenceTheorems, TLAPS

Record ==
  [status : {"idle", "active", "226", "520"}, kind : {"send", "recv"},
   source : Seq(Bytes), arrived : Seq(Bytes), eof : BOOLEAN, blocking : BOOLEAN]

\* Type invariant: the files, the socket modes and the call in progress of net.c.
TypeOK ==
  /\ NET_BUFFER_SIZE \in {MIN_NET_BUFFER_SIZE, MAX_NET_BUFFER_SIZE}
  /\ transfer \in [Clients -> Record]
  /\ call \in WriteCalls \cup ReadCalls \cup {NULL}

\* A call belongs to a running transfer; the end of the file is known only when all has
\* been read; while buf is sent the socket blocks; and buf is never too short for a read.
CallOK ==
  call # NULL =>
    LET t == transfer[call.client] IN
    /\ t.status = "active"
    /\ call.at = "write" => t.blocking /\ (t.eof /\ ~call.full => t.source = <<>>)
    /\ call.at = "read" => NET_BUFFER_SIZE <= call.size

IInv == TypeOK /\ CallOK

-----------------------------------------------------------------------------
(* Sequences                                                               *)

\* A sequence is what is before and what is behind any place in it.
LEMMA UptoFrom ==
  ASSUME NEW S, NEW s \in Seq(S), NEW n \in 0..Len(s)
  PROVE  /\ Upto(s, n) \in Seq(S) /\ Len(Upto(s, n)) = n
         /\ From(s, n) \in Seq(S) /\ Len(From(s, n)) = Len(s) - n
         /\ Upto(s, n) \o From(s, n) = s
<1>1. Len(s) \in Nat /\ \A i \in 1..Len(s) : s[i] \in S
  BY LenProperties
<1>2. Upto(s, n) \in Seq(S) /\ Len(Upto(s, n)) = n
  <2>1. \A i \in 1..n : s[i] \in S
    BY <1>1
  <2>2. /\ SubSeq(s, 1, n) \in Seq(S)
        /\ Len(SubSeq(s, 1, n)) = IF 1 <= n THEN n - 1 + 1 ELSE 0
    BY <1>1, <2>1, SubSeqProperties
  <2> QED BY <1>1, <2>2 DEF Upto
<1>3. From(s, n) \in Seq(S) /\ Len(From(s, n)) = Len(s) - n
  <2>1. \A i \in n + 1..Len(s) : s[i] \in S
    BY <1>1
  <2>2. /\ SubSeq(s, n + 1, Len(s)) \in Seq(S)
        /\ Len(SubSeq(s, n + 1, Len(s))) = IF n + 1 <= Len(s) THEN Len(s) - (n + 1) + 1 ELSE 0
    BY <1>1, <2>1, SubSeqProperties
  <2> QED BY <1>1, <2>2 DEF From
<1>4. Upto(s, n) \o From(s, n) = s
  <2>1. SubSeq(s, 1, n) \o SubSeq(s, n + 1, Len(s)) = SubSeq(s, 1, Len(s))
    <3>1. 1 \in 1..Len(s) + 1 /\ n \in 1 - 1..Len(s) /\ Len(s) \in n..Len(s)
      BY <1>1
    <3> QED BY <3>1, ConcatAdjacentSubSeq
  <2> QED BY <2>1, SubSeqFull DEF Upto, From
<1> QED BY <1>2, <1>3, <1>4

\* What is behind all of a sequence is empty.
LEMMA FromEnd ==
  ASSUME NEW S, NEW s \in Seq(S)
  PROVE  From(s, Len(s)) = <<>>
BY LenProperties, SubSeqEmpty DEF From

\* A place in the first of two sequences, seen from both together.
LEMMA ConcatUpto ==
  ASSUME NEW S, NEW s \in Seq(S), NEW t \in Seq(S), NEW n \in 1..Len(s)
  PROVE  /\ n \in 1..Len(s \o t)
         /\ SubSeq(s \o t, 1, n) = Upto(s, n)
         /\ SubSeq(s \o t, n + 1, Len(s \o t)) = From(s, n) \o t
<1>1. Len(s) \in Nat /\ Len(t) \in Nat
  BY LenProperties
<1>2. /\ s \o t \in Seq(S) /\ Len(s \o t) = Len(s) + Len(t)
      /\ \A i \in 1..Len(s) + Len(t) : (s \o t)[i] = IF i <= Len(s) THEN s[i] ELSE t[i - Len(s)]
  BY ConcatProperties
<1>3. n \in 1..Len(s \o t)
  BY <1>1, <1>2
<1>4. SubSeq(s \o t, 1, n) = Upto(s, n)
  <2>1. 1 \in 1..Len(s) /\ n \in 1..Len(s)
    BY <1>1
  <2> QED BY <2>1, SubSeqOfConcat1 DEF Upto
<1>5. SubSeq(s \o t, n + 1, Len(s \o t)) = From(s, n) \o t
  <2> DEFINE a == From(s \o t, n)
             b == From(s, n) \o t
  <2>1. a \in Seq(S) /\ Len(a) = Len(s) + Len(t) - n
    <3>1. n \in 0..Len(s \o t)
      BY <1>1, <1>2
    <3>2. From(s \o t, n) \in Seq(S) /\ Len(From(s \o t, n)) = Len(s \o t) - n
      BY <1>2, <3>1, UptoFrom
    <3> QED BY <1>2, <3>2
  <2>2. \A i \in 1..Len(a) : a[i] = (s \o t)[n + i]
    <3>1. \A i \in n + 1..Len(s \o t) : (s \o t)[i] \in S
      BY <1>1, <1>2, LenProperties
    <3>2. \A i \in 1..Len(s \o t) - (n + 1) + 1 :
            SubSeq(s \o t, n + 1, Len(s \o t))[i] = (s \o t)[n + 1 + i - 1]
      BY <1>1, <1>2, <3>1, SubSeqProperties
    <3> QED BY <1>1, <1>2, <2>1, <3>2 DEF From
  <2>3. From(s, n) \in Seq(S) /\ Len(From(s, n)) = Len(s) - n
    BY <1>1, UptoFrom
  <2>4. \A i \in 1..Len(s) - n : From(s, n)[i] = s[n + i]
    <3>1. \A i \in n + 1..Len(s) : s[i] \in S
      BY <1>1, LenProperties
    <3>2. \A i \in 1..Len(s) - (n + 1) + 1 : SubSeq(s, n + 1, Len(s))[i] = s[n + 1 + i - 1]
      BY <1>1, <3>1, SubSeqProperties
    <3> QED BY <1>1, <3>2 DEF From
  <2>5. /\ b \in Seq(S) /\ Len(b) = Len(s) - n + Len(t)
        /\ \A i \in 1..Len(s) - n + Len(t) :
             b[i] = IF i <= Len(s) - n THEN From(s, n)[i] ELSE t[i - (Len(s) - n)]
    <3> DEFINE f == From(s, n)
    <3>1. /\ f \o t \in Seq(S) /\ Len(f \o t) = Len(f) + Len(t)
          /\ \A i \in 1..Len(f) + Len(t) : (f \o t)[i] = IF i <= Len(f) THEN f[i] ELSE t[i - Len(f)]
      <4> HIDE DEF f
      <4> QED BY <2>3, ConcatProperties DEF f
    <3> QED BY <2>3, <3>1
  <2>6. \A i \in 1..Len(a) : a[i] = b[i]
    <3> SUFFICES ASSUME NEW i \in 1..Len(a) PROVE a[i] = b[i]
      OBVIOUS
    <3> HIDE DEF a, b
    <3>1. a[i] = IF n + i <= Len(s) THEN s[n + i] ELSE t[n + i - Len(s)]
      BY <1>1, <1>2, <2>1, <2>2
    <3>2. b[i] = IF i <= Len(s) - n THEN s[n + i] ELSE t[i - (Len(s) - n)]
      <4>1. i \in 1..Len(s) - n + Len(t)
        BY <1>1, <2>1
      <4>2. b[i] = IF i <= Len(s) - n THEN From(s, n)[i] ELSE t[i - (Len(s) - n)]
        BY <4>1, <2>5
      <4>3. i <= Len(s) - n => From(s, n)[i] = s[n + i]
        BY <1>1, <2>1, <2>4
      <4> QED BY <4>2, <4>3
    <3>3. n + i - Len(s) = i - (Len(s) - n)
      BY <1>1, <2>1
    <3> QED BY <1>1, <2>1, <3>1, <3>2, <3>3
  <2>7. a = b
    <3> HIDE DEF a, b
    <3>1. Len(a) = Len(b)
      BY <1>1, <2>1, <2>5
    <3> QED BY <2>1, <2>5, <2>6, <3>1, SeqEqual
  <2> QED BY <2>7 DEF From
<1> QED BY <1>3, <1>4, <1>5

-----------------------------------------------------------------------------
(* What a step shows to the client                                         *)

\* The steps that the abstract specification allows.
Shown == [Promise!FTNext]_(Promise!fvars)

\* What a client is still to be sent, if buf is what a running write has left of it.
Remaining(t, buf) == IF t.status = "active" THEN buf \o t.source ELSE <<>>

\* The part of c in a call.
Buffer(c) == IF Writing(c) THEN call.buf ELSE <<>>

\* The views are functions of the transfers and of the call.
LEMMA Views ==
  ASSUME TypeOK, NEW c \in Clients
  PROVE  /\ Status[c] = transfer[c].status /\ Arrived[c] = transfer[c].arrived
         /\ Pending[c] = Remaining(transfer[c], Buffer(c))
         /\ transfer[c] \in Record
BY DEF Status, Arrived, Pending, Unsent, Remaining, Buffer, TypeOK

\* A step of one client changes its part of the views and no other.
LEMMA ChangedViews ==
  ASSUME TypeOK, NEW c \in Clients, NEW t \in Record,
         transfer' = [transfer EXCEPT ![c] = t],
         call # NULL => call.client = c,
         call' # NULL => call'.client = c
  PROVE  /\ Status' = [Status EXCEPT ![c] = t.status]
         /\ Arrived' = [Arrived EXCEPT ![c] = t.arrived]
         /\ Pending' = [Pending EXCEPT ![c] = Remaining(t, Buffer(c)')]
<1>1. transfer' = [d \in Clients |-> IF d = c THEN t ELSE transfer[d]]
  BY DEF TypeOK
<1>2. Status' = [Status EXCEPT ![c] = t.status]
  BY <1>1 DEF Status
<1>3. Arrived' = [Arrived EXCEPT ![c] = t.arrived]
  BY <1>1 DEF Arrived
<1>4. \A d \in Clients : d # c => ~Writing(d) /\ ~Writing(d)'
  BY DEF Writing
<1>5. Pending' = [Pending EXCEPT ![c] = Remaining(t, Buffer(c)')]
  BY <1>1, <1>4 DEF Pending, Unsent, Remaining, Buffer
<1> QED BY <1>2, <1>3, <1>5

\* Where no part of the views changes there is nothing to show.
LEMMA NothingShown ==
  ASSUME UNCHANGED <<Status, Pending, Arrived>>
  PROVE  Shown
BY DEF Shown, Promise!fvars

\* A call that returns: it goes on later with nothing in hand, or it confirms what has
\* arrived completely, or the transfer fails.
LEMMA ReturnShown ==
  ASSUME IInv, NEW c \in Clients, NEW t \in Record, NEW result \in {"again", "done", "error"},
         transfer[c].status = "active", call # NULL => call.client = c,
         t.status = "active", t.arrived = transfer[c].arrived,
         result = "again" => Pending[c] = t.source,
         result = "done" => Pending[c] = <<>>,
         Return(c, t, result)
  PROVE  IInv' /\ Shown
<1> DEFINE ended == [t EXCEPT !.status = IF result = "done" THEN "226" ELSE "520", !.source = <<>>]
           after == IF result = "again" THEN t ELSE ended
<1>1. call' = NULL /\ transfer' = [transfer EXCEPT ![c] = after] /\ NET_BUFFER_SIZE' = NET_BUFFER_SIZE
  BY DEF Return
<1>2. /\ after \in Record /\ after.arrived = t.arrived
      /\ result # "again" => after.status = IF result = "done" THEN "226" ELSE "520"
  BY EmptySeq DEF Record
<1>3. IInv'
  BY <1>1, <1>2 DEF IInv, TypeOK, CallOK
<1>4. Buffer(c)' = <<>>
  BY <1>1 DEF Buffer, Writing
<1>5. /\ Status' = [Status EXCEPT ![c] = after.status]
      /\ Arrived' = [Arrived EXCEPT ![c] = after.arrived]
      /\ Pending' = [Pending EXCEPT ![c] = Remaining(after, <<>>)]
  <2> HIDE DEF after
  <2> QED BY <1>1, <1>2, <1>4, ChangedViews DEF IInv
<1>6. Status[c] = "active" /\ Arrived[c] = t.arrived
  BY Views DEF IInv
<1>7. Arrived' = Arrived
  BY <1>2, <1>5, <1>6 DEF Arrived
<1>8. Shown
  <2>1. CASE result = "again"
    <3>1. after = t /\ Remaining(after, <<>>) = t.source
      BY <2>1, ConcatEmptySeq DEF Remaining, Record
    <3>2. Status' = Status /\ Pending' = Pending
      <4>1. Status = [Status EXCEPT ![c] = Status[c]] /\ Pending = [Pending EXCEPT ![c] = Pending[c]]
        BY DEF Status, Pending
      <4> QED BY <1>5, <1>6, <2>1, <3>1, <4>1
    <3> QED BY <1>7, <3>2, NothingShown
  <2>2. CASE result = "done"
    <3>1. Remaining(after, <<>>) = <<>> /\ after.status = "226"
      BY <1>2, <2>2 DEF Remaining
    <3>2. Pending' = Pending
      BY <1>5, <2>2, <3>1, ZenonT(60) DEF Pending
    <3>3. Promise!Confirm(c)
      BY <1>5, <1>6, <1>7, <2>2, <3>1, <3>2 DEF Promise!Confirm
    <3> QED BY <3>3 DEF Shown, Promise!FTNext
  <2>3. CASE result = "error"
    <3>1. Remaining(after, <<>>) = <<>> /\ after.status = "520"
      BY <1>2, <2>3 DEF Remaining
    <3>2. Promise!Abort(c)
      BY <1>5, <1>6, <1>7, <3>1 DEF Promise!Abort
    <3> QED BY <3>2 DEF Shown, Promise!FTNext
  <2> QED BY <2>1, <2>2, <2>3
<1> QED BY <1>3, <1>8

-----------------------------------------------------------------------------
(* The actions                                                             *)

LEMMA StartShown ==
  ASSUME IInv, NEW c \in Clients, NEW kind \in {"send", "recv"}, Start(c, kind)
  PROVE  IInv' /\ Shown
<1>1. PICK content \in Contents, blocking \in BOOLEAN :
        transfer' = [transfer EXCEPT ![c] =
          [Idle EXCEPT !.status = "active", !.kind = kind, !.source = content, !.blocking = blocking]]
  BY DEF Start
<1> DEFINE t == [Idle EXCEPT !.status = "active", !.kind = kind, !.source = content,
                             !.blocking = blocking]
<1>2. content \in Seq(Bytes)
  BY ContentsAssumption
<1>3. t \in Record /\ t.status = "active" /\ t.source = content /\ t.arrived = <<>>
  BY <1>2, EmptySeq DEF Idle, Record
<1>4. call = NULL /\ call' = NULL /\ transfer[c].status # "active" /\ UNCHANGED NET_BUFFER_SIZE
  BY DEF Start
<1>5. IInv'
  BY <1>1, <1>3, <1>4 DEF IInv, TypeOK, CallOK
<1>6. Remaining(t, Buffer(c)') = content
  BY <1>2, <1>3, <1>4, ConcatEmptySeq DEF Remaining, Buffer, Writing
<1>7. Promise!Begin(c)
  <2> transfer' = [transfer EXCEPT ![c] = t]
    BY <1>1
  <2> HIDE DEF t
  <2>1. /\ Status' = [Status EXCEPT ![c] = "active"]
        /\ Pending' = [Pending EXCEPT ![c] = content]
        /\ Arrived' = [Arrived EXCEPT ![c] = <<>>]
    BY <1>3, <1>4, <1>6, ChangedViews DEF IInv
  <2>2. Status[c] # "active"
    BY <1>4, Views DEF IInv
  <2> QED BY <2>1, <2>2 DEF Promise!Begin
<1> QED BY <1>5, <1>7 DEF Shown, Promise!FTNext

\* A read of the file moves bytes from the source to buf; a read of nothing ends the
\* transfer, with 226 only at the end of the file.
LEMMA FreadShown ==
  ASSUME IInv, NEW c \in Clients, fread(c)
  PROVE  IInv' /\ Shown
<1> DEFINE t       == transfer[c]
           longest == Smaller(FREAD_BUFFER_SIZE, Len(t.source))
<1>1. PICK n \in 0..longest, error \in BOOLEAN :
        /\ n < longest => error
        /\ error => n < FREAD_BUFFER_SIZE
        /\ LET full == n = FREAD_BUFFER_SIZE
               read == [t EXCEPT !.source = From(@, n), !.eof = ~full /\ ~error]
           IN IF n = 0 THEN Return(c, read, SentResult(read, full))
              ELSE /\ transfer' = [transfer EXCEPT ![c] = set_blocking(read, TRUE)]
                   /\ call' = [client |-> c, at |-> "write", buf |-> Upto(t.source, n), full |-> full]
                   /\ UNCHANGED NET_BUFFER_SIZE
  BY DEF fread
<1> DEFINE full == n = FREAD_BUFFER_SIZE
           read == [t EXCEPT !.source = From(@, n), !.eof = ~full /\ ~error]
<1>2. call = NULL /\ t.status = "active" /\ t \in Record
  BY DEF fread, IInv, TypeOK
<1>3. t.source \in Seq(Bytes) /\ Len(t.source) \in Nat
  BY <1>2, LenProperties DEF Record
<1>4. n \in 0..Len(t.source)
  BY <1>3, SizesAssumption DEF Smaller
<1>5. /\ Upto(t.source, n) \in Seq(Bytes) /\ From(t.source, n) \in Seq(Bytes)
      /\ Upto(t.source, n) \o From(t.source, n) = t.source
  BY <1>3, <1>4, UptoFrom
<1>6. /\ read \in Record /\ read.status = "active" /\ read.arrived = t.arrived
      /\ read.source = From(t.source, n) /\ read.eof = (~full /\ ~error)
  BY <1>2, <1>5 DEF Record
<1>7. read.eof => From(t.source, n) = <<>>
  <2> SUFFICES ASSUME read.eof PROVE From(t.source, n) = <<>>
    OBVIOUS
  <2>1. n = Len(t.source)
    <3>1. ~full /\ ~error
      <4> HIDE DEF full, read
      <4> QED BY <1>6
    <3>2. n \in 0..longest /\ ~(n < longest) /\ longest \in Nat
      BY <1>1, <1>3, <3>1, SizesAssumption DEF Smaller
    <3>3. n = longest /\ n # FREAD_BUFFER_SIZE
      <4> HIDE DEF longest
      <4> QED BY <3>1, <3>2 DEF full
    <3> QED BY <1>3, <3>3, SizesAssumption DEF Smaller
  <2> QED BY <1>3, <2>1, FromEnd
<1>8. Pending[c] = t.source
  BY <1>2, <1>3, Views, ConcatEmptySeq DEF IInv, Remaining, Buffer, Writing
<1>9. CASE n = 0
  <2>1. ~full
    BY <1>9, SizesAssumption
  <2>2. SentResult(read, full) \in {"again", "done", "error"} /\ SentResult(read, full) # "again"
    BY <2>1 DEF SentResult
  <2>3. SentResult(read, full) = "done" => Pending[c] = <<>>
    <3> SUFFICES ASSUME SentResult(read, full) = "done" PROVE Pending[c] = <<>>
      OBVIOUS
    <3>1. From(t.source, n) = <<>>
      BY <1>7, <2>1 DEF SentResult
    <3>2. Upto(t.source, n) = <<>>
      BY <1>9, SubSeqEmpty DEF Upto
    <3> QED BY <1>5, <1>8, <3>1, <3>2, ConcatEmptySeq, EmptySeq
  <2>4. Return(c, read, SentResult(read, full))
    BY <1>1, <1>9
  <2> HIDE DEF read, full
  <2> QED BY <1>2, <1>6, <2>2, <2>3, <2>4, ReturnShown
<1>10. CASE n # 0
  <2> DEFINE after == set_blocking(read, TRUE)
  <2>1. /\ transfer' = [transfer EXCEPT ![c] = after]
        /\ call' = [client |-> c, at |-> "write", buf |-> Upto(t.source, n), full |-> full]
        /\ UNCHANGED NET_BUFFER_SIZE
    BY <1>1, <1>10
  <2>2. /\ after \in Record /\ after.status = "active" /\ after.arrived = t.arrived
        /\ after.source = From(t.source, n) /\ after.eof = (~full /\ ~error) /\ after.blocking
    BY <1>6 DEF set_blocking, Record
  <2>3. call' \in WriteCalls /\ call'.client = c /\ call'.at = "write" /\ call'.full = full
        /\ call'.buf = Upto(t.source, n)
    BY <1>5, <2>1 DEF WriteCalls
  <2>4. call' # NULL
    BY <2>3, ContentsAssumption
  <2>5. transfer'[c] = after
    BY <2>1 DEF IInv, TypeOK
  <2>6. IInv'
    <3> HIDE DEF after
    <3>1. TypeOK'
      BY <2>1, <2>2, <2>3 DEF IInv, TypeOK
    <3>2. CallOK'
      BY <1>6, <1>7, <2>2, <2>3, <2>5 DEF CallOK
    <3> QED BY <3>1, <3>2 DEF IInv
  <2>7. Buffer(c)' = Upto(t.source, n)
    BY <2>3, <2>4 DEF Buffer, Writing
  <2>8. Remaining(after, Buffer(c)') = t.source
    BY <1>5, <2>2, <2>7 DEF Remaining
  <2>9. UNCHANGED <<Status, Pending, Arrived>>
    <3> HIDE DEF after
    <3>1. /\ Status' = [Status EXCEPT ![c] = after.status]
          /\ Arrived' = [Arrived EXCEPT ![c] = after.arrived]
          /\ Pending' = [Pending EXCEPT ![c] = t.source]
      <4>1. transfer' = [transfer EXCEPT ![c] = after] /\ after \in Record
        BY <2>1, <2>2
      <4>2. TypeOK /\ call = NULL /\ call'.client = c
        BY <1>2, <2>3 DEF IInv
      <4>3. Pending' = [Pending EXCEPT ![c] = Remaining(after, Buffer(c)')]
        BY <4>1, <4>2, ChangedViews
      <4>4. Status' = [Status EXCEPT ![c] = after.status] /\ Arrived' = [Arrived EXCEPT ![c] = after.arrived]
        BY <4>1, <4>2, ChangedViews
      <4> QED BY <2>8, <4>3, <4>4
    <3>2. Status[c] = after.status /\ Arrived[c] = after.arrived
      BY <1>2, <2>2, Views DEF IInv
    <3>3. /\ Status = [Status EXCEPT ![c] = Status[c]] /\ Arrived = [Arrived EXCEPT ![c] = Arrived[c]]
          /\ Pending = [Pending EXCEPT ![c] = Pending[c]]
      BY DEF Status, Arrived, Pending
    <3> QED BY <1>8, <3>1, <3>2, <3>3
  <2> QED BY <2>6, <2>9, NothingShown
<1> QED BY <1>9, <1>10

\* A size that is refused is not seen by clients, and a read that has begun keeps its room.
LEMMA ShrinkShown ==
  ASSUME IInv, Shrink, UNCHANGED <<transfer, call>>
  PROVE  IInv' /\ Shown
<1>1. TypeOK'
  BY DEF IInv, TypeOK, Shrink
<1>2. CallOK'
  <2>1. NET_BUFFER_SIZE' \in Nat /\ NET_BUFFER_SIZE \in Nat /\ NET_BUFFER_SIZE' <= NET_BUFFER_SIZE
    BY SizesAssumption DEF Shrink
  <2> SUFFICES ASSUME call # NULL, call.at = "read" PROVE NET_BUFFER_SIZE' <= call.size
    BY DEF IInv, CallOK
  <2>2. call.size \in Nat /\ NET_BUFFER_SIZE <= call.size
    BY DEF IInv, TypeOK, CallOK, WriteCalls, ReadCalls
  <2> QED BY <2>1, <2>2
<1>3. UNCHANGED <<Status, Pending, Arrived>>
  BY DEF Status, Pending, Arrived, Unsent, Writing
<1> QED BY <1>1, <1>2, <1>3, NothingShown DEF IInv

\* What is known while a buffer is sent.
LEMMA WritingFacts ==
  ASSUME IInv, NEW c \in Clients, Writing(c)
  PROVE  /\ call \in WriteCalls /\ call # NULL /\ call.client = c
         /\ transfer[c].status = "active" /\ transfer[c].blocking
         /\ transfer[c].eof /\ ~call.full => transfer[c].source = <<>>
         /\ transfer[c].source \in Seq(Bytes) /\ call.buf \in Seq(Bytes)
         /\ Pending[c] = call.buf \o transfer[c].source
<1>1. call \in WriteCalls /\ call # NULL /\ call.client = c /\ call.at = "write"
  BY DEF IInv, TypeOK, Writing, ReadCalls
<1>2. /\ transfer[c].status = "active" /\ transfer[c].blocking
      /\ transfer[c].eof /\ ~call.full => transfer[c].source = <<>>
  BY <1>1 DEF IInv, CallOK
<1>3. transfer[c] \in Record /\ Pending[c] = Remaining(transfer[c], Buffer(c))
  BY Views DEF IInv
<1> QED BY <1>1, <1>2, <1>3 DEF WriteCalls, Record, Remaining, Buffer

\* A stack that takes a part of buf.
LEMMA WriteSomeShown ==
  ASSUME IInv, NEW c \in Clients, WriteSome(c)
  PROVE  IInv' /\ Shown
<1> DEFINE t   == transfer[c]
           buf == call.buf
<1>1. Writing(c) /\ UNCHANGED NET_BUFFER_SIZE
  BY DEF WriteSome
<1>2. PICK n \in 1..Smaller(Len(buf), NET_BUFFER_SIZE) :
        /\ transfer' = [transfer EXCEPT ![c].arrived = @ \o Upto(buf, n)]
        /\ call' = [call EXCEPT !.buf = From(@, n)]
  BY DEF WriteSome
<1> DEFINE after == [t EXCEPT !.arrived = @ \o Upto(buf, n)]
<1>3. /\ call \in WriteCalls /\ call.client = c /\ t.status = "active" /\ t.blocking
      /\ t.eof /\ ~call.full => t.source = <<>>
      /\ t.source \in Seq(Bytes) /\ buf \in Seq(Bytes) /\ Pending[c] = buf \o t.source
  BY <1>1, WritingFacts
<1>4. n \in 1..Len(buf) /\ n \in 0..Len(buf)
  <2>1. Len(buf) \in Nat /\ NET_BUFFER_SIZE \in Nat
    BY <1>3, LenProperties, SizesAssumption DEF IInv, TypeOK
  <2> QED BY <2>1 DEF Smaller
<1>5. Upto(buf, n) \in Seq(Bytes) /\ From(buf, n) \in Seq(Bytes)
  BY <1>3, <1>4, UptoFrom
<1>6. t \in Record /\ t.arrived \in Seq(Bytes)
  BY DEF IInv, TypeOK, Record
<1>7. t.arrived \o Upto(buf, n) \in Seq(Bytes)
  BY <1>5, <1>6, ConcatProperties
<1>8. /\ after \in Record /\ after.status = "active" /\ after.source = t.source
      /\ after.arrived = t.arrived \o Upto(buf, n)
      /\ after.eof = t.eof /\ after.blocking = t.blocking
  BY <1>3, <1>6, <1>7 DEF Record
<1>9. transfer' = [transfer EXCEPT ![c] = after] /\ transfer'[c] = after
  BY <1>2 DEF IInv, TypeOK
<1>10. /\ call' \in WriteCalls /\ call'.client = c /\ call'.at = "write"
       /\ call'.buf = From(buf, n) /\ call'.full = call.full
  BY <1>2, <1>3, <1>5 DEF WriteCalls
<1>11. IInv'
  <2> HIDE DEF after
  <2>1. TypeOK'
    BY <1>1, <1>8, <1>9, <1>10 DEF IInv, TypeOK
  <2>2. CallOK'
    BY <1>3, <1>8, <1>9, <1>10 DEF CallOK
  <2> QED BY <2>1, <2>2 DEF IInv
<1>12. Remaining(after, Buffer(c)') = From(buf, n) \o t.source
  <2>1. call' # NULL
    BY <1>10, ContentsAssumption
  <2> HIDE DEF after
  <2> QED BY <1>8, <1>10, <2>1 DEF Remaining, Buffer, Writing
<1>13. Promise!Arrive(c)
  <2> HIDE DEF after
  <2>1. /\ Status' = [Status EXCEPT ![c] = after.status]
        /\ Arrived' = [Arrived EXCEPT ![c] = after.arrived]
        /\ Pending' = [Pending EXCEPT ![c] = Remaining(after, Buffer(c)')]
    BY <1>3, <1>8, <1>9, <1>10, ChangedViews DEF IInv
  <2>2. Status[c] = "active" /\ Arrived[c] = t.arrived /\ Status' = Status
    <3>1. Status[c] = "active" /\ Arrived[c] = t.arrived
      BY <1>3, Views DEF IInv
    <3>2. Status = [Status EXCEPT ![c] = Status[c]]
      BY DEF Status
    <3> QED BY <1>8, <2>1, <3>1, <3>2
  <2>3. /\ n \in 1..Len(Pending[c])
        /\ SubSeq(Pending[c], 1, n) = Upto(buf, n)
        /\ SubSeq(Pending[c], n + 1, Len(Pending[c])) = From(buf, n) \o t.source
    <3> DEFINE source == t.source
    <3>1. buf \in Seq(Bytes) /\ source \in Seq(Bytes) /\ n \in 1..Len(buf)
      BY <1>3, <1>4
    <3>2. /\ n \in 1..Len(buf \o source)
          /\ SubSeq(buf \o source, 1, n) = Upto(buf, n)
          /\ SubSeq(buf \o source, n + 1, Len(buf \o source)) = From(buf, n) \o source
      <4> HIDE DEF buf, source
      <4> QED BY <3>1, ConcatUpto
    <3> QED BY <1>3, <3>2
  <2>4. /\ Arrived' = [Arrived EXCEPT ![c] = Arrived[c] \o SubSeq(Pending[c], 1, n)]
        /\ Pending' = [Pending EXCEPT ![c] = SubSeq(Pending[c], n + 1, Len(Pending[c]))]
    BY <1>8, <1>12, <2>1, <2>2, <2>3
  <2> QED BY <2>2, <2>3, <2>4 DEF Promise!Arrive
<1> QED BY <1>11, <1>13 DEF Shown, Promise!FTNext

\* The loop of transfer_exact ends, with all of buf sent or with an error.
LEMMA WriteEndsShown ==
  ASSUME IInv, NEW c \in Clients, WriteFails(c) \/ WriteDone(c)
  PROVE  IInv' /\ Shown
<1> DEFINE t     == transfer[c]
           after == set_blocking(t, FALSE)
<1>1. Writing(c)
  BY DEF WriteFails, WriteDone
<1>2. /\ call.client = c /\ t.status = "active" /\ t.blocking
      /\ t.eof /\ ~call.full => t.source = <<>>
      /\ t.source \in Seq(Bytes) /\ Pending[c] = call.buf \o t.source
  BY <1>1, WritingFacts
<1>3. /\ after \in Record /\ after.status = "active"
      /\ after.arrived = t.arrived /\ after.source = t.source /\ after.eof = t.eof
  BY <1>2 DEF IInv, TypeOK, set_blocking, Record
<1>4. CASE WriteFails(c)
  <2>1. Return(c, after, "error")
    BY <1>2, <1>4 DEF WriteFails
  <2> HIDE DEF after
  <2> QED BY <1>2, <1>3, <2>1, ReturnShown
<1>5. CASE WriteDone(c)
  <2> DEFINE result == SentResult(t, call.full)
  <2>1. Return(c, after, result) /\ call.buf = <<>>
    BY <1>5 DEF WriteDone
  <2>2. Pending[c] = t.source
    BY <1>2, <2>1, ConcatEmptySeq
  <2>3. result \in {"again", "done", "error"} /\ (result = "done" => t.source = <<>>)
    BY <1>2 DEF SentResult
  <2> HIDE DEF after, result
  <2> QED BY <1>2, <1>3, <2>1, <2>2, <2>3, ReturnShown
<1> QED BY <1>4, <1>5

\* A read has begun: there is nothing in hand.
LEMMA ReadingFacts ==
  ASSUME IInv, NEW c \in Clients, Reading(c)
  PROVE  /\ call \in ReadCalls /\ call # NULL /\ call.client = c /\ ~Writing(c)
         /\ transfer[c] \in Record /\ transfer[c].status = "active"
         /\ transfer[c].source \in Seq(Bytes)
         /\ Pending[c] = transfer[c].source
<1>1. call \in ReadCalls /\ call # NULL /\ call.client = c /\ ~Writing(c)
  BY DEF IInv, TypeOK, Reading, WriteCalls, Writing
<1>2. transfer[c].status = "active"
  BY <1>1 DEF IInv, CallOK
<1>3. transfer[c] \in Record /\ Pending[c] = Remaining(transfer[c], Buffer(c))
  BY Views DEF IInv
<1>4. transfer[c].source \in Seq(Bytes)
  BY <1>3 DEF Record
<1> QED BY <1>1, <1>2, <1>3, <1>4, ConcatEmptySeq DEF Remaining, Buffer

LEMMA RecvToFileShown ==
  ASSUME IInv, NEW c \in Clients, RecvToFile(c)
  PROVE  IInv' /\ Shown
<1>1. /\ call = NULL /\ transfer[c].status = "active"
      /\ call' = [client |-> c, at |-> "read", size |-> NET_BUFFER_SIZE]
      /\ UNCHANGED <<NET_BUFFER_SIZE, transfer>>
  BY DEF RecvToFile
<1>2. NET_BUFFER_SIZE \in Nat
  BY SizesAssumption DEF IInv, TypeOK
<1>3. call' \in ReadCalls /\ call'.client = c /\ call'.at = "read" /\ call'.size = NET_BUFFER_SIZE
  BY <1>1, <1>2 DEF ReadCalls
<1>4. IInv'
  BY <1>1, <1>2, <1>3 DEF IInv, TypeOK, CallOK
<1>5. \A d \in Clients : ~Writing(d) /\ ~Writing(d)'
  BY <1>1, <1>3 DEF Writing
<1>6. UNCHANGED <<Status, Pending, Arrived>>
  BY <1>1, <1>5 DEF Status, Pending, Arrived, Unsent
<1> QED BY <1>4, <1>6, NothingShown

\* Bytes that are read are written to the file, or the transfer fails.
LEMMA ReadSomeShown ==
  ASSUME IInv, NEW c \in Clients, ReadSome(c)
  PROVE  IInv' /\ Shown
<1> DEFINE t == transfer[c]
<1>1. Reading(c)
  BY DEF ReadSome
<1>2. PICK n \in 1..Smaller(Len(t.source), NET_BUFFER_SIZE) :
        LET rest == [t EXCEPT !.source = From(@, n)] IN
        \/ /\ transfer' = [transfer EXCEPT ![c] = [rest EXCEPT !.arrived = @ \o Upto(t.source, n)]]
           /\ UNCHANGED <<NET_BUFFER_SIZE, call>>
        \/ Return(c, rest, "error")
  BY DEF ReadSome
<1>3. /\ call \in ReadCalls /\ call.client = c /\ ~Writing(c) /\ t \in Record
      /\ t.status = "active" /\ t.source \in Seq(Bytes) /\ Pending[c] = t.source
  BY <1>1, ReadingFacts
<1>4. n \in 1..Len(t.source) /\ n \in 0..Len(t.source)
  <2>1. Len(t.source) \in Nat /\ NET_BUFFER_SIZE \in Nat
    BY <1>3, LenProperties, SizesAssumption DEF IInv, TypeOK
  <2> QED BY <2>1 DEF Smaller
<1>5. Upto(t.source, n) \in Seq(Bytes) /\ From(t.source, n) \in Seq(Bytes)
  BY <1>3, <1>4, UptoFrom
<1> DEFINE rest  == [t EXCEPT !.source = From(@, n)]
           after == [rest EXCEPT !.arrived = @ \o Upto(t.source, n)]
<1>6. rest \in Record /\ rest.status = "active" /\ rest.arrived = t.arrived
  BY <1>3, <1>5 DEF Record
<1>7. CASE Return(c, rest, "error")
  <2> HIDE DEF rest
  <2> QED BY <1>3, <1>6, <1>7, ReturnShown
<1>8. CASE transfer' = [transfer EXCEPT ![c] = after] /\ UNCHANGED <<NET_BUFFER_SIZE, call>>
  <2>1. t.arrived \o Upto(t.source, n) \in Seq(Bytes)
    BY <1>3, <1>5, ConcatProperties DEF Record
  <2>2. /\ after \in Record /\ after.status = "active" /\ after.source = From(t.source, n)
        /\ after.arrived = t.arrived \o Upto(t.source, n)
    BY <1>3, <1>5, <2>1 DEF Record
  <2>3. transfer'[c] = after
    BY <1>8 DEF IInv, TypeOK
  <2>4. ~Writing(c)'
    BY <1>3, <1>8 DEF Writing
  <2> HIDE DEF after
  <2>5. IInv'
    <3>1. TypeOK'
      BY <1>8, <2>2 DEF IInv, TypeOK
    <3>2. call'.at = "read"
      BY <1>3, <1>8 DEF ReadCalls
    <3>3. CallOK'
      BY <1>3, <1>8, <2>2, <2>3, <3>2 DEF IInv, CallOK
    <3> QED BY <3>1, <3>3 DEF IInv
  <2>6. Remaining(after, Buffer(c)') = From(t.source, n)
    BY <1>5, <2>2, <2>4, ConcatEmptySeq DEF Remaining, Buffer
  <2>7. /\ Status' = [Status EXCEPT ![c] = after.status]
        /\ Arrived' = [Arrived EXCEPT ![c] = after.arrived]
        /\ Pending' = [Pending EXCEPT ![c] = Remaining(after, Buffer(c)')]
    <3>1. TypeOK /\ call.client = c /\ call'.client = c
      BY <1>3, <1>8 DEF IInv
    <3> QED BY <1>8, <2>2, <3>1, ChangedViews
  <2>8. Status[c] = "active" /\ Arrived[c] = t.arrived
    BY <1>3, Views DEF IInv
  <2>9. Status' = Status
    <3>1. Status = [Status EXCEPT ![c] = Status[c]]
      BY DEF Status
    <3> QED BY <2>2, <2>7, <2>8, <3>1
  <2>10. Promise!Arrive(c)
    <3>1. /\ Arrived' = [Arrived EXCEPT ![c] = Arrived[c] \o SubSeq(Pending[c], 1, n)]
          /\ Pending' = [Pending EXCEPT ![c] = SubSeq(Pending[c], n + 1, Len(Pending[c]))]
      BY <1>3, <2>2, <2>6, <2>7, <2>8 DEF Upto, From
    <3>2. n \in 1..Len(Pending[c])
      BY <1>3, <1>4
    <3> QED BY <2>8, <2>9, <3>1, <3>2 DEF Promise!Arrive
  <2> QED BY <2>5, <2>10 DEF Shown, Promise!FTNext
<1> QED BY <1>2, <1>7, <1>8

\* A read that finds nothing: yet, any more, or because the connection is broken.
LEMMA ReadReturnsShown ==
  ASSUME IInv, NEW c \in Clients, ReadAgain(c) \/ ReadEnd(c) \/ ReadFails(c)
  PROVE  IInv' /\ Shown
<1>1. Reading(c)
  BY DEF ReadAgain, ReadEnd, ReadFails
<1>2. PICK result \in {"again", "done", "error"} :
        /\ Return(c, transfer[c], result)
        /\ result = "done" => transfer[c].source = <<>>
  BY DEF ReadAgain, ReadEnd, ReadFails
<1>3. /\ call.client = c /\ transfer[c] \in Record /\ transfer[c].status = "active"
      /\ Pending[c] = transfer[c].source
  BY <1>1, ReadingFacts
<1> QED BY <1>2, <1>3, ReturnShown

-----------------------------------------------------------------------------
(* The theorems                                                            *)

LEMMA InitShown == Init => IInv /\ Promise!FTInit
<1> SUFFICES ASSUME Init PROVE IInv /\ Promise!FTInit
  OBVIOUS
<1>1. Idle \in Record /\ Idle.status = "idle" /\ Idle.arrived = <<>>
  BY EmptySeq DEF Idle, Record
<1>2. IInv
  BY <1>1 DEF Init, IInv, TypeOK, CallOK
<1>3. Promise!FTInit
  BY <1>1 DEF Init, Promise!FTInit, Status, Pending, Arrived
<1> QED BY <1>2, <1>3

LEMMA NextShown == IInv /\ [Next]_vars => IInv' /\ Shown
<1> SUFFICES ASSUME IInv, [Next]_vars PROVE IInv' /\ Shown
  OBVIOUS
<1>1. ASSUME NEW c \in Clients, NEW kind \in {"send", "recv"}, Start(c, kind) PROVE IInv' /\ Shown
  BY <1>1, StartShown
<1>2. ASSUME NEW c \in Clients, Callback(c) PROVE IInv' /\ Shown
  BY <1>2, FreadShown, RecvToFileShown DEF Callback
<1>3. ASSUME NEW c \in Clients, SendStep(c) PROVE IInv' /\ Shown
  BY <1>3, WriteSomeShown, WriteEndsShown, ShrinkShown DEF SendStep, WriteRefused
<1>4. ASSUME NEW c \in Clients, RecvStep(c) PROVE IInv' /\ Shown
  BY <1>4, ReadSomeShown, ReadReturnsShown, ShrinkShown DEF RecvStep, ReadRefused
<1>5. CASE OtherRefused
  BY <1>5, ShrinkShown DEF OtherRefused
<1>6. CASE UNCHANGED vars
  <2>1. IInv'
    BY <1>6 DEF vars, IInv, TypeOK, CallOK
  <2>2. UNCHANGED <<Status, Pending, Arrived>>
    BY <1>6 DEF vars, Status, Pending, Arrived, Unsent, Writing
  <2> QED BY <2>1, <2>2, NothingShown
<1> QED BY <1>1, <1>2, <1>3, <1>4, <1>5, <1>6 DEF Next

\* The strengthening of what is to be shown is invariant.
THEOREM Invariance == Spec => []IInv
<1>1. Init => IInv
  BY InitShown
<1>2. IInv /\ [Next]_vars => IInv'
  BY NextShown
<1> QED BY <1>1, <1>2, PTL DEF Spec

\* A buffer is never shorter than the size that recv_to_file asks net_read for, although
\* other calls change NET_BUFFER_SIZE and its own read may be refused.
THEOREM ReadsFit == Spec => []ReadFitsBuffer
<1>1. IInv => ReadFitsBuffer
  BY DEF IInv, CallOK, ReadFitsBuffer
<1> QED BY <1>1, Invariance, PTL

\* Data arrive in order and once, and a 226 is sent only when all have: send_from_file,
\* recv_to_file and transfer_exact implement what a transfer command promises.
THEOREM Implementation == Spec => ImplementsFileTransfer
<1>1. Init => Promise!FTInit
  BY InitShown
<1>2. IInv /\ [Next]_vars => Shown
  BY NextShown
<1> QED BY <1>1, <1>2, Invariance, PTL DEF Spec, ImplementsFileTransfer, Promise!FTSpec, Shown
=============================================================================
