------------------------ MODULE ControlBufferProofs ------------------------
(***************************************************************************)
(* Theorems about ControlBuffer, for a buffer of any size and any bytes.   *)
(***************************************************************************)
EXTENDS ControlBuffer, Induction, SequenceTheorems

-----------------------------------------------------------------------------
(* The C library                                                           *)

\* strlen finds the first zero byte.
LEMMA StringEndIs ==
  ASSUME NEW b, NEW i \in Nat, NEW j \in i..FTP_BUFFER_SIZE-1,
         b[j] = NUL, \A k \in i..j-1 : b[k] # NUL
  PROVE  StringEnd(b, i) = j
<1>1. ASSUME NEW m \in i..FTP_BUFFER_SIZE-1, b[m] = NUL, \A k \in i..m-1 : b[k] # NUL
      PROVE  m = j
  <2>1. ~(m < j) /\ ~(j < m)
    BY <1>1, SizeAssumption
  <2> QED BY <2>1, SizeAssumption
<1> QED BY <1>1 DEF StringEnd

\* There is one if there is any.
LEMMA StringEndFound ==
  ASSUME NEW b, NEW i \in Nat, NEW m \in i..FTP_BUFFER_SIZE-1, b[m] = NUL
  PROVE  /\ StringEnd(b, i) \in i..m /\ b[StringEnd(b, i)] = NUL
         /\ \A k \in i..StringEnd(b, i)-1 : b[k] # NUL
<1> DEFINE T == {k \in i..m : b[k] = NUL}
<1>1. PICK j \in T : \A k \in T : j <= k
  <2>1. m \in T /\ T \in SUBSET Nat
    BY SizeAssumption
  <2> QED BY <2>1, LeastNatural
<1>2. j \in i..FTP_BUFFER_SIZE-1 /\ j <= m
  BY SizeAssumption
<1>3. \A k \in i..j-1 : b[k] # NUL
  BY <1>1, <1>2, SizeAssumption
<1> HIDE DEF T
<1>4. StringEnd(b, i) = j
  BY <1>2, <1>3, StringEndIs, <1>1 DEF T
<1> QED BY <1>1, <1>2, <1>3, <1>4 DEF T

-----------------------------------------------------------------------------
(* Parts of the buffer                                                     *)

\* The bytes from i up to j, as a sequence.
Segment(b, i, j) == [k \in 1..j-i |-> b[i+k-1]]

LEMMA SegmentSeq ==
  ASSUME NEW S, NEW b, NEW i \in Nat, NEW j \in Nat, i <= j, \A k \in i..j-1 : b[k] \in S
  PROVE  /\ Segment(b, i, j) \in Seq(S) /\ Len(Segment(b, i, j)) = j - i
         /\ \A k \in 1..j-i : Segment(b, i, j)[k] = b[i+k-1]
<1>1. j - i \in Nat
  OBVIOUS
<1>2. Segment(b, i, j) \in [1..j-i -> S]
  BY DEF Segment
<1> QED BY <1>1, <1>2 DEF Segment

\* SubSeq, in lemmas that are to be instantiated.
Part(s, m, n) == SubSeq(s, m, n)

\* A part of a part.
LEMMA SubSegment ==
  ASSUME NEW b, NEW i \in Nat, NEW j \in Nat, NEW m \in Nat \ {0}, NEW n \in Nat,
         m - 1 <= n, n <= j - i, NEW k0, k0 = i+m-1, NEW k1, k1 = i+n
  PROVE  Part(Segment(b, i, j), m, n) = Segment(b, k0, k1)
<1>1. SubSeq(Segment(b, i, j), m, n) = [k \in 1..1+n-m |-> Segment(b, i, j)[k+m-1]]
  BY DEF Segment
<1>2. (i+n) - (i+m-1) = 1+n-m
  OBVIOUS
<1>3. \A k \in 1..1+n-m : Segment(b, i, j)[k+m-1] = b[(i+m-1)+k-1]
  BY DEF Segment
<1> QED BY <1>1, <1>2, <1>3 DEF Segment, Part

-----------------------------------------------------------------------------
(* The inductive invariant                                                 *)

\* The string from i to j, without its zero byte.
IsString(b, i, j) == \A k \in i..j-1 : b[k] # NUL

\* What StringIsRest says in the for loop, and what is true outside of it: the buffer
\* begins with what has not been executed; no line is left in it when one read follows
\* another, not even if it is full; and a transfer command has left room.
BufferInv ==
  /\ state = "lines" => next <= offset /\ buf[offset] = NUL /\ IsString(buf, next, offset)
  /\ state \in {"read", "resumed", "transfer"} => next = 0 /\ IsString(buf, 0, offset)
  /\ state = "read" /\ offset = FTP_BUFFER_SIZE - 1 => Matches(buf, 0) = {}
  /\ state \in {"resumed", "transfer"} => offset < FTP_BUFFER_SIZE - 1
  /\ NoLineLeftBehind

IInv == TypeOK /\ BufferInv

\* A CR LF that strstr finds lies inside of the string.
LEMMA MatchInside ==
  ASSUME TypeOK, BufferInv, state = "lines", NEW end \in Matches(buf, next)
  PROVE  /\ end \in next..offset-2 /\ end \in Indices /\ end + 1 \in Indices
         /\ buf[end] = CR /\ buf[end+1] = LF
<1>1. /\ end \in next..FTP_BUFFER_SIZE-2 /\ buf[end] = CR /\ buf[end+1] = LF
      /\ \A k \in next..end : buf[k] # NUL
  BY DEF Matches
<1>2. next \in Nat /\ offset \in Nat /\ next <= offset /\ buf[offset] = NUL
  BY SizeAssumption DEF TypeOK, BufferInv, Indices
<1>3. ~(offset <= end)
  BY <1>1, <1>2, SizeAssumption
<1>4. offset # end + 1
  BY <1>1, <1>2, CharsAssumption
<1> QED BY <1>1, <1>2, <1>3, <1>4, SizeAssumption DEF Indices

\* Cutting off a line leaves the bytes behind it.
LEMMA CutKeeps ==
  ASSUME TypeOK, BufferInv, state = "lines", NEW end \in Matches(buf, next),
         NEW cut, cut = [buf EXCEPT ![end] = NUL]
  PROVE  /\ cut \in [Indices -> Chars]
         /\ \A k \in end+1..offset : cut[k] = buf[k]
         /\ cut[offset] = NUL /\ IsString(cut, end + 2, offset)
<1>1. end \in next..offset-2 /\ end \in Indices
  BY MatchInside
<1>2. next \in Nat /\ offset \in Indices /\ offset \in Nat /\ buf \in [Indices -> Chars]
  BY SizeAssumption DEF TypeOK, Indices
<1>3. cut \in [Indices -> Chars]
  BY <1>2, CharsAssumption
<1>4. ASSUME NEW k \in end+1..offset PROVE cut[k] = buf[k]
  <2>1. k \in Indices /\ k # end
    BY <1>1, <1>2, SizeAssumption DEF Indices
  <2> QED BY <1>2, <2>1
<1>5. cut[offset] = NUL
  BY <1>1, <1>2, <1>4 DEF BufferInv
<1>6. ASSUME NEW k \in end+2..offset-1 PROVE cut[k] # NUL
  <2>1. k \in end+1..offset /\ k \in next..offset-1
    BY <1>1, <1>2
  <2> QED BY <1>4, <2>1 DEF BufferInv, IsString
<1> QED BY <1>3, <1>4, <1>5, <1>6 DEF IsString

\* What MoveRest leaves behind, if the string at n ends at offset.
LEMMA Moved ==
  ASSUME NEW b \in [Indices -> Chars], NEW n \in Nat, offset \in Indices, n <= offset,
         b[offset] = NUL, IsString(b, n, offset), NEW then, MoveRest(b, n, then)
  PROVE  /\ offset' = offset - n /\ offset' \in Indices /\ next' = 0 /\ state' = then
         /\ buf' \in [Indices -> Chars]
         /\ \A i \in 0..offset'-1 : buf'[i] = b[n+i]
         /\ IsString(buf', 0, offset')
<1>1. offset \in Nat /\ offset <= FTP_BUFFER_SIZE - 1
  BY SizeAssumption DEF Indices
<1>2. StringEnd(b, n) = offset
  BY <1>1, StringEndIs DEF IsString
<1>3. offset' = offset - n /\ offset' \in Indices
  BY <1>1, <1>2, SizeAssumption DEF MoveRest, Indices
<1>4. buf' = [i \in Indices |-> IF n # 0 /\ i < offset' THEN b[n+i] ELSE b[i]]
  BY DEF MoveRest
<1>5. ASSUME NEW i \in Indices, n # 0, i < offset' PROVE n + i \in Indices
  BY <1>1, <1>3, <1>5, SizeAssumption DEF Indices
<1>6. buf' \in [Indices -> Chars]
  BY <1>4, <1>5
<1>7. ASSUME NEW i \in 0..offset'-1 PROVE buf'[i] = b[n+i]
  <2>1. i \in Indices /\ i < offset'
    BY <1>1, <1>3, SizeAssumption DEF Indices
  <2>2. n = 0 => n + i = i
    BY <2>1, SizeAssumption DEF Indices
  <2> QED BY <1>4, <2>1, <2>2
<1>8. ASSUME NEW i \in 0..offset'-1 PROVE buf'[i] # NUL
  <2>1. n + i \in n..offset-1
    BY <1>1, <1>3
  <2> QED BY <1>7, <2>1 DEF IsString
<1>9. next' = 0 /\ state' = then
  BY DEF MoveRest
<1> QED BY <1>3, <1>6, <1>7, <1>8, <1>9 DEF IsString

-----------------------------------------------------------------------------
(* Every step preserves it                                                 *)

LEMMA InitIInv == Init => IInv
<1> SUFFICES ASSUME Init PROVE IInv
  OBVIOUS
<1>1. PICK garbage \in Chars : buf = [i \in Indices |-> garbage]
  BY DEF Init
<1>2. offset = 0 /\ next = 0 /\ state = "read" /\ command = <<>> /\ why = "none"
  BY DEF Init
<1>3. 0 \in Indices /\ 0 # FTP_BUFFER_SIZE - 1
  BY SizeAssumption DEF Indices
<1>4. TypeOK
  BY <1>1, <1>2, <1>3 DEF TypeOK
<1>5. BufferInv
  BY <1>2, <1>3 DEF BufferInv, IsString, NoLineLeftBehind
<1> QED BY <1>4, <1>5 DEF IInv

\* A client that is closed leaves a buffer of which nothing is asked.
LEMMA CloseIInv ==
  ASSUME TypeOK, NEW reason \in {"null", "peer", "toolong", "linefeed", "command"}, Close(reason),
         buf' \in [Indices -> Chars], \A i \in DOMAIN command' : command'[i] \in Chars \ {LF, NUL}
  PROVE  IInv'
BY DEF Close, TypeOK, IInv, BufferInv, NoLineLeftBehind

\* What net_read puts into the buffer.
LEMMA FilledIs ==
  ASSUME TypeOK, NEW n \in 1..(FTP_BUFFER_SIZE - 1 - offset), NEW s \in [1..n -> Chars]
  PROVE  /\ Filled(s) \in [Indices -> Chars]
         /\ offset + n \in Indices /\ Filled(s)[offset + n] = NUL
         /\ \A i \in 0..offset-1 : Filled(s)[i] = buf[i]
         /\ \A i \in offset..offset+n-1 : Filled(s)[i] = s[i-offset+1] /\ i-offset+1 \in 1..n
<1>1. offset \in Nat /\ offset \in Indices /\ offset + n <= FTP_BUFFER_SIZE - 1
      /\ offset + n \in Indices
  BY SizeAssumption DEF TypeOK, Indices
<1>2. Len(s) = n
  OBVIOUS
<1>3. Filled(s) = [i \in Indices |-> IF i \in offset..offset+n-1 THEN s[i-offset+1]
                                   ELSE IF i = offset + n THEN NUL ELSE buf[i]]
  BY <1>2 DEF Filled
<1>4. \A i \in offset..offset+n-1 : i-offset+1 \in 1..n
  BY <1>1
<1>5. Filled(s) \in [Indices -> Chars]
  BY <1>3, <1>4, CharsAssumption DEF TypeOK
<1>6. \A i \in 0..offset+n : i \in Indices
  BY <1>1, SizeAssumption DEF Indices
<1>7. Filled(s)[offset + n] = NUL
  BY <1>1, <1>3
<1>8. \A i \in 0..offset-1 : Filled(s)[i] = buf[i]
  BY <1>1, <1>3, <1>6
<1>9. \A i \in offset..offset+n-1 : Filled(s)[i] = s[i-offset+1]
  BY <1>1, <1>3, <1>6
<1> QED BY <1>1, <1>4, <1>5, <1>7, <1>8, <1>9

\* The bytes are a string if strchr finds no other zero byte before the last.
LEMMA FilledString ==
  ASSUME TypeOK, BufferInv, Reading,
         NEW n \in 1..(FTP_BUFFER_SIZE - 1 - offset), NEW s \in [1..n -> Chars],
         StringEnd(Filled(s), offset) = offset + n
  PROVE  IsString(Filled(s), 0, offset + n)
<1>1. offset \in Nat /\ offset + n \in offset..FTP_BUFFER_SIZE-1
  BY SizeAssumption DEF TypeOK, Indices
<1>2. \A k \in offset..offset+n-1 : Filled(s)[k] # NUL
  <2>1. Filled(s)[offset + n] = NUL
    BY FilledIs
  <2> QED BY <1>1, <2>1, StringEndFound
<1>3. \A k \in 0..offset-1 : Filled(s)[k] # NUL
  BY FilledIs DEF BufferInv, IsString, Reading
<1> QED BY <1>1, <1>2, <1>3 DEF IsString

LEMMA ReadIInv == ASSUME IInv, Read PROVE IInv'
<1> USE DEF IInv
<1>1. PICK n \in 1..(FTP_BUFFER_SIZE - 1 - offset) : \E s \in [1..n -> Chars] :
        /\ buf' = Filled(s)
        /\ IF StringEnd(Filled(s), offset) = offset + n
           THEN offset' = offset + n /\ state' = "lines" /\ UNCHANGED <<next, why>>
           ELSE Close("null")
  BY DEF Read
<1>2. PICK s \in [1..n -> Chars] :
        /\ buf' = Filled(s)
        /\ IF StringEnd(Filled(s), offset) = offset + n
           THEN offset' = offset + n /\ state' = "lines" /\ UNCHANGED <<next, why>>
           ELSE Close("null")
  BY <1>1
<1>3. Reading /\ UNCHANGED command
  BY DEF Read
<1>4. buf' \in [Indices -> Chars] /\ offset + n \in Indices /\ buf'[offset + n] = NUL
  BY <1>2, FilledIs
<1>5. CASE StringEnd(Filled(s), offset) = offset + n
  <2>1. IsString(buf', 0, offset')
    BY <1>2, <1>3, <1>5, FilledString
  <2>2. next' = 0 /\ 0 \in Indices /\ 0 <= offset'
    BY <1>2, <1>3, <1>4, <1>5, SizeAssumption DEF BufferInv, Indices, Reading
  <2>3. TypeOK'
    BY <1>2, <1>3, <1>4, <1>5, <2>2 DEF TypeOK
  <2>4. BufferInv'
    BY <1>2, <1>4, <1>5, <2>1, <2>2 DEF BufferInv, NoLineLeftBehind
  <2> QED BY <2>3, <2>4
<1>6. CASE StringEnd(Filled(s), offset) # offset + n
  BY <1>2, <1>3, <1>4, <1>6, CloseIInv DEF TypeOK
<1> QED BY <1>5, <1>6

LEMMA ReadEndsIInv == ASSUME IInv, ReadFails \/ LineTooLong PROVE IInv'
<1>1. PICK reason \in {"peer", "toolong"} : Close(reason) /\ UNCHANGED <<buf, command>>
  BY DEF ReadFails, LineTooLong
<1> QED BY <1>1, CloseIInv DEF IInv, TypeOK

\* The end of the for loop, however it is reached: the rest of the string is moved, and
\* it leaves room for a further byte if a line was taken or if there is no line in it.
LEMMA MoveRestIInv ==
  ASSUME IInv, state = "lines", NEW b \in [Indices -> Chars], NEW n \in Nat, n <= offset,
         b[offset] = NUL, IsString(b, n, offset),
         NEW then \in {"read", "transfer"}, MoveRest(b, n, then),
         n = 0 => then = "read" /\ Matches(b, 0) = {},
         NoLineLeftBehind',
         \A i \in DOMAIN command' : command'[i] \in Chars \ {LF, NUL}, UNCHANGED why
  PROVE  IInv'
<1>1. offset \in Indices /\ offset \in Nat /\ offset <= FTP_BUFFER_SIZE - 1
  BY SizeAssumption DEF IInv, TypeOK, Indices
<1>2. /\ offset' = offset - n /\ offset' \in Indices /\ next' = 0 /\ state' = then
      /\ buf' \in [Indices -> Chars] /\ IsString(buf', 0, offset')
  BY <1>1, Moved
<1>3. TypeOK'
  BY <1>2, SizeAssumption DEF IInv, TypeOK, Indices
<1>4. n # 0 => offset' < FTP_BUFFER_SIZE - 1
  BY <1>1, <1>2, SizeAssumption
<1>5. n = 0 => buf' = b
  BY DEF MoveRest
<1>6. BufferInv'
  <2>1. state' = "transfer" => offset' < FTP_BUFFER_SIZE - 1
    BY <1>2, <1>4
  <2>2. state' = "read" /\ offset' = FTP_BUFFER_SIZE - 1 => Matches(buf', 0) = {}
    BY <1>4, <1>5, SizeAssumption
  <2>3. (Matches(buf, 0))' = Matches(buf', 0)
    BY DEF Matches
  <2>4. state' # "resumed"
    BY <1>2
  <2> QED BY <1>2, <2>1, <2>2, <2>3, <2>4 DEF BufferInv
<1> QED BY <1>3, <1>6 DEF IInv

\* The line that is cut off holds bytes that are not zero.
LEMMA LineBytes ==
  ASSUME IInv, state = "lines", NEW end \in Matches(buf, next)
  PROVE  \A i \in 1..end-next : buf[next+i-1] \in Chars \ {NUL}
<1> TAKE i \in 1..end-next
<1>1. end \in next..offset-2 /\ end \in Indices
  BY MatchInside DEF IInv
<1>2. next \in Nat /\ offset \in Nat /\ offset <= FTP_BUFFER_SIZE - 1
  BY SizeAssumption DEF IInv, TypeOK, Indices
<1>3. next + i - 1 \in next..offset-1 /\ next + i - 1 \in Indices
  BY <1>1, <1>2, SizeAssumption DEF Indices
<1> QED BY <1>3 DEF IInv, TypeOK, BufferInv, IsString

LEMMA LineIInv == ASSUME IInv, Line PROVE IInv'
<1>1. PICK end \in Matches(buf, next) :
        LET line == [i \in 1..end-next |-> buf[next+i-1]]
            cut  == [buf EXCEPT ![end] = NUL]
        IN
        \/ Close("linefeed") /\ buf' = cut /\ UNCHANGED command
        \/ /\ line = <<>>
           /\ buf' = cut /\ next' = end + 2 /\ UNCHANGED <<offset, state, why, command>>
        \/ /\ line # <<>> /\ \A i \in DOMAIN line : line[i] # LF
           /\ command' = line
           /\ GoOn(end) \/ (Close("command") /\ buf' = cut)
  BY DEF Line
<1> DEFINE line == [i \in 1..end-next |-> buf[next+i-1]]
           cut  == [buf EXCEPT ![end] = NUL]
<1>2. state = "lines"
  BY DEF Line
<1>3. /\ end \in next..offset-2 /\ end + 2 \in Nat /\ end + 2 \in Indices /\ end + 2 <= offset
      /\ end + 2 # 0
  <2>1. next \in Nat /\ offset \in Nat /\ offset <= FTP_BUFFER_SIZE - 1
    BY SizeAssumption DEF IInv, TypeOK, Indices
  <2>2. end \in next..offset-2
    BY <1>2, MatchInside DEF IInv
  <2> QED BY <2>1, <2>2, SizeAssumption DEF Indices
<1>4. /\ cut \in [Indices -> Chars] /\ cut[offset] = NUL /\ IsString(cut, end + 2, offset)
  BY <1>2, CutKeeps DEF IInv
<1>5. (\A i \in DOMAIN line : line[i] # LF) =>
        \A i \in DOMAIN line : line[i] \in Chars \ {LF, NUL}
  BY <1>2, LineBytes
<1>6. \A i \in DOMAIN command : command[i] \in Chars \ {LF, NUL}
  BY DEF IInv, TypeOK
<1>7. ASSUME buf' = cut, next' = end + 2, UNCHANGED <<offset, state, why>>,
             \A i \in DOMAIN command' : command'[i] \in Chars \ {LF, NUL}
      PROVE  IInv'
  <2> HIDE DEF cut
  <2>1. TypeOK'
    BY <1>3, <1>4, <1>7 DEF IInv, TypeOK
  <2>2. BufferInv'
    BY <1>2, <1>3, <1>4, <1>7 DEF BufferInv, NoLineLeftBehind
  <2> QED BY <2>1, <2>2 DEF IInv
<1>8. CASE Close("linefeed") /\ buf' = cut /\ UNCHANGED command
  <2> HIDE DEF cut
  <2> QED BY <1>4, <1>6, <1>8, CloseIInv DEF IInv
<1>9. CASE buf' = cut /\ next' = end + 2 /\ UNCHANGED <<offset, state, why, command>>
  <2> HIDE DEF cut
  <2> QED BY <1>6, <1>7, <1>9
<1>10. CASE /\ \A i \in DOMAIN line : line[i] # LF
            /\ command' = line
            /\ GoOn(end) \/ (Close("command") /\ buf' = cut)
  <2>1. \A i \in DOMAIN command' : command'[i] \in Chars \ {LF, NUL}
    BY <1>5, <1>10
  <2>2. CASE Close("command") /\ buf' = cut
    <3> HIDE DEF cut
    <3> QED BY <1>4, <2>1, <2>2, CloseIInv DEF IInv
  <2>3. CASE GoOn(end)
    <3>1. /\ \/ buf' = cut /\ next' = end + 2 /\ state' = "lines" /\ UNCHANGED offset
             \/ MoveRest(cut, end + 2, "transfer")
          /\ UNCHANGED why
      BY <2>3 DEF GoOn
    <3> HIDE DEF cut, line
    <3>2. CASE MoveRest(cut, end + 2, "transfer")
      <4>1. NoLineLeftBehind'
        BY <3>2 DEF MoveRest, NoLineLeftBehind
      <4> QED BY <1>2, <1>3, <1>4, <2>1, <3>1, <3>2, <4>1, MoveRestIInv
    <3> QED BY <1>2, <1>7, <2>1, <3>1, <3>2
  <2> QED BY <1>10, <2>2, <2>3
<1> QED BY <1>1, <1>8, <1>9, <1>10

\* When the for loop is left for the next read, the last turn has found no line, and what
\* MoveRest moves is what it has looked through.
LEMMA LinesDoneLeavesNone ==
  ASSUME IInv, LinesDone
  PROVE  ~\E i \in 0..offset'-2 : buf'[i] = CR /\ buf'[i+1] = LF
<1>1. state = "lines" /\ Matches(buf, next) = {} /\ MoveRest(buf, next, "read")
  BY DEF LinesDone
<1>2. /\ next \in Nat /\ buf \in [Indices -> Chars] /\ offset \in Indices /\ offset \in Nat
      /\ offset <= FTP_BUFFER_SIZE - 1
  BY SizeAssumption DEF IInv, TypeOK, Indices
<1>3. next <= offset /\ buf[offset] = NUL /\ IsString(buf, next, offset)
  BY <1>1 DEF IInv, BufferInv
<1>4. offset' = offset - next /\ \A i \in 0..offset'-1 : buf'[i] = buf[next+i]
  BY <1>1, <1>2, <1>3, Moved
<1> SUFFICES ASSUME NEW i \in 0..offset'-2, buf'[i] = CR, buf'[i+1] = LF PROVE FALSE
  OBVIOUS
<1>5. /\ i \in 0..offset'-1 /\ i + 1 \in 0..offset'-1 /\ next + (i + 1) = (next + i) + 1
      /\ next + i \in next..FTP_BUFFER_SIZE-2 /\ next + i + 1 <= offset - 1
  BY <1>2, <1>3, <1>4, SizeAssumption
<1>6. buf[next+i] = CR /\ buf[(next+i)+1] = LF
  BY <1>4, <1>5
<1>7. \A k \in next..next+i : buf[k] # NUL
  BY <1>2, <1>3, <1>5 DEF IsString
<1>8. next + i \in Matches(buf, next)
  BY <1>5, <1>6, <1>7 DEF Matches
<1> QED BY <1>1, <1>8

LEMMA LinesDoneIInv == ASSUME IInv, LinesDone PROVE IInv'
<1>1. /\ state = "lines" /\ Matches(buf, next) = {} /\ MoveRest(buf, next, "read")
      /\ UNCHANGED <<command, why>>
  BY DEF LinesDone
<1>2. next \in Nat /\ buf \in [Indices -> Chars]
  BY SizeAssumption DEF IInv, TypeOK, Indices
<1>3. next <= offset /\ buf[offset] = NUL /\ IsString(buf, next, offset)
  BY <1>1 DEF IInv, BufferInv
<1>4. \A i \in DOMAIN command' : command'[i] \in Chars \ {LF, NUL}
  BY <1>1 DEF IInv, TypeOK
<1>5. NoLineLeftBehind'
  BY LinesDoneLeavesNone DEF NoLineLeftBehind
<1> QED BY <1>1, <1>2, <1>3, <1>4, <1>5, MoveRestIInv

LEMMA TransferEndsIInv == ASSUME IInv, TransferEnds PROVE IInv'
<1>1. CASE state' = "resumed" /\ UNCHANGED <<offset, next, why, buf, command>>
  <2>1. state = "transfer" /\ TypeOK'
    BY <1>1 DEF TransferEnds, IInv, TypeOK
  <2> QED BY <1>1, <2>1 DEF IInv, BufferInv, NoLineLeftBehind
<1>2. CASE Close("peer") /\ UNCHANGED <<buf, command>>
  BY <1>2, CloseIInv DEF IInv, TypeOK
<1> QED BY <1>1, <1>2 DEF TransferEnds

LEMMA NextIInv == IInv /\ [Next]_vars => IInv'
<1> SUFFICES ASSUME IInv, [Next]_vars PROVE IInv'
  OBVIOUS
<1>1. CASE UNCHANGED vars
  BY <1>1 DEF vars, IInv, TypeOK, BufferInv, Matches, NoLineLeftBehind
<1> QED BY <1>1, ReadIInv, ReadEndsIInv, LineIInv, LinesDoneIInv, TransferEndsIInv
        DEF Next, Closed

\* The strengthening is invariant.
THEOREM Invariance == Spec => []IInv
<1> QED BY InitIInv, NextIInv, PTL DEF Spec

\* offset and next stay inside of the buffer, whose last byte is left to the terminator.
THEOREM TypeCorrect == Spec => []TypeOK
<1> QED BY Invariance, PTL DEF IInv

\* strstr, strlen and strchr see, in the for loop, what has been received and not executed:
\* neither a terminator of an earlier line nor what an earlier use of the buffer left behind.
THEOREM StringsAreRest == Spec => []StringIsRest
<1>1. IInv => StringIsRest
  BY DEF IInv, BufferInv, IsString, StringIsRest
<1> QED BY <1>1, Invariance, PTL

\* All complete lines of a read are executed before the next read.  What a client sends
\* behind a transfer command is the exception: it waits for the client's next bytes.
THEOREM LinesAreExecuted == Spec => []NoLineLeftBehind
<1> QED BY Invariance, PTL DEF IInv, BufferInv

-----------------------------------------------------------------------------
(* The stream of lines                                                     *)

Status == IF state \in {"read", "resumed", "lines"} THEN "open"
          ELSE IF state = "transfer" THEN "busy" ELSE "closed"

Shown == [Lines!Next]_(Lines!vars)

\* Two parts with the same bytes.
LEMMA SegmentsEqual ==
  ASSUME NEW b, NEW c, NEW i, NEW j, NEW k, NEW l, l - k = j - i,
         \A m \in 1..j-i : b[i+m-1] = c[k+m-1]
  PROVE  Segment(b, i, j) = Segment(c, k, l)
BY DEF Segment

LEMMA RestIs == state # "closed" => Rest = Segment(buf, next, offset)
BY DEF Rest, Segment

\* What is pending is a sequence of the bytes that a client may send.
LEMMA RestSeq ==
  ASSUME IInv, state # "closed"
  PROVE  /\ Rest \in Seq(Chars \ {NUL}) /\ Len(Rest) = offset - next
         /\ next \in Nat /\ offset \in Nat /\ next <= offset /\ offset <= FTP_BUFFER_SIZE - 1
         /\ IsString(buf, next, offset)
<1>1. next \in Nat /\ offset \in Nat /\ offset <= FTP_BUFFER_SIZE - 1
  BY SizeAssumption DEF IInv, TypeOK, Indices
<1>2. next <= offset /\ IsString(buf, next, offset)
  BY <1>1 DEF IInv, TypeOK, BufferInv
<1>3. \A k \in next..offset-1 : buf[k] \in Chars \ {NUL}
  <2> TAKE k \in next..offset-1
  <2>1. k \in Indices
    BY <1>1, SizeAssumption DEF Indices
  <2> QED BY <1>2, <2>1 DEF IInv, TypeOK, IsString
<1>4. /\ Segment(buf, next, offset) \in Seq(Chars \ {NUL})
      /\ Len(Segment(buf, next, offset)) = offset - next
  <2> DEFINE S == Chars \ {NUL}
  <2>1. \A k \in next..offset-1 : buf[k] \in S
    BY <1>3
  <2> HIDE DEF S
  <2>2. next \in Nat /\ offset \in Nat /\ next <= offset
    BY <1>1, <1>2
  <2>3. Segment(buf, next, offset) \in Seq(S)
    BY <2>1, <2>2, SegmentSeq
  <2>4. Len(Segment(buf, next, offset)) = offset - next
    BY <2>2 DEF Segment
  <2> QED BY <2>3, <2>4 DEF S
<1> QED BY <1>1, <1>2, <1>4, RestIs

\* A line end of what is pending is one that strstr finds ...
LEMMA EndIsMatch ==
  ASSUME IInv, state # "closed", NEW e \in Lines!LineEnds(Rest)
  PROVE  next + e - 1 \in Matches(buf, next)
<1>1. /\ Len(Rest) = offset - next /\ next \in Nat /\ offset \in Nat /\ next <= offset
      /\ offset <= FTP_BUFFER_SIZE - 1 /\ IsString(buf, next, offset)
  BY RestSeq
<1>2. e \in 1..offset-next-1 /\ Rest[e] = CR /\ Rest[e+1] = LF
  BY <1>1 DEF Lines!LineEnds
<1>3. Rest[e] = buf[next+e-1] /\ Rest[e+1] = buf[(next+e-1)+1]
  <2>1. e \in 1..offset-next /\ e + 1 \in 1..offset-next /\ next+(e+1)-1 = (next+e-1)+1
    BY <1>1, <1>2
  <2> QED BY <2>1, RestIs DEF Segment
<1>4. next + e - 1 \in next..FTP_BUFFER_SIZE-2 /\ next + e - 1 <= offset - 1
  BY <1>1, <1>2, SizeAssumption
<1>5. \A k \in next..next+e-1 : buf[k] # NUL
  BY <1>1, <1>2 DEF IsString
<1> QED BY <1>2, <1>3, <1>4, <1>5 DEF Matches

\* ... and the first that it finds is the end of the first line.
LEMMA FirstMatchIsFirstLine ==
  ASSUME IInv, state = "lines", NEW end \in Matches(buf, next), IsFirstMatch(buf, next, end)
  PROVE  /\ end - next + 1 \in Lines!LineEnds(Rest)
         /\ Lines!IsFirstLine(Rest, end - next + 1)
         /\ SubSeq(Rest, 1, (end - next + 1) - 1) = Segment(buf, next, end)
         /\ SubSeq(Rest, (end - next + 1) + 2, Len(Rest)) = Segment(buf, end + 2, offset)
<1>1. /\ Len(Rest) = offset - next /\ next \in Nat /\ offset \in Nat /\ next <= offset
      /\ offset <= FTP_BUFFER_SIZE - 1 /\ Rest = Segment(buf, next, offset)
  BY RestSeq, RestIs
<1>2. end \in next..offset-2 /\ buf[end] = CR /\ buf[end+1] = LF /\ end \in Nat
  <2>1. end \in next..offset-2 /\ buf[end] = CR /\ buf[end+1] = LF
    BY MatchInside DEF IInv
  <2> QED BY <1>1, <2>1
<1> DEFINE i == end - next + 1
<1>3. i \in 1..Len(Rest)-1 /\ i \in Nat
  BY <1>1, <1>2
<1>4. Rest[i] = CR /\ Rest[i+1] = LF
  <2>1. i \in 1..offset-next /\ i + 1 \in 1..offset-next /\ next+i-1 = end /\ next+(i+1)-1 = end+1
    BY <1>1, <1>2
  <2> QED BY <1>1, <1>2, <2>1 DEF Segment
<1>5. i \in Lines!LineEnds(Rest)
  BY <1>3, <1>4 DEF Lines!LineEnds
<1>6. \A e \in Lines!LineEnds(Rest) : i <= e
  <2> TAKE e \in Lines!LineEnds(Rest)
  <2>1. next + e - 1 \in Matches(buf, next)
    BY EndIsMatch
  <2>2. end <= next + e - 1
    BY <2>1 DEF IsFirstMatch
  <2>3. e \in Int
    BY <1>1 DEF Lines!LineEnds
  <2> QED BY <1>1, <1>2, <2>2, <2>3
<1>7. SubSeq(Rest, 1, i - 1) = Segment(buf, next, end)
  <2>1. /\ i - 1 \in Nat /\ 1 \in Nat \ {0} /\ 1 - 1 <= i - 1 /\ i - 1 <= offset - next
        /\ next = next + 1 - 1 /\ end = next + (i - 1)
    BY <1>1, <1>2
  <2> HIDE DEF i
  <2>2. Part(Segment(buf, next, offset), 1, i - 1) = Segment(buf, next, end)
    BY <1>1, <2>1, SubSegment
  <2> QED BY <1>1, <2>2 DEF Part
<1>8. SubSeq(Rest, i + 2, Len(Rest)) = Segment(buf, end + 2, offset)
  <2>1. /\ i + 2 \in Nat \ {0} /\ (i + 2) - 1 <= offset - next /\ offset - next \in Nat
        /\ end + 2 = next + (i + 2) - 1 /\ offset = next + (offset - next)
    BY <1>1, <1>2
  <2> HIDE DEF i
  <2>2. Part(Segment(buf, next, offset), i + 2, offset - next) = Segment(buf, end + 2, offset)
    BY <1>1, <2>1, SubSegment
  <2> QED BY <1>1, <2>1, <2>2 DEF Part
<1> QED BY <1>5, <1>6, <1>7, <1>8 DEF Lines!IsFirstLine

\* Close shows as Close.
LEMMA CloseShown ==
  ASSUME NEW reason, Close(reason)
  PROVE  Status' = "closed" /\ Rest' = <<>> /\ why' = reason
BY DEF Close, Status, Rest

LEMMA ReadShown == ASSUME IInv, Read PROVE Shown
<1>1. PICK n \in 1..(FTP_BUFFER_SIZE - 1 - offset) : \E s \in [1..n -> Chars] :
        /\ buf' = Filled(s)
        /\ \/ offset' = offset + n /\ state' = "lines" /\ UNCHANGED <<next, why>>
           \/ Close("null")
  BY DEF Read
<1>2. PICK s \in [1..n -> Chars] :
        /\ buf' = Filled(s)
        /\ \/ offset' = offset + n /\ state' = "lines" /\ UNCHANGED <<next, why>>
           \/ Close("null")
  BY <1>1
<1>3. Reading /\ state # "closed" /\ UNCHANGED command /\ IInv' /\ Status = "open" /\ next = 0
  BY ReadIInv DEF Read, Reading, Status, IInv, BufferInv
<1>4. CASE Close("null")
  <2>1. Lines!Reject
    BY <1>3, <1>4, CloseShown DEF Lines!Reject, Lines!Close, Status
  <2> QED BY <2>1 DEF Shown, Lines!Next
<1>5. CASE offset' = offset + n /\ state' = "lines" /\ UNCHANGED <<next, why>>
  <2>1. /\ Rest \in Seq(Chars \ {NUL}) /\ Len(Rest) = offset /\ offset \in Nat
        /\ Rest = Segment(buf, 0, offset)
    BY <1>3, RestSeq, RestIs
  <2>2. /\ Rest' \in Seq(Chars \ {NUL}) /\ Len(Rest') = offset + n
        /\ Rest' = Segment(buf', 0, offset + n) /\ offset + n <= FTP_BUFFER_SIZE - 1
    <3>1. (state # "closed")'
      BY <1>5
    <3>2. (/\ Rest \in Seq(Chars \ {NUL}) /\ Len(Rest) = offset - next
           /\ offset <= FTP_BUFFER_SIZE - 1)'
      <4>1. IInv'
        BY <1>3
      <4> QED BY <3>1, <4>1, RestSeq, PTL
    <3>3. Rest' = Segment(buf', next', offset')
      BY <3>1 DEF Rest, Segment
    <3> QED BY <1>3, <1>5, <2>1, <3>2, <3>3
  <2>3. SubSeq(Rest', 1, Len(Rest)) = Rest
    <3>1. Part(Segment(buf', 0, offset + n), 1, offset) = Segment(buf', 0, offset)
      <4>1. offset + n \in Nat /\ offset <= offset + n /\ offset = 0 + offset
        BY <2>1
      <4> QED BY <2>1, <4>1, SubSegment
    <3>2. \A i \in 0..offset-1 : buf'[i] = buf[i]
      BY <1>2, FilledIs DEF IInv
    <3>3. \A m \in 1..offset-0 : buf'[0+m-1] = buf[0+m-1]
      BY <2>1, <3>2
    <3>4. Segment(buf', 0, offset) = Segment(buf, 0, offset)
      BY <3>3, SegmentsEqual
    <3> QED BY <2>1, <2>2, <3>1, <3>4 DEF Part
  <2>4. Len(Rest') \in Len(Rest)+1..FTP_BUFFER_SIZE-1
    BY <2>1, <2>2, SizeAssumption
  <2>5. Status' = "open"
    BY <1>5 DEF Status
  <2>6. Lines!Receive
    BY <1>3, <1>5, <2>2, <2>3, <2>4, <2>5 DEF Lines!Receive, Status
  <2> QED BY <2>6 DEF Shown, Lines!Next
<1> QED BY <1>2, <1>4, <1>5

LEMMA ReadFailsShown == ASSUME IInv, ReadFails PROVE Shown
<1>1. Lines!PeerCloses
  BY CloseShown DEF ReadFails, Reading, Lines!PeerCloses, Lines!Close, Status
<1> QED BY <1>1 DEF Shown, Lines!Next

\* The client is told that its line is too long when it is: the buffer is full, and
\* nothing in it ends a line.
LEMMA LineTooLongShown == ASSUME IInv, LineTooLong PROVE Shown
<1>1. state = "read" /\ offset >= FTP_BUFFER_SIZE - 1 /\ Close("toolong") /\ UNCHANGED command
  BY SizeAssumption DEF LineTooLong, Reading, IInv, TypeOK, BufferInv, Indices
<1>2. Len(Rest) = offset - next /\ next = 0 /\ offset \in Nat /\ offset <= FTP_BUFFER_SIZE - 1
  BY <1>1, RestSeq DEF IInv, BufferInv
<1>3. offset = FTP_BUFFER_SIZE - 1
  BY <1>1, <1>2, SizeAssumption
<1>4. Matches(buf, next) = {}
  BY <1>1, <1>2, <1>3 DEF IInv, BufferInv
<1>5. Lines!LineEnds(Rest) = {}
  BY <1>1, <1>4, EndIsMatch
<1>6. Status = "open"
  BY <1>1 DEF Status
<1>7. Lines!Reject
  BY <1>1, <1>2, <1>3, <1>5, <1>6, CloseShown DEF Lines!Reject, Lines!Close, Status
<1> QED BY <1>7 DEF Shown, Lines!Next

LEMMA TransferEndsShown == ASSUME IInv, TransferEnds PROVE Shown
<1>1. Lines!TransferEnds
  BY CloseShown DEF TransferEnds, Lines!TransferEnds, Lines!Close, Status, Rest
<1> QED BY <1>1 DEF Shown, Lines!Next

\* What MoveRest leaves is what was pending from n on.
LEMMA MovedRest ==
  ASSUME NEW b \in [Indices -> Chars], NEW n \in Nat, offset \in Indices, n <= offset,
         b[offset] = NUL, IsString(b, n, offset),
         NEW then \in {"read", "transfer"}, MoveRest(b, n, then)
  PROVE  Rest' = Segment(b, n, offset)
<1>1. /\ offset' = offset - n /\ next' = 0 /\ state' = then
      /\ \A i \in 0..offset'-1 : buf'[i] = b[n+i]
  BY Moved
<1>2. offset \in Nat /\ offset' - next' = offset - n
  BY <1>1, SizeAssumption DEF Indices
<1>3. ASSUME NEW m \in 1..offset-n PROVE buf'[next'+m-1] = b[n+m-1]
  <2>1. next'+m-1 = m-1 /\ m-1 \in 0..offset'-1 /\ n+(m-1) = n+m-1
    BY <1>1, <1>2
  <2>2. buf'[m-1] = b[n+(m-1)]
    BY <1>1, <2>1
  <2> QED BY <2>1, <2>2
<1>4. Rest' = [m \in 1..offset'-next' |-> buf'[next'+m-1]]
  BY <1>1 DEF Rest
<1> QED BY <1>2, <1>3, <1>4 DEF Segment

LEMMA LinesDoneShown == ASSUME IInv, LinesDone PROVE Shown
<1>1. /\ state = "lines" /\ MoveRest(buf, next, "read") /\ UNCHANGED <<command, why>>
  BY DEF LinesDone
<1>2. /\ next \in Nat /\ buf \in [Indices -> Chars] /\ offset \in Indices
      /\ next <= offset /\ buf[offset] = NUL /\ IsString(buf, next, offset)
  BY <1>1, SizeAssumption DEF IInv, TypeOK, BufferInv, Indices
<1>3. Rest' = Segment(buf, next, offset)
  BY <1>1, <1>2, MovedRest
<1>4. Rest' = Rest
  BY <1>1, <1>3, RestIs
<1>5. Status' = Status
  BY <1>1 DEF Status, MoveRest
<1> QED BY <1>1, <1>4, <1>5 DEF Shown, Lines!vars, Status

\* A turn of the for loop executes the first line, or refuses it.
LEMMA LineShown == ASSUME IInv, Line PROVE Shown
<1>1. PICK end \in Matches(buf, next) :
        LET line == [i \in 1..end-next |-> buf[next+i-1]]
            cut  == [buf EXCEPT ![end] = NUL]
        IN
        /\ IsFirstMatch(buf, next, end)
        /\ \/ /\ \E i \in DOMAIN line : line[i] = LF
              /\ Close("linefeed") /\ UNCHANGED command
           \/ /\ line = <<>>
              /\ buf' = cut /\ next' = end + 2 /\ UNCHANGED <<offset, state, why, command>>
           \/ /\ line # <<>> /\ \A i \in DOMAIN line : line[i] # LF
              /\ command' = line
              /\ GoOn(end) \/ Close("command")
  BY DEF Line
<1> DEFINE line == [i \in 1..end-next |-> buf[next+i-1]]
           cut  == [buf EXCEPT ![end] = NUL]
           e    == end - next + 1
<1>2. state = "lines" /\ Status = "open"
  BY DEF Line, Status
<1>3. /\ end \in next..offset-2 /\ end + 2 \in Nat /\ end + 2 <= offset /\ offset \in Indices
      /\ offset \in Nat /\ end - next \in Nat
  <2>1. next \in Nat /\ offset \in Nat /\ offset \in Indices
    BY SizeAssumption DEF IInv, TypeOK, Indices
  <2>2. end \in next..offset-2
    BY <1>2, MatchInside DEF IInv
  <2> QED BY <2>1, <2>2
<1>4. line = Segment(buf, next, end)
  BY DEF Segment
<1>5. /\ e \in Lines!LineEnds(Rest) /\ Lines!IsFirstLine(Rest, e)
      /\ SubSeq(Rest, 1, e - 1) = line
      /\ SubSeq(Rest, e + 2, Len(Rest)) = Segment(buf, end + 2, offset)
  <2> HIDE DEF line
  <2> QED BY <1>1, <1>2, <1>4, FirstMatchIsFirstLine
<1>6. Len(line) = end - next /\ DOMAIN line = 1..Len(line)
  BY <1>3
<1>7. Lines!HasBareLF(line) <=> \E i \in DOMAIN line : line[i] = LF
  BY <1>6 DEF Lines!HasBareLF
<1>8. /\ cut \in [Indices -> Chars] /\ cut[offset] = NUL /\ IsString(cut, end + 2, offset)
      /\ Segment(cut, end + 2, offset) = Segment(buf, end + 2, offset)
  <2>1. /\ cut \in [Indices -> Chars] /\ cut[offset] = NUL /\ IsString(cut, end + 2, offset)
        /\ \A k \in end+1..offset : cut[k] = buf[k]
    BY <1>2, CutKeeps DEF IInv
  <2>2. \A m \in 1..offset-(end+2) : (end+2)+m-1 \in end+1..offset
    BY <1>3
  <2>3. \A m \in 1..offset-(end+2) : cut[(end+2)+m-1] = buf[(end+2)+m-1]
    BY <2>1, <2>2
  <2> HIDE DEF cut
  <2> QED BY <2>1, <2>3 DEF Segment
<1>9. CASE /\ \E i \in DOMAIN line : line[i] = LF
           /\ Close("linefeed") /\ UNCHANGED command
  <2> HIDE DEF line, e
  <2>1. Lines!Reject
    BY <1>2, <1>5, <1>7, <1>9, CloseShown DEF Lines!Reject, Lines!Close, Status
  <2> QED BY <2>1 DEF Shown, Lines!Next
<1>10. CASE /\ line = <<>>
            /\ buf' = cut /\ next' = end + 2 /\ UNCHANGED <<offset, state, why, command>>
  <2>1. Rest' = Segment(buf, end + 2, offset) /\ Status' = "open"
    <3> HIDE DEF cut
    <3> QED BY <1>2, <1>8, <1>10 DEF Rest, Segment, Status
  <2>2. ~Lines!HasBareLF(line)
    BY <1>6, <1>7, <1>10
  <2> HIDE DEF line, e
  <2>3. Lines!Execute
    BY <1>2, <1>5, <1>10, <2>1, <2>2 DEF Lines!Execute, Status
  <2> QED BY <2>3 DEF Shown, Lines!Next
<1>11. CASE /\ line # <<>> /\ \A i \in DOMAIN line : line[i] # LF
            /\ command' = line
            /\ GoOn(end) \/ Close("command")
  <2>1. CASE Close("command")
    <3> HIDE DEF line, e
    <3>1. Lines!Execute
      BY <1>2, <1>5, <1>7, <1>11, <2>1, CloseShown DEF Lines!Execute, Lines!Close, Status
    <3> QED BY <3>1 DEF Shown, Lines!Next
  <2>2. CASE GoOn(end)
    <3>1. /\ \/ buf' = cut /\ next' = end + 2 /\ state' = "lines" /\ UNCHANGED offset
             \/ MoveRest(cut, end + 2, "transfer")
          /\ UNCHANGED why
      BY <2>2 DEF GoOn
    <3> HIDE DEF cut
    <3>2. Rest' = Segment(buf, end + 2, offset) /\ Status' \in {"open", "busy"}
      <4>1. CASE buf' = cut /\ next' = end + 2 /\ state' = "lines" /\ UNCHANGED offset
        BY <1>8, <4>1 DEF Rest, Segment, Status
      <4>2. CASE MoveRest(cut, end + 2, "transfer")
        <5>1. Rest' = Segment(cut, end + 2, offset)
          BY <1>3, <1>8, <4>2, MovedRest
        <5>2. Status' = "busy"
          BY <4>2 DEF MoveRest, Status
        <5> QED BY <1>8, <5>1, <5>2
      <4> QED BY <3>1, <4>1, <4>2
    <3> HIDE DEF line, e
    <3>3. Lines!Execute
      BY <1>2, <1>5, <1>7, <1>11, <3>1, <3>2 DEF Lines!Execute, Status
    <3> QED BY <3>3 DEF Shown, Lines!Next
  <2> QED BY <1>11, <2>1, <2>2
<1> QED BY <1>1, <1>9, <1>10, <1>11

LEMMA NextShown == IInv /\ [Next]_vars => Shown
<1> SUFFICES ASSUME IInv, [Next]_vars PROVE Shown
  OBVIOUS
<1>1. CASE UNCHANGED vars
  BY <1>1 DEF vars, Shown, Lines!vars, Rest
<1> QED BY <1>1, ReadShown, ReadFailsShown, LineTooLongShown, LineShown, LinesDoneShown,
        TransferEndsShown DEF Next, Closed

\* client->buf and the loops of process_control_events implement the stream of lines that
\* the control connection promises: each line once, in the order sent, none during a
\* transfer, and a connection closed only for a fault that a message of ftp.c names.
THEOREM Implementation == Spec => ImplementsLineStream
<1>1. Init => Lines!Init
  <2> SUFFICES ASSUME Init PROVE Lines!Init
    OBVIOUS
  <2>1. offset = 0 /\ next = 0 /\ state = "read" /\ command = <<>> /\ why = "none"
    BY DEF Init
  <2>2. Rest = <<>>
    BY <2>1 DEF Rest
  <2> QED BY <2>1, <2>2 DEF Lines!Init
<1>2. IInv /\ [Next]_vars => Shown
  BY NextShown
<1> QED BY <1>1, <1>2, Invariance, PTL DEF Spec, ImplementsLineStream, Lines!Spec, Shown

=============================================================================
