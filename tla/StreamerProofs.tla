----------------------------- MODULE StreamerProofs -----------------------------
(*****************************************************************************)
(* No wakeup of the log stream is lost, every variable has its type, and     *)
(* what is sent is what was written, for any number of followers, any        *)
(* payloads and any offsets.                                                 *)
(*****************************************************************************)
EXTENDS Streamer, InductionLemmas, TLAPS

\* What is needed of the types: the file is a sequence, and every follower has a
\* place and a position.
Types ==
    /\ content \in Seq(STRING)
    /\ pc \in [Followers -> Places]
    /\ pos \in [Followers -> Int]

\* WaitsOnlyForMore is inductive together with the types.
IInv == Types /\ WaitsOnlyForMore

\* The writer: after a Broadcast nobody waits, so content and stop may change.
LEMMA WriterInvariant ==
    ASSUME IInv,
           \/ \E p \in Payloads : Write(p)
           \/ Stop \/ CloseFile \/ RemoveDir
    PROVE  IInv'
<1> USE DEF IInv, Types, WaitsOnlyForMore
<1>1. ASSUME NEW p \in Payloads, Write(p) PROVE IInv'
  <2>1. content' \in Seq(STRING)
    BY <1>1, StreamerAssumption DEF Write
  <2>2. /\ pc' \in [Followers -> Places]
        /\ \A f \in Followers : pc'[f] # "waiting"
    BY <1>1 DEF Write, Broadcast, Places, Returned
  <2>3. UNCHANGED pos
    BY <1>1 DEF Write, scanVars
  <2> QED
    BY <2>1, <2>2, <2>3
<1>2. CASE Stop
  <2>1. /\ pc' \in [Followers -> Places]
        /\ \A f \in Followers : pc'[f] # "waiting"
    BY <1>2 DEF Stop, Broadcast, Places, Returned
  <2> QED
    BY <1>2, <2>1 DEF Stop, scanVars
<1>3. CASE CloseFile
  BY <1>3 DEF CloseFile, scanVars
<1>4. CASE RemoveDir
  BY <1>4 DEF RemoveDir, scanVars
<1> QED
  BY <1>1, <1>2, <1>3, <1>4

\* A follower begins to wait in Read only, under the lock that Write and Stop
\* take, when there is nothing to read and the stream goes on.
LEMMA ReadInvariant ==
    ASSUME IInv, NEW f \in Followers, Read(f)
    PROVE  IInv'
<1> USE DEF IInv, Types, WaitsOnlyForMore
<1>1. UNCHANGED <<content, stop>>
  BY DEF Read, streamVars
<1>2. pos' \in [Followers -> Int] /\ \A g \in Followers \ {f} : pos'[g] = pos[g]
  <2>1. CASE UNCHANGED pos
    BY <2>1
  <2>2. CASE \E n \in 1..(MaxToken - Len(buf[f])) :
                pos' = [pos EXCEPT ![f] = @ + n]
    BY <2>2
  <2> QED
    BY <2>1, <2>2 DEF Read
<1>3. /\ pc' \in [Followers -> Places]
      /\ \A g \in Followers \ {f} : pc'[g] = pc[g]
  BY DEF Read, Goto, Places, Returned
<1>4. pc'[f] = "waiting" => ~stop /\ pos'[f] >= Len(content)
  <2>1. Len(content) \in Nat /\ pos[f] \in Int
    OBVIOUS
  <2> QED
    BY <2>1 DEF Read, Goto, Available, Places, Returned
<1> QED
  BY <1>1, <1>2, <1>3, <1>4

\* Every other step of a follower, and its caller, leave those who wait alone.
LEMMA FollowerInvariant ==
    ASSUME IInv, NEW f \in Followers,
           \/ \E o \in Offsets : Open(f, o)
           \/ CancelContext(f) \/ Scan(f) \/ Check(f)
           \/ SendData(f) \/ SendNewline(f)
    PROVE  IInv'
<1> USE DEF IInv, Types, WaitsOnlyForMore
<1>1. ASSUME NEW o \in Offsets, Open(f, o) PROVE IInv'
  <2>1. o \in Int
    BY StreamerAssumption
  <2> QED
    BY <1>1, <2>1 DEF Open, Goto, streamVars, Places, Returned
<1>2. CASE CancelContext(f)
  BY <1>2 DEF CancelContext, streamVars, scanVars
<1>3. CASE Scan(f)
  <2>1. UNCHANGED <<content, stop, pos>>
    BY <1>3 DEF Scan, streamVars
  <2>2. \E to \in Places \ {"waiting"} : Goto(f, to)
    BY <1>3 DEF Scan, Places, Returned
  <2> QED
    BY <2>1, <2>2 DEF Goto
<1>4. CASE Check(f)
  BY <1>4 DEF Check, Goto, streamVars, scanVars, Places, Returned
<1>5. CASE SendData(f)
  BY <1>5 DEF SendData, Goto, streamVars, scanVars, Places, Returned
<1>6. CASE SendNewline(f)
  BY <1>6 DEF SendNewline, Goto, streamVars, scanVars, Places, Returned
<1> QED
  BY <1>1, <1>2, <1>3, <1>4, <1>5, <1>6

\* No wakeup is lost (file.go): whatever the followers, the writes and the reads,
\* a follower in cond.Wait has read everything, and the stream is not stopped.
THEOREM StreamerNoLostWakeup == Spec => []WaitsOnlyForMore
<1>1. Init => IInv
  BY DEF Init, IInv, Types, WaitsOnlyForMore, Places, Returned
<1>2. IInv /\ [Next]_vars => IInv'
  <2> SUFFICES ASSUME IInv, [Next]_vars PROVE IInv'
    OBVIOUS
  <2>1. CASE UNCHANGED vars
    BY <2>1 DEF IInv, Types, WaitsOnlyForMore, vars, streamVars, scanVars
  <2>2. CASE Next
    BY <2>2, WriterInvariant, ReadInvariant, FollowerInvariant
       DEF Next, FollowStep
  <2> QED
    BY <2>1, <2>2
<1>3. IInv => WaitsOnlyForMore
  BY DEF IInv
<1> QED
  BY <1>1, <1>2, <1>3, PTL DEF Spec

-------------------------------------------------------------------------------
(*****************************************************************************)
(* Types                                                                     *)
(*****************************************************************************)

\* The first line of s ends at the first newline.
LEMMA LineFacts ==
    ASSUME NEW s \in Seq(Bytes), Contains(s, NL)
    PROVE  /\ EndOfLine(s) \in 1..Len(s) /\ s[EndOfLine(s)] = NL
           /\ \A i \in 1..EndOfLine(s) - 1 : s[i] # NL
  <1> DEFINE I == { i \in 1..Len(s) : s[i] = NL }
  <1>1. I # {} /\ I \subseteq Nat
    BY DEF Contains
  <1>2. EndOfLine(s) = Min(I)
    BY <1>1 DEF EndOfLine, SelectInSeq
  <1>3. Min(I) \in I /\ \A i \in I : Min(I) <= i
    <2> HIDE DEF I
    <2>1. \E x \in I : \A y \in I : x <= y
      BY <1>1, Smallest
    <2>2. QED
      BY <2>1 DEF Min
  <1>4. /\ EndOfLine(s) \in 1..Len(s) /\ s[EndOfLine(s)] = NL
        /\ \A i \in 1..Len(s) : s[i] = NL => EndOfLine(s) <= i
    BY <1>2, <1>3
  <1>5. Len(s) \in Nat
    OBVIOUS
  <1>6. ASSUME NEW i \in 1..EndOfLine(s) - 1 PROVE s[i] # NL
    <2>1. i \in 1..Len(s) /\ ~(EndOfLine(s) <= i)
      BY <1>4, <1>5
    <2>2. QED
      BY <1>4, <2>1
  <1>7. QED
    BY <1>4, <1>6

\* A sequence whose elements are in S.
LEMMA InSeq ==
    ASSUME NEW S, NEW n \in Nat, NEW s, s = [i \in 1..n |-> s[i]], \A i \in 1..n : s[i] \in S
    PROVE  s \in Seq(S) /\ Len(s) = n
  <1>1. s \in [1..n -> S]
    OBVIOUS
  <1>2. QED
    BY <1>1

\* What is written consists of bytes.
LEMMA PayloadsAreBytes ==
    ASSUME NEW p \in Payloads PROVE p \in Seq(Bytes)
  <1>1. p \in Seq(STRING)
    BY StreamerAssumption
  <1>2. Len(p) \in Nat /\ p = [i \in 1..Len(p) |-> p[i]] /\ DOMAIN p = 1..Len(p)
    BY <1>1
  <1>3. \A i \in 1..Len(p) : p[i] \in Bytes
    BY <1>2 DEF Bytes, ToSet
  <1>4. QED
    BY <1>2, <1>3, InSeq

\* A line has no newline, with or without its carriage return.
LEMMA LinesAreBytes ==
    ASSUME NEW s \in Seq(Bytes), NEW n \in 0..Len(s), \A i \in 1..n : s[i] # NL
    PROVE  DropCR(SubSeq(s, 1, n)) \in Seq(Bytes \ {NL})
  <1> DEFINE l == SubSeq(s, 1, n)
  <1>1. Len(l) = n /\ l = [i \in 1..n |-> l[i]] /\ \A i \in 1..n : l[i] \in Bytes \ {NL}
    <2>1. n \in Nat /\ l \in Seq(Bytes) /\ Len(l) = n /\ \A i \in 1..n : l[i] = s[i]
      OBVIOUS
    <2>2. QED
      BY <2>1
  <1> HIDE DEF l
  <1>2. l \in Seq(Bytes \ {NL})
    BY <1>1, InSeq
  <1>3. Front(l) \in Seq(Bytes \ {NL}) \/ l = <<>>
    BY <1>2 DEF Front
  <1>4. QED
    BY <1>2, <1>3 DEF DropCR, l

\* TypeOK, and each follower has a buffer, a line and something sent.
Buffers ==
    /\ buf = [f \in Followers |-> buf[f]] /\ token = [f \in Followers |-> token[f]]
    /\ sent = [f \in Followers |-> sent[f]]
StreamTypes == TypeOK /\ Buffers

\* Writing, stopping and removing keep the types.
LEMMA WriterTypes ==
    ASSUME StreamTypes,
           \/ \E p \in Payloads : Write(p)
           \/ Stop \/ CloseFile \/ RemoveDir
    PROVE  StreamTypes'
  <1>1. Buffers' /\ UNCHANGED <<offset, ctxDone, pos, buf, scanErr, token, sent>>
    BY DEF Write, Stop, CloseFile, RemoveDir, scanVars, StreamTypes, Buffers
  <1>2. content' \in Seq(Bytes)
    <2>1. content' = content \/ \E p \in Seq(Bytes) : content' = content \o p
      BY PayloadsAreBytes DEF Write, Stop, CloseFile, RemoveDir
    <2>2. content \in Seq(Bytes)
      BY DEF StreamTypes, TypeOK
    <2>3. \A p \in Seq(Bytes) : content \o p \in Seq(Bytes)
      BY <2>2
    <2>4. QED
      BY <2>1, <2>2, <2>3
  <1>3. pc' \in [Followers -> Places]
    BY DEF Write, Stop, CloseFile, RemoveDir, Broadcast, StreamTypes, TypeOK, Places, Returned
  <1>4. dir' \in BOOLEAN /\ stop' \in BOOLEAN /\ file' \in {"open", "closed"}
    BY DEF Write, Stop, CloseFile, RemoveDir, StreamTypes, TypeOK
  <1>5. QED
    BY <1>1, <1>2, <1>3, <1>4 DEF StreamTypes, TypeOK

\* A sequence with another one after it.
LEMMA ConcatFacts ==
    ASSUME NEW S, NEW s \in Seq(S), NEW t \in Seq(S)
    PROVE  s \o t \in Seq(S) /\ Len(s \o t) = Len(s) + Len(t)
  OBVIOUS

\* The part of the file that a read returns lies within it.
LEMMA RangeFacts ==
    ASSUME NEW p \in Nat, NEW n \in Nat \ {0}, NEW l \in Nat, p + n <= l
    PROVE  p + 1 \in 1..l + 1 /\ p + n \in p..l
  OBVIOUS

\* A read fits into the buffer.
LEMMA ReadTypes ==
    ASSUME StreamTypes, NEW f \in Followers, Read(f)
    PROVE  StreamTypes'
  <1>1. /\ UNCHANGED <<content, dir, stop, file, offset, ctxDone, token, sent>>
        /\ \E to \in Places : Goto(f, to)
        /\ \E e \in {"ctx", "EOF", "read"} : scanErr' = scanErr \/ scanErr' = [scanErr EXCEPT ![f] = e]
    BY DEF Read, streamVars, Places, Returned
  <1>2. pc' \in [Followers -> Places] /\ scanErr' \in [Followers -> {"none", "EOF", "ctx", "read"}]
    BY <1>1 DEF Goto, StreamTypes, TypeOK
  <1>3. CASE UNCHANGED <<pos, buf>>
    BY <1>1, <1>2, <1>3 DEF StreamTypes, TypeOK, Buffers
  <1>4. ASSUME NEW n \in 1..(MaxToken - Len(buf[f])), pos[f] + n <= Len(content),
               buf' = [buf EXCEPT ![f] = @ \o SubSeq(content, pos[f] + 1, pos[f] + n)],
               pos' = [pos EXCEPT ![f] = @ + n]
        PROVE  StreamTypes'
    <2> DEFINE part == SubSeq(content, pos[f] + 1, pos[f] + n)
    <2>1. /\ content \in Seq(Bytes) /\ buf[f] \in Seq(Bytes) /\ pos[f] \in Nat
          /\ Len(buf[f]) <= MaxToken
      BY DEF StreamTypes, TypeOK
    <2>2. Len(buf[f]) \in Nat /\ MaxToken \in Nat /\ n \in Nat \ {0} /\ Len(content) \in Nat
      BY <2>1, StreamerAssumption
    <2>3. part \in Seq(Bytes) /\ Len(part) = n
      <3>1. pos[f] + 1 \in 1..Len(content) + 1 /\ pos[f] + n \in pos[f]..Len(content)
        BY <1>4, <2>1, <2>2, RangeFacts
      <3>2. QED
        BY <2>1, <2>2, <3>1
    <2> HIDE DEF part
    <2>4. buf[f] \o part \in Seq(Bytes) /\ Len(buf[f] \o part) = Len(buf[f]) + n
      <3>1. buf[f] \o part \in Seq(Bytes) /\ Len(buf[f] \o part) = Len(buf[f]) + Len(part)
        BY <2>1, <2>3, ConcatFacts, Zenon
      <3>2. QED
        BY <2>3, <3>1
    <2>5. buf'[f] = buf[f] \o part /\ \A g \in Followers \ {f} : buf'[g] = buf[g]
      BY <1>4 DEF part, StreamTypes, Buffers
    <2>6. Buffers'
      BY <1>1, <1>4 DEF StreamTypes, Buffers
    <2>7. \A g \in Followers : buf'[g] \in Seq(Bytes) /\ Len(buf'[g]) <= MaxToken
      <3>1. Len(buf[f]) + n <= MaxToken
        BY <1>4, <2>2
      <3>2. buf'[f] \in Seq(Bytes) /\ Len(buf'[f]) <= MaxToken
        BY <2>4, <2>5, <3>1
      <3>3. \A g \in Followers \ {f} : buf'[g] \in Seq(Bytes) /\ Len(buf'[g]) <= MaxToken
        BY <2>5 DEF StreamTypes, TypeOK
      <3>4. QED
        BY <3>2, <3>3
    <2>8. pos' \in [Followers -> Nat]
      BY <1>4, <2>1, <2>2 DEF StreamTypes, TypeOK
    <2>9. QED
      BY <1>1, <1>2, <2>6, <2>7, <2>8 DEF StreamTypes, TypeOK
  <1>5. QED
    BY <1>3, <1>4 DEF Read

\* The scanner takes a line out of the buffer.
LEMMA ScanTypes ==
    ASSUME StreamTypes, NEW f \in Followers, Scan(f)
    PROVE  StreamTypes'
  <1> DEFINE s == buf[f]
  <1>1. /\ UNCHANGED <<content, dir, stop, file, offset, ctxDone, pos, scanErr, sent>>
        /\ \E to \in Places : Goto(f, to)
    BY DEF Scan, streamVars, Places, Returned
  <1>2. pc' \in [Followers -> Places]
    BY <1>1 DEF Goto, StreamTypes, TypeOK
  <1>3. s \in Seq(Bytes) /\ Len(s) \in Nat /\ Len(s) <= MaxToken /\ MaxToken \in Nat
    BY StreamerAssumption DEF StreamTypes, TypeOK
  <1>4. CASE UNCHANGED <<token, buf>>
    BY <1>1, <1>2, <1>4 DEF StreamTypes, TypeOK, Buffers
  <1>5. ASSUME NEW line \in Seq(Bytes \ {NL}), NEW rest \in Seq(Bytes), Len(rest) <= MaxToken,
               token' = [token EXCEPT ![f] = line], buf' = [buf EXCEPT ![f] = rest]
        PROVE  StreamTypes'
    <2>1. /\ token'[f] = line /\ buf'[f] = rest
          /\ \A g \in Followers \ {f} : token'[g] = token[g] /\ buf'[g] = buf[g]
          /\ Buffers'
      BY <1>1, <1>5 DEF StreamTypes, Buffers
    <2>2. QED
      BY <1>1, <1>2, <1>5, <2>1 DEF StreamTypes, TypeOK
  <1>6. CASE /\ Contains(s, NL)
             /\ token' = [token EXCEPT ![f] = DropCR(FirstLine(s))]
             /\ buf' = [buf EXCEPT ![f] = SubSeq(s, EndOfLine(s) + 1, Len(s))]
    <2>1. EndOfLine(s) \in 1..Len(s) /\ \A i \in 1..EndOfLine(s) - 1 : s[i] # NL
      BY <1>3, <1>6, LineFacts
    <2>2. DropCR(FirstLine(s)) \in Seq(Bytes \ {NL})
      <3>1. EndOfLine(s) - 1 \in 0..Len(s)
        BY <1>3, <2>1
      <3> HIDE DEF s
      <3>2. QED
        BY <1>3, <2>1, <3>1, LinesAreBytes DEF FirstLine
    <2>3. /\ SubSeq(s, EndOfLine(s) + 1, Len(s)) \in Seq(Bytes)
          /\ Len(SubSeq(s, EndOfLine(s) + 1, Len(s))) <= MaxToken
      BY <1>3, <2>1
    <2>4. QED
      BY <1>5, <1>6, <2>2, <2>3
  <1>7. CASE /\ ~Contains(s, NL)
             /\ token' = [token EXCEPT ![f] = DropCR(s)]
             /\ buf' = [buf EXCEPT ![f] = <<>>]
    <2>1. \A i \in 1..Len(s) : s[i] # NL
      BY <1>7 DEF Contains
    <2>2. SubSeq(s, 1, Len(s)) = s /\ Len(s) \in 0..Len(s)
      BY <1>3
    <2> HIDE DEF s
    <2>3. DropCR(s) \in Seq(Bytes \ {NL})
      <3>1. DropCR(SubSeq(s, 1, Len(s))) \in Seq(Bytes \ {NL})
        BY <1>3, <2>1, <2>2, LinesAreBytes
      <3>2. QED
        BY <2>2, <3>1
    <2>4. <<>> \in Seq(Bytes) /\ Len(<<>>) <= MaxToken
      BY <1>3
    <2>5. QED
      BY <1>5, <1>7, <2>3, <2>4 DEF s
  <1>8. QED
    BY <1>4, <1>6, <1>7 DEF Scan

\* The steps of a follower other than reads and scans keep the types.
LEMMA FollowerTypes ==
    ASSUME StreamTypes, NEW f \in Followers,
           \/ \E o \in Offsets : Open(f, o)
           \/ CancelContext(f) \/ Check(f) \/ SendData(f) \/ SendNewline(f)
    PROVE  StreamTypes'
  <1>1. /\ UNCHANGED <<content, dir, stop, file, buf, token, scanErr>>
        /\ UNCHANGED pc \/ \E to \in Places : Goto(f, to)
    BY DEF Open, CancelContext, Check, SendData, SendNewline, streamVars, scanVars, Places, Returned
  <1>2. pc' \in [Followers -> Places]
    BY <1>1 DEF Goto, StreamTypes, TypeOK
  <1>3. /\ offset' \in [Followers -> Offsets \cup {0}] /\ ctxDone' \in [Followers -> BOOLEAN]
        /\ pos' \in [Followers -> Nat]
    <2>1. /\ offset \in [Followers -> Offsets \cup {0}] /\ ctxDone \in [Followers -> BOOLEAN]
          /\ pos \in [Followers -> Nat]
      BY DEF StreamTypes, TypeOK
    <2>2. ASSUME NEW o \in Offsets, Open(f, o)
          PROVE  /\ offset' = [offset EXCEPT ![f] = o] /\ UNCHANGED ctxDone
                 /\ UNCHANGED pos \/ \E n \in Nat : pos' = [pos EXCEPT ![f] = n]
      BY <2>2, StreamerAssumption DEF Open
    <2>3. CASE CancelContext(f)
      BY <2>1, <2>3 DEF CancelContext, scanVars
    <2>4. CASE Check(f) \/ SendData(f) \/ SendNewline(f)
      BY <2>1, <2>4 DEF Check, SendData, SendNewline, scanVars
    <2>5. QED
      BY <2>1, <2>2, <2>3, <2>4
  <1>4. \/ UNCHANGED sent
        \/ \E more \in Seq(Bytes) : sent' = [sent EXCEPT ![f] = @ \o more]
        \/ sent' = [sent EXCEPT ![f] = Append(@, NL)]
    <2>1. token[f] \in Seq(Bytes)
      <3>1. token[f] \in Seq(Bytes \ {NL})
        BY DEF StreamTypes, TypeOK
      <3>2. QED
        BY <3>1
    <2>2. QED
      BY <2>1 DEF Open, CancelContext, Check, SendData, SendNewline
  <1>5. sent' = [g \in Followers |-> sent'[g]] /\ \A g \in Followers : sent'[g] \in Seq(Bytes)
    <2>1. NL \in Bytes
      BY DEF Bytes
    <2>2. sent = [g \in Followers |-> sent[g]] /\ \A g \in Followers : sent[g] \in Seq(Bytes)
      BY DEF StreamTypes, TypeOK, Buffers
    <2>3. UNCHANGED sent \/ \E new \in Seq(Bytes) : sent' = [sent EXCEPT ![f] = new]
      <3>1. Append(sent[f], NL) \in Seq(Bytes) /\ \A m \in Seq(Bytes) : sent[f] \o m \in Seq(Bytes)
        BY <2>1, <2>2
      <3>2. QED
        BY <1>4, <3>1
    <2>4. QED
      BY <2>2, <2>3
  <1>6. QED
    BY <1>1, <1>2, <1>3, <1>5 DEF StreamTypes, TypeOK, Buffers

\* At first nothing is written.
LEMMA TypesInitially == Init => StreamTypes
  <1>1. <<>> \in Seq(Bytes) /\ <<>> \in Seq(Bytes \ {NL}) /\ Len(<<>>) <= MaxToken
    BY StreamerAssumption
  <1> SUFFICES ASSUME Init PROVE StreamTypes
    OBVIOUS
  <1>2. Buffers
    BY DEF Init, Buffers
  <1>3. \A f \in Followers : buf[f] = <<>> /\ token[f] = <<>> /\ sent[f] = <<>>
    BY DEF Init
  <1>4. /\ pc \in [Followers -> Places] /\ offset \in [Followers -> Offsets \cup {0}]
        /\ ctxDone \in [Followers -> BOOLEAN] /\ pos \in [Followers -> Nat]
        /\ scanErr \in [Followers -> {"none", "EOF", "ctx", "read"}]
        /\ content \in Seq(Bytes) /\ dir \in BOOLEAN /\ stop \in BOOLEAN /\ file \in {"open", "closed"}
    BY <1>1 DEF Init, Places, Returned
  <1> QED
    BY <1>1, <1>2, <1>3, <1>4 DEF StreamTypes, TypeOK

\* Every variable of the stream has its type, whatever is written and however it is
\* read: the buffer of a scanner is never larger than MaxToken, and a line that is sent
\* holds no newline (file.go, bufio.Scanner).
THEOREM StreamerTypeOK == Spec => []TypeOK
<1>1. Init => StreamTypes
  BY TypesInitially
<1>2. StreamTypes /\ [Next]_vars => StreamTypes'
  <2> SUFFICES ASSUME StreamTypes, [Next]_vars PROVE StreamTypes'
    OBVIOUS
  <2>1. CASE UNCHANGED vars
    BY <2>1 DEF StreamTypes, TypeOK, Buffers, vars, streamVars, scanVars
  <2>2. CASE Next
    BY <2>2, WriterTypes, ReadTypes, ScanTypes, FollowerTypes DEF Next, FollowStep
  <2> QED
    BY <2>1, <2>2
<1>3. StreamTypes => TypeOK
  BY DEF StreamTypes
<1> QED
  BY <1>1, <1>2, <1>3, PTL DEF Spec

-------------------------------------------------------------------------------
(*****************************************************************************)
(* What is sent is what was written.  Of the bytes w that a follower wants,  *)
(* it has split n into lines, and holds the next ones, b, in its buffer.     *)
(*****************************************************************************)

\* The bytes that follower f has split into lines.
Taken(f) == pos[f] - Len(buf[f]) - offset[f]

\* The errors of the reader after which the rest of the buffer is a line of its own.
Final == {"EOF", "read"}

\* No bytes follow those that a follower answers for.
Over(f) == IF scanErr[f] = "read" THEN TRUE ELSE stop

\* The buffer holds the bytes after the first n of w, and the reader has only reported
\* the end, e, when no bytes follow, with the last of the bytes in the buffer.
Position(w, n, b, e, stopped) ==
    /\ n \in Nat
    /\ n + Len(b) <= Len(w)
    /\ \A i \in 1..Len(b) : b[i] = w[n + i]
    /\ e \in Final => stopped /\ n + Len(b) = Len(w)

\* all is what the first n bytes of w, which end a line, should have sent; or what all of
\* them should, when the reader has ended.
Due(w, n, b, e, all) ==
    \/ Split(w)[n].line = <<>> /\ all = Split(w)[n].out
    \/ e \in Final /\ b = <<>> /\ all = Render(w)

\* What a follower is about to send before it looks for another line.
Owed(place, line) ==
    IF place = "newline" THEN <<NL>>
    ELSE IF place = "data" \/ (place = "check" /\ line # <<>>) THEN Append(line, NL)
    ELSE <<>>

\* What is sent stays right: it only has bytes of lines that have ended, or the stream,
\* which is not written to any more, has.
Safe(w, stopped, s) ==
    \/ IsPrefix(s, Split(w)[Len(w)].out)
    \/ stopped /\ IsPrefix(s, Render(w))

\* A follower at a place, with offset o, error e, line t to send, and s sent.
PlaceOK(w, n, place, o, done, b, e, t, s, stopped) ==
    /\ Safe(w, stopped, s)
    /\ place = "call" => s = <<>> /\ b = <<>> /\ e = "none"
    /\ place = "ok" => e = "EOF" /\ b = <<>>
    /\ place \in {"read", "waiting"} => e = "none"
    /\ place \notin {"call", "failed"} =>
        /\ o \in Nat
        /\ Position(w, n, b, e, stopped)
        /\ e = "ctx" => done
        /\ \/ place = "check" /\ e = "ctx"
           \/ Due(w, n, b, e, s \o Owed(place, t))

FollowerOK(f) ==
    PlaceOK(Seen(f), Taken(f), pc[f], offset[f], ctxDone[f], buf[f], scanErr[f], token[f],
            sent[f], Over(f))

\* The inductive invariant of SendsInOrder and CompleteOnSuccess.
FollowersOK == \A f \in Followers : FollowerOK(f)

Splits == [out : Seq(Bytes), line : Seq(Bytes)]

\* One step of Split.
Next1(x, b) ==
    IF b = NL THEN [out |-> x.out \o LineSent(x.line), line |-> <<>>]
              ELSE [out |-> x.out, line |-> Append(x.line, b)]

\* What is sent of a line are bytes.
LEMMA LineSentBytes ==
    ASSUME NEW l \in Seq(Bytes)
    PROVE  DropCR(l) \in Seq(Bytes) /\ LineSent(l) \in Seq(Bytes)
  <1>1. NL \in Bytes
    BY DEF Bytes
  <1>2. l = <<>> \/ Front(l) \in Seq(Bytes)
    BY DEF Front
  <1>3. DropCR(l) \in Seq(Bytes)
    BY <1>2 DEF DropCR
  <1>4. QED
    BY <1>1, <1>3 DEF LineSent

\* A step of Split from bytes to bytes.
LEMMA Next1Bytes ==
    ASSUME NEW x \in Splits, NEW b \in Bytes
    PROVE  Next1(x, b) \in Splits
  <1>1. x.out \in Seq(Bytes) /\ x.line \in Seq(Bytes) /\ LineSent(x.line) \in Seq(Bytes)
    BY LineSentBytes DEF Splits
  <1>2. x.out \o LineSent(x.line) \in Seq(Bytes) /\ Append(x.line, b) \in Seq(Bytes)
        /\ <<>> \in Seq(Bytes)
    BY <1>1
  <1>3. QED
    BY <1>1, <1>2 DEF Next1, Splits

\* Split is what its definition says.
LEMMA SplitFacts ==
    ASSUME NEW s \in Seq(Bytes)
    PROVE  /\ \A n \in 0..Len(s) : Split(s)[n] \in Splits
           /\ Split(s)[0] = [out |-> <<>>, line |-> <<>>]
           /\ \A n \in 0..Len(s) - 1 : Split(s)[n + 1] = Next1(Split(s)[n], s[n + 1])
  <1> DEFINE base == [out |-> <<>>, line |-> <<>>]
             step == [y \in Nat \X Splits |->
                        IF y[1] + 1 \in 1..Len(s) THEN Next1(y[2], s[y[1] + 1]) ELSE y[2]]
             P(f) == f = [n \in 0..Len(s) |-> IF n = 0 THEN base ELSE Next1(f[n - 1], s[n])]
  <1>1. base \in Splits
    BY DEF Splits
  <1>2. /\ \A n \in Nat, x \in Splits : step[<<n, x>>] \in Splits
        /\ \A n \in 0..Len(s) - 1, x \in Splits : step[<<n, x>>] = Next1(x, s[n + 1])
    <2>1. \A n \in Nat, x \in Splits : step[<<n, x>>] =
               IF n + 1 \in 1..Len(s) THEN Next1(x, s[n + 1]) ELSE x
      BY Zenon
    <2>2. \A i \in 1..Len(s) : s[i] \in Bytes
      OBVIOUS
    <2>3. \A n \in 0..Len(s) - 1 : n \in Nat /\ n + 1 \in 1..Len(s)
      OBVIOUS
    <2> HIDE DEF step
    <2>4. QED
      BY <2>1, <2>2, <2>3, Next1Bytes
  <1> HIDE DEF step
  <1>3. PICK g : Recursive(g, Splits, base, step)
    <2> HIDE DEF base
    <2>1. \A n \in Nat, x \in Splits : step[<<n, x>>] \in Splits
      BY <1>2
    <2>2. QED
      BY <1>1, <2>1, Recursion
  <1> DEFINE h == [n \in 0..Len(s) |-> g[n]]
  <1>4. P(h)
    <2> SUFFICES ASSUME NEW n \in 0..Len(s)
                 PROVE  h[n] = IF n = 0 THEN base ELSE Next1(h[n - 1], s[n])
      BY Zenon
    <2>1. CASE n = 0
      BY <1>3, <2>1 DEF Recursive
    <2>2. CASE n # 0
      <3>1. n - 1 \in Nat /\ n - 1 \in 0..Len(s) - 1 /\ n - 1 \in 0..Len(s) /\ n - 1 + 1 = n
        BY <2>2
      <3>2. h[n] = g[n] /\ h[n - 1] = g[n - 1] /\ g[n - 1] \in Splits
        BY <1>3, <3>1 DEF Recursive
      <3>3. g[n] = step[<<n - 1, g[n - 1]>>]
        BY <1>3, <3>1 DEF Recursive
      <3>4. step[<<n - 1, g[n - 1]>>] = Next1(g[n - 1], s[n])
        BY <1>2, <3>1, <3>2
      <3>5. QED
        BY <2>2, <3>2, <3>3, <3>4
    <2>3. QED
      BY <2>1, <2>2
  <1>5. Split(s) = CHOOSE f : P(f)
    BY DEF Split, Next1
  <1> HIDE DEF P, h
  <1>6. P(Split(s))
    BY <1>4, <1>5
  <1> DEFINE S == Split(s)
  <1>7. /\ S[0] = base
        /\ \A n \in 0..Len(s) - 1 : S[n + 1] = Next1(S[n], s[n + 1])
    <2> HIDE DEF base
    <2>1. S = [n \in 0..Len(s) |-> IF n = 0 THEN base ELSE Next1(S[n - 1], s[n])]
      BY <1>6 DEF P
    <2> HIDE DEF S
    <2>2. 0 \in 0..Len(s)
          /\ \A n \in 0..Len(s) - 1 : n + 1 \in 0..Len(s) /\ n + 1 # 0 /\ n + 1 - 1 = n
      OBVIOUS
    <2>3. \A n \in 0..Len(s) : S[n] = IF n = 0 THEN base ELSE Next1(S[n - 1], s[n])
      BY <2>1
    <2>4. S[0] = base
      BY <2>2, <2>3
    <2>5. ASSUME NEW n \in 0..Len(s) - 1 PROVE S[n + 1] = Next1(S[n], s[n + 1])
      BY <2>2, <2>3
    <2>6. QED
      BY <2>4, <2>5
  <1>8. \A n \in 0..Len(s) : S[n] \in Splits
    <2> HIDE DEF S
    <2> DEFINE T == { n \in Nat : n <= Len(s) => S[n] \in Splits }
    <2>1. 0 \in T
      BY <1>1, <1>7
    <2>2. ASSUME NEW n \in Nat, n \in T PROVE n + 1 \in T
      <3>1. CASE n + 1 <= Len(s)
        <4>1. n \in 0..Len(s) - 1 /\ S[n] \in Splits /\ s[n + 1] \in Bytes
          BY <2>2, <3>1
        <4>2. QED
          BY <1>7, <4>1, Next1Bytes
      <3>2. QED
        BY <3>1
    <2> HIDE DEF T
    <2>3. \A n \in Nat : n \in T
      BY <2>1, <2>2, Induction
    <2>4. QED
      BY <2>3 DEF T
  <1>9. QED
    BY <1>7, <1>8

\* The fields of a step.
LEMMA SplitStep ==
    ASSUME NEW s \in Seq(Bytes), NEW n \in 0..Len(s) - 1
    PROVE  /\ s[n + 1] = NL => /\ Split(s)[n + 1].out = Split(s)[n].out \o LineSent(Split(s)[n].line)
                               /\ Split(s)[n + 1].line = <<>>
           /\ s[n + 1] # NL => /\ Split(s)[n + 1].out = Split(s)[n].out
                               /\ Split(s)[n + 1].line = Append(Split(s)[n].line, s[n + 1])
  <1>1. Split(s)[n + 1] = Next1(Split(s)[n], s[n + 1])
    BY SplitFacts
  <1> DEFINE o == Split(s)[n].out
             l == Split(s)[n].line
             b == s[n + 1]
             y == Split(s)[n + 1]
  <1>2. b = NL => y = [out |-> o \o LineSent(l), line |-> <<>>]
    BY <1>1 DEF Next1
  <1>3. b # NL => y = [out |-> o, line |-> Append(l, b)]
    BY <1>1 DEF Next1
  <1> HIDE DEF o, l, b, y
  <1>4. /\ b = NL => y.out = o \o LineSent(l) /\ y.line = <<>>
        /\ b # NL => y.out = o /\ y.line = Append(l, b)
    BY <1>2, <1>3
  <1>5. QED
    BY <1>4, Zenon DEF o, l, b, y

\* A sequence is a prefix of another one: it is not longer and has the same elements.
LEMMA PrefixIs ==
    ASSUME NEW S, NEW s \in Seq(S), NEW t \in Seq(S)
    PROVE  IsPrefix(s, t) <=> Len(s) <= Len(t) /\ \A i \in 1..Len(s) : s[i] = t[i]
  <1>1. CASE Len(s) <= Len(t)
    <2> DEFINE a == SubSeq(s, 1, Len(s))
               b == SubSeq(t, 1, Len(s))
    <2>1. /\ a \in Seq(S) /\ b \in Seq(S) /\ Len(a) = Len(s) /\ Len(b) = Len(s)
          /\ \A i \in 1..Len(s) : a[i] = s[i] /\ b[i] = t[i]
      BY <1>1
    <2> HIDE DEF a, b
    <2>2. a = b <=> \A i \in 1..Len(s) : a[i] = b[i]
      BY <2>1
    <2>3. IsPrefix(s, t) <=> a = b
      BY <1>1 DEF IsPrefix, a, b
    <2>4. QED
      BY <1>1, <2>1, <2>2, <2>3
  <1>2. CASE ~(Len(s) <= Len(t))
    BY <1>2 DEF IsPrefix
  <1>3. QED
    BY <1>1, <1>2

\* A sequence is a prefix of itself with something after it, and of what those with it as
\* a prefix are prefixes of.
LEMMA PrefixFacts ==
    ASSUME NEW S, NEW s \in Seq(S), NEW t \in Seq(S)
    PROVE  /\ IsPrefix(s, s) /\ IsPrefix(<<>>, s) /\ IsPrefix(s, s \o t)
           /\ \A u \in Seq(S) : IsPrefix(s, t) /\ IsPrefix(t, u) => IsPrefix(s, u)
  <1>1. IsPrefix(s, s)
    BY PrefixIs
  <1>2. IsPrefix(<<>>, s)
    <2>1. <<>> \in Seq(S) /\ Len(<<>>) = 0 /\ Len(s) \in Nat
      OBVIOUS
    <2>2. SubSeq(<<>>, 1, 0) = <<>> /\ SubSeq(s, 1, 0) = <<>>
      BY <2>1
    <2>3. QED
      BY <2>1, <2>2 DEF IsPrefix
  <1>3. IsPrefix(s, s \o t)
    <2>1. /\ s \o t \in Seq(S) /\ Len(s) <= Len(s \o t)
          /\ \A i \in 1..Len(s) : (s \o t)[i] = s[i]
      OBVIOUS
    <2>2. QED
      BY <2>1, PrefixIs
  <1>4. ASSUME NEW u \in Seq(S), IsPrefix(s, t), IsPrefix(t, u) PROVE IsPrefix(s, u)
    <2>1. Len(s) <= Len(t) /\ \A i \in 1..Len(s) : s[i] = t[i]
      BY <1>4, PrefixIs
    <2>2. Len(t) <= Len(u) /\ \A i \in 1..Len(t) : t[i] = u[i]
      BY <1>4, PrefixIs
    <2>3. Len(s) \in Nat /\ Len(t) \in Nat /\ Len(u) \in Nat
      OBVIOUS
    <2>4. Len(s) <= Len(u) /\ \A i \in 1..Len(s) : s[i] = u[i]
      BY <2>1, <2>2, <2>3
    <2>5. QED
      BY <2>4, PrefixIs
  <1>5. QED
    BY <1>1, <1>2, <1>3, <1>4

\* What is written later does not change how the bytes before it are split.
LEMMA SplitExtends ==
    ASSUME NEW s \in Seq(Bytes), NEW t \in Seq(Bytes), Len(s) <= Len(t),
           \A i \in 1..Len(s) : s[i] = t[i]
    PROVE  \A n \in 0..Len(s) : Split(t)[n] = Split(s)[n]
  <1> DEFINE T == { n \in Nat : n <= Len(s) => Split(t)[n] = Split(s)[n] }
  <1>1. 0 \in T
    BY SplitFacts
  <1>2. ASSUME NEW n \in Nat, n \in T PROVE n + 1 \in T
    <2>1. CASE n + 1 <= Len(s)
      <3>1. n \in 0..Len(s) - 1 /\ n \in 0..Len(t) - 1 /\ n + 1 \in 1..Len(s)
        BY <2>1
      <3>2. Split(t)[n + 1] = Next1(Split(t)[n], t[n + 1])
        BY <3>1, SplitFacts
      <3>3. Split(s)[n + 1] = Next1(Split(s)[n], s[n + 1])
        BY <3>1, SplitFacts
      <3>4. QED
        BY <1>2, <3>1, <3>2, <3>3
    <2>2. QED
      BY <2>1
  <1> HIDE DEF T
  <1>3. \A n \in Nat : n \in T
    BY <1>1, <1>2, Induction
  <1>4. QED
    BY <1>3 DEF T

\* More bytes send more.
LEMMA OutGrows ==
    ASSUME NEW s \in Seq(Bytes), NEW m \in 0..Len(s), NEW n \in m..Len(s)
    PROVE  IsPrefix(Split(s)[m].out, Split(s)[n].out)
  <1> DEFINE T == { k \in Nat : m <= k /\ k <= Len(s) => IsPrefix(Split(s)[m].out, Split(s)[k].out) }
  <1>1. ASSUME NEW k \in 0..Len(s)
        PROVE  Split(s)[k].out \in Seq(Bytes) /\ LineSent(Split(s)[k].line) \in Seq(Bytes)
    BY SplitFacts, LineSentBytes DEF Splits
  <1>2. IsPrefix(Split(s)[m].out, Split(s)[m].out)
    BY <1>1, PrefixFacts
  <1>3. 0 \in T
    <2>1. m <= 0 => m = 0
      OBVIOUS
    <2>2. QED
      BY <1>2, <2>1
  <1>4. ASSUME NEW k \in Nat, k \in T PROVE k + 1 \in T
    <2>1. CASE m <= k /\ k + 1 <= Len(s)
      <3>1. k \in 0..Len(s) - 1 /\ k \in 0..Len(s) /\ k + 1 \in 0..Len(s)
        BY <2>1
      <3> DEFINE o == Split(s)[k].out
                 l == LineSent(Split(s)[k].line)
      <3>3. o \in Seq(Bytes) /\ l \in Seq(Bytes) /\ Split(s)[k + 1].out \in Seq(Bytes)
            /\ Split(s)[m].out \in Seq(Bytes)
        BY <1>1, <3>1
      <3>4. Split(s)[k + 1].out = o \/ Split(s)[k + 1].out = o \o l
        BY <3>1, SplitStep
      <3>5. IsPrefix(Split(s)[m].out, o)
        <4>1. k <= Len(s)
          BY <3>1
        <4>2. QED
          BY <1>4, <2>1, <4>1
      <3> HIDE DEF o, l
      <3>6. IsPrefix(o, Split(s)[k + 1].out)
        BY <3>3, <3>4, PrefixFacts
      <3>7. IsPrefix(Split(s)[m].out, Split(s)[k + 1].out)
        BY <3>3, <3>5, <3>6, PrefixFacts
      <3>8. QED
        BY <3>7
    <2>2. CASE m = k + 1
      BY <1>2, <2>2
    <2>3. CASE m > k + 1 \/ k + 1 > Len(s)
      BY <2>3
    <2>4. QED
      BY <2>1, <2>2, <2>3
  <1> HIDE DEF T
  <1>5. n \in T
    BY <1>3, <1>4, Induction
  <1>6. QED
    BY <1>5 DEF T

\* A line grows by the next byte.
LEMMA SubSeqStep ==
    ASSUME NEW S, NEW b \in Seq(S), NEW k \in Nat, k + 1 <= Len(b)
    PROVE  SubSeq(b, 1, k + 1) = Append(SubSeq(b, 1, k), b[k + 1])
  <1> DEFINE u == SubSeq(b, 1, k + 1)
             v == Append(SubSeq(b, 1, k), b[k + 1])
  <1>1. u \in Seq(S) /\ Len(u) = k + 1 /\ \A i \in 1..k + 1 : u[i] = b[i]
    OBVIOUS
  <1>2. v \in Seq(S) /\ Len(v) = k + 1 /\ \A i \in 1..k + 1 : v[i] = b[i]
    OBVIOUS
  <1> HIDE DEF u, v
  <1>3. u = v
    BY <1>1, <1>2
  <1>4. QED
    BY <1>3 DEF u, v

\* Bytes without a newline, from the begin of a line, are the line they begin.
LEMMA Segment ==
    ASSUME NEW s \in Seq(Bytes), NEW b \in Seq(Bytes), NEW n \in Nat, NEW k \in 0..Len(b),
           n + k <= Len(s), Split(s)[n].line = <<>>,
           \A i \in 1..k : b[i] = s[n + i] /\ b[i] # NL
    PROVE  Split(s)[n + k].out = Split(s)[n].out /\ Split(s)[n + k].line = SubSeq(b, 1, k)
  <1> DEFINE T == { j \in Nat : j <= k =>
                 Split(s)[n + j].out = Split(s)[n].out /\ Split(s)[n + j].line = SubSeq(b, 1, j) }
  <1>1. 0 \in T
    <2>1. n \in 0..Len(s) /\ n + 0 = n /\ SubSeq(b, 1, 0) = <<>>
      OBVIOUS
    <2>2. QED
      BY <2>1
  <1>2. ASSUME NEW j \in Nat, j \in T PROVE j + 1 \in T
    <2>1. CASE j + 1 <= k
      <3>1. /\ n + j \in 0..Len(s) - 1 /\ n + (j + 1) = n + j + 1 /\ j + 1 \in 1..k
            /\ j + 1 <= Len(b)
        BY <2>1
      <3>2. s[n + j + 1] # NL => /\ Split(s)[n + j + 1].out = Split(s)[n + j].out
                                 /\ Split(s)[n + j + 1].line = Append(Split(s)[n + j].line, s[n + j + 1])
        BY <3>1, SplitStep
      <3>3. s[n + j + 1] = b[j + 1] /\ b[j + 1] # NL
        BY <3>1
      <3>4. Split(s)[n + j].out = Split(s)[n].out /\ Split(s)[n + j].line = SubSeq(b, 1, j)
        BY <1>2, <2>1
      <3>5. Append(SubSeq(b, 1, j), b[j + 1]) = SubSeq(b, 1, j + 1)
        BY <3>1, SubSeqStep
      <3>6. /\ Split(s)[n + j + 1].out = Split(s)[n].out
            /\ Split(s)[n + j + 1].line = SubSeq(b, 1, j + 1)
        BY <3>2, <3>3, <3>4, <3>5
      <3>7. QED
        BY <3>1, <3>6
    <2>2. QED
      BY <2>1
  <1> HIDE DEF T
  <1>3. k \in T
    <2>1. k \in Nat
      OBVIOUS
    <2>2. QED
      BY <1>1, <1>2, <2>1, Induction
  <1>4. QED
    BY <1>3 DEF T

\* What is sent, with what is to be sent of it, is due: so what is sent is right.
LEMMA DueIsSafe ==
    ASSUME NEW w \in Seq(Bytes), NEW n, NEW b \in Seq(Bytes), NEW e, NEW stopped,
           NEW s \in Seq(Bytes), NEW r \in Seq(Bytes),
           Position(w, n, b, e, stopped), Due(w, n, b, e, s \o r)
    PROVE  Safe(w, stopped, s)
  <1>1. n \in 0..Len(w) /\ Len(w) \in n..Len(w)
    BY DEF Position
  <1>2. IsPrefix(s, s \o r) /\ s \o r \in Seq(Bytes)
    BY PrefixFacts
  <1>3. CASE s \o r = Split(w)[n].out
    <2>1. IsPrefix(Split(w)[n].out, Split(w)[Len(w)].out)
      BY <1>1, OutGrows
    <2>2. Split(w)[Len(w)].out \in Seq(Bytes)
      BY <1>1, SplitFacts DEF Splits
    <2>3. IsPrefix(s, Split(w)[Len(w)].out)
      BY <1>2, <1>3, <2>1, <2>2, PrefixFacts
    <2>4. QED
      BY <2>3 DEF Safe
  <1>4. CASE e \in Final /\ s \o r = Render(w)
    BY <1>2, <1>4 DEF Safe, Position
  <1>5. QED
    BY <1>3, <1>4 DEF Due

\* A write leaves what is sent right, and what is due.
LEMMA GrowthIsSafe ==
    ASSUME NEW w \in Seq(Bytes), NEW v \in Seq(Bytes), Len(w) <= Len(v),
           \A i \in 1..Len(w) : w[i] = v[i]
    PROVE  /\ \A s \in Seq(Bytes) : Safe(w, FALSE, s) => Safe(v, FALSE, s)
           /\ \A n, b, e, all : /\ b \in Seq(Bytes) /\ Position(w, n, b, e, FALSE)
                                => /\ Position(v, n, b, e, FALSE)
                                   /\ Due(w, n, b, e, all) => Due(v, n, b, e, all)
  <1>1. \A n \in 0..Len(w) : Split(v)[n] = Split(w)[n]
    BY SplitExtends
  <1>2. ASSUME NEW s \in Seq(Bytes), Safe(w, FALSE, s) PROVE Safe(v, FALSE, s)
    <2>1. Len(w) \in 0..Len(w) /\ Len(w) \in 0..Len(v) /\ Len(v) \in Len(w)..Len(v) /\ Len(v) \in 0..Len(v)
      OBVIOUS
    <2>2. IsPrefix(s, Split(v)[Len(w)].out)
      BY <1>1, <1>2, <2>1 DEF Safe
    <2>3. IsPrefix(Split(v)[Len(w)].out, Split(v)[Len(v)].out)
      BY <2>1, OutGrows
    <2>4. Split(v)[Len(w)].out \in Seq(Bytes) /\ Split(v)[Len(v)].out \in Seq(Bytes)
      BY <2>1, SplitFacts DEF Splits
    <2>5. IsPrefix(s, Split(v)[Len(v)].out)
      BY <2>2, <2>3, <2>4, PrefixFacts
    <2>6. QED
      BY <2>5 DEF Safe
  <1>3. ASSUME NEW n, NEW b, NEW e, NEW all, b \in Seq(Bytes),
               Position(w, n, b, e, FALSE)
        PROVE  Position(v, n, b, e, FALSE) /\ (Due(w, n, b, e, all) => Due(v, n, b, e, all))
    <2>1. n \in Nat /\ n + Len(b) <= Len(w) /\ e \notin Final /\ \A i \in 1..Len(b) : b[i] = w[n + i]
      BY <1>3 DEF Position
    <2>2. Len(b) \in Nat /\ Len(w) \in Nat /\ Len(v) \in Nat
      BY <1>3
    <2>3. n \in 0..Len(w) /\ n + Len(b) <= Len(v) /\ \A i \in 1..Len(b) : n + i \in 1..Len(w)
      BY <2>1, <2>2
    <2>4. Position(v, n, b, e, FALSE)
      BY <2>1, <2>3 DEF Position
    <2>5. Due(w, n, b, e, all) => Due(v, n, b, e, all)
      BY <1>1, <2>1, <2>3 DEF Due
    <2>6. QED
      BY <2>4, <2>5
  <1>4. QED
    BY <1>2, <1>3

\* What is sent of a line is what is owed for the line without its carriage return.
LEMMA OwedLine ==
    ASSUME NEW l PROVE Owed("check", DropCR(l)) = LineSent(l)
  BY DEF Owed, LineSent

\* The scanner takes a line out of the buffer.
LEMMA LineIsDue ==
    ASSUME NEW w \in Seq(Bytes), NEW n, NEW b \in Seq(Bytes), NEW e, NEW stopped,
           NEW s \in Seq(Bytes), Position(w, n, b, e, stopped), Due(w, n, b, e, s), Contains(b, NL)
    PROVE  LET k == EndOfLine(b)
               r == SubSeq(b, k + 1, Len(b))
           IN  /\ k \in 1..Len(b)
               /\ Len(r) = Len(b) - k
               /\ Position(w, n + k, r, e, stopped)
               /\ Due(w, n + k, r, e, s \o LineSent(FirstLine(b)))
  <1> DEFINE k == EndOfLine(b)
             r == SubSeq(b, k + 1, Len(b))
  <1>1. k \in 1..Len(b) /\ (\A i \in 1..k - 1 : b[i] # NL) /\ b[k] = NL
    BY LineFacts
  <1>2. n \in Nat /\ n + Len(b) <= Len(w) /\ \A i \in 1..Len(b) : b[i] = w[n + i]
    BY DEF Position
  <1>3. Len(b) \in Nat /\ Len(w) \in Nat
    OBVIOUS
  <1> HIDE DEF k
  <1>4. r \in Seq(Bytes) /\ Len(r) = Len(b) - k /\ \A i \in 1..Len(r) : r[i] = b[k + i]
    <2>1. k + 1 \in 1..Len(b) + 1 /\ Len(b) - k \in Nat
      BY <1>1, <1>3
    <2>2. QED
      BY <1>1, <1>3, <2>1
  <1> HIDE DEF r
  <1>5. Position(w, n + k, r, e, stopped)
    <2>1. n + k \in Nat /\ n + k + Len(r) <= Len(w) /\ n + k + Len(r) = n + Len(b)
      BY <1>1, <1>2, <1>3, <1>4
    <2>2. ASSUME NEW i \in 1..Len(r) PROVE r[i] = w[n + k + i]
      <3>1. k + i \in 1..Len(b) /\ n + k + i = n + (k + i)
        BY <1>1, <1>2, <1>3, <1>4
      <3>2. QED
        BY <1>2, <1>4, <3>1
    <2>3. QED
      BY <2>1, <2>2 DEF Position
  <1>6. Due(w, n + k, r, e, s \o LineSent(FirstLine(b)))
    <2>1. b # <<>>
      BY <1>1, <1>3
    <2>2. Split(w)[n].line = <<>> /\ s = Split(w)[n].out
      BY <2>1 DEF Due
    <2>3. /\ k - 1 \in 0..Len(b) /\ n + (k - 1) <= Len(w) /\ n + (k - 1) \in 0..Len(w) - 1
          /\ n + (k - 1) + 1 = n + k /\ \A i \in 1..k - 1 : i \in 1..Len(b)
      BY <1>1, <1>2, <1>3
    <2>4. /\ Split(w)[n + (k - 1)].out = Split(w)[n].out
          /\ Split(w)[n + (k - 1)].line = SubSeq(b, 1, k - 1)
      BY <1>1, <1>2, <2>2, <2>3, Segment
    <2>5. w[n + k] = NL
      BY <1>1, <1>2
    <2>6. /\ Split(w)[n + k].out = Split(w)[n + (k - 1)].out \o LineSent(Split(w)[n + (k - 1)].line)
          /\ Split(w)[n + k].line = <<>>
      BY <2>3, <2>5, SplitStep
    <2>7. QED
      BY <2>2, <2>4, <2>6 DEF Due, FirstLine, k
  <1>7. QED
    BY <1>1, <1>4, <1>5, <1>6 DEF k, r

\* The scanner takes what is left.
LEMMA RestIsDue ==
    ASSUME NEW w \in Seq(Bytes), NEW n, NEW b \in Seq(Bytes), NEW e, NEW stopped,
           NEW s \in Seq(Bytes), Position(w, n, b, e, stopped), Due(w, n, b, e, s),
           ~Contains(b, NL), b # <<>>
    PROVE  /\ Position(w, n + Len(b), <<>>, e, stopped)
           /\ e \in Final => Due(w, n + Len(b), <<>>, e, s \o LineSent(b))
  <1>1. n \in Nat /\ n + Len(b) <= Len(w) /\ \A i \in 1..Len(b) : b[i] = w[n + i]
    BY DEF Position
  <1>2. Len(b) \in Nat /\ Len(w) \in Nat /\ Len(<<>>) = 0
    OBVIOUS
  <1>3. Position(w, n + Len(b), <<>>, e, stopped)
    BY <1>1, <1>2 DEF Position
  <1>4. ASSUME e \in Final PROVE Due(w, n + Len(b), <<>>, e, s \o LineSent(b))
    <2>1. n + Len(b) = Len(w)
      BY <1>4 DEF Position
    <2>2. Split(w)[n].line = <<>> /\ s = Split(w)[n].out
      BY DEF Due
    <2>3. \A i \in 1..Len(b) : b[i] # NL
      BY DEF Contains
    <2>4. Len(b) \in 0..Len(b) /\ SubSeq(b, 1, Len(b)) = b
      BY <1>2
    <2>5. Split(w)[n + Len(b)].out = s /\ Split(w)[n + Len(b)].line = b
      BY <1>1, <2>2, <2>3, <2>4, Segment
    <2>6. Render(w) = s \o LineSent(b)
      BY <2>1, <2>5 DEF Render
    <2>7. QED
      BY <1>4, <2>6 DEF Due
  <1>5. QED
    BY <1>3, <1>4

\* At the end of the stream, with nothing in the buffer, everything is sent.
LEMMA EndIsComplete ==
    ASSUME NEW w \in Seq(Bytes), NEW n, NEW stopped, NEW s \in Seq(Bytes),
           Position(w, n, <<>>, "EOF", stopped), Due(w, n, <<>>, "EOF", s)
    PROVE  stopped /\ s = Render(w)
  <1>1. n \in Nat /\ stopped /\ n = Len(w)
    <2>1. Len(<<>>) = 0
      OBVIOUS
    <2>2. QED
      BY <2>1 DEF Position, Final
  <1>2. CASE Split(w)[n].line = <<>> /\ s = Split(w)[n].out
    <2>1. LineSent(<<>>) = <<>>
      BY DEF LineSent, DropCR
    <2>2. s \o <<>> = s
      OBVIOUS
    <2>3. QED
      BY <1>1, <1>2, <2>1, <2>2 DEF Render
  <1>3. QED
    BY <1>1, <1>2 DEF Due

\* The bytes of c from offset o on.
Part(c, o) == IF o \in 0..Len(c) THEN SubSeq(c, o + 1, Len(c)) ELSE <<>>

\* Its length and its bytes.
LEMMA PartFacts ==
    ASSUME NEW S, NEW c \in Seq(S), NEW o
    PROVE  /\ Part(c, o) \in Seq(S)
           /\ o \in 0..Len(c) => /\ Len(Part(c, o)) = Len(c) - o
                                 /\ \A i \in 1..Len(c) - o : Part(c, o)[i] = c[o + i]
           /\ o \notin 0..Len(c) => Part(c, o) = <<>>
  <1>1. CASE o \in 0..Len(c)
    <2>1. o + 1 \in 1..Len(c) + 1 /\ Len(c) \in Nat /\ Len(c) - o \in Nat
      BY <1>1
    <2>2. Part(c, o) = SubSeq(c, o + 1, Len(c))
      BY <1>1 DEF Part
    <2>3. QED
      BY <1>1, <2>1, <2>2
  <1>2. CASE o \notin 0..Len(c)
    BY <1>2 DEF Part
  <1>3. QED
    BY <1>1, <1>2

\* A write appends to what a follower wants.
LEMMA PartGrows ==
    ASSUME NEW S, NEW c \in Seq(S), NEW p \in Seq(S), NEW o
    PROVE  /\ Len(Part(c, o)) <= Len(Part(c \o p, o))
           /\ \A i \in 1..Len(Part(c, o)) : Part(c, o)[i] = Part(c \o p, o)[i]
  <1> DEFINE d == c \o p
  <1>1. d \in Seq(S) /\ Len(d) = Len(c) + Len(p) /\ \A i \in 1..Len(c) : d[i] = c[i]
    OBVIOUS
  <1>2. Len(c) \in Nat /\ Len(p) \in Nat
    OBVIOUS
  <1> HIDE DEF d
  <1>3. CASE o \in 0..Len(c)
    <2>1. o \in 0..Len(d) /\ Len(c) - o <= Len(d) - o /\ \A i \in 1..Len(c) - o : o + i \in 1..Len(c)
      BY <1>1, <1>2, <1>3
    <2>2. Len(Part(c, o)) = Len(c) - o /\ \A i \in 1..Len(c) - o : Part(c, o)[i] = c[o + i]
      BY <1>3, PartFacts
    <2>3. Len(Part(d, o)) = Len(d) - o /\ \A i \in 1..Len(d) - o : Part(d, o)[i] = d[o + i]
      <3>1. d \in Seq(S) /\ o \in 0..Len(d)
        BY <1>1, <2>1
      <3>2. QED
        BY <3>1, PartFacts
    <2>4. \A i \in 1..Len(c) - o : i \in 1..Len(d) - o
      BY <1>1, <1>2, <1>3
    <2>5. QED
      BY <1>1, <2>1, <2>2, <2>3, <2>4 DEF d
  <1>4. CASE o \notin 0..Len(c)
    <2>1. Len(Part(c, o)) = 0
      BY <1>4, PartFacts
    <2>2. Len(Part(d, o)) \in Nat
      BY <1>1, PartFacts
    <2>3. QED
      BY <2>1, <2>2 DEF d
  <1>5. QED
    BY <1>3, <1>4

\* A step leaves follower g alone.
Same(g) ==
    /\ pc'[g] = pc[g] /\ offset'[g] = offset[g] /\ ctxDone'[g] = ctxDone[g]
    /\ pos'[g] = pos[g] /\ buf'[g] = buf[g] /\ scanErr'[g] = scanErr[g]
    /\ token'[g] = token[g] /\ sent'[g] = sent[g]

\* A follower that a step leaves alone is as it was.
LEMMA OthersOK ==
    ASSUME NEW g, FollowerOK(g), UNCHANGED <<content, stop>>, Same(g)
    PROVE  FollowerOK(g)'
  BY DEF Same, FollowerOK, Seen, Over, Wanted, Taken

\* A follower that has read anything has read it from the file, and an offset that cannot
\* be sought ends it.
PlacedAt(f) ==
    /\ pos[f] <= offset[f] \/ pos[f] <= Len(content)
    /\ offset[f] < 0 => pc[f] = "failed" /\ scanErr[f] = "none"
    /\ pc[f] = "call" => pos[f] = 0 /\ scanErr[f] = "none"
Placed == \A f \in Followers : PlacedAt(f)

\* The bytes of c after the first o, up to the p-th.
SoFar(c, o, p) == SubSeq(c, o + 1, p)

\* They are bytes of c, and a write leaves them alone.
LEMMA SoFarFacts ==
    ASSUME NEW c \in Seq(Bytes), NEW o \in Nat, NEW p \in Nat, p <= o \/ p <= Len(c)
    PROVE  /\ SoFar(c, o, p) \in Seq(Bytes)
           /\ o <= p => /\ Len(SoFar(c, o, p)) = p - o
                        /\ \A i \in 1..p - o : SoFar(c, o, p)[i] = c[o + i]
           /\ \A d \in Seq(Bytes) : SoFar(c \o d, o, p) = SoFar(c, o, p)
  <1> USE DEF SoFar
  <1>1. Len(c) \in Nat
    OBVIOUS
  <1>2. CASE p <= o
    <2>1. 1..p - o = {} /\ 1..(1 + p - (o + 1)) = {}
      BY <1>2
    <2>2. \A d \in Seq(Bytes) : SubSeq(d, o + 1, p) = <<>>
      BY <1>2, <2>1
    <2>3. \A d \in Seq(Bytes) : c \o d \in Seq(Bytes)
      OBVIOUS
    <2>4. QED
      BY <1>2, <2>1, <2>2, <2>3
  <1>3. CASE o < p /\ p <= Len(c)
    <2>1. o + 1 \in 1..Len(c) + 1 /\ p \in o..Len(c)
      BY <1>1, <1>3
    <2>2. /\ SubSeq(c, o + 1, p) \in Seq(Bytes) /\ Len(SubSeq(c, o + 1, p)) = p - o
          /\ \A i \in 1..p - o : SubSeq(c, o + 1, p)[i] = c[o + i]
      BY <1>1, <1>3, <2>1
    <2>3. ASSUME NEW d \in Seq(Bytes) PROVE SubSeq(c \o d, o + 1, p) = SubSeq(c, o + 1, p)
      <3> DEFINE x == c \o d
      <3>1. x \in Seq(Bytes) /\ Len(x) = Len(c) + Len(d) /\ \A i \in 1..Len(c) : x[i] = c[i]
        OBVIOUS
      <3>2. Len(d) \in Nat
        OBVIOUS
      <3> HIDE DEF x
      <3>3. o + 1 \in 1..Len(x) + 1 /\ p \in o..Len(x)
        BY <1>1, <1>3, <3>1, <3>2
      <3>4. /\ SubSeq(x, o + 1, p) \in Seq(Bytes) /\ Len(SubSeq(x, o + 1, p)) = p - o
            /\ \A i \in 1..p - o : SubSeq(x, o + 1, p)[i] = x[o + i]
        BY <1>1, <1>3, <3>1, <3>2, <3>3
      <3>5. \A i \in 1..p - o : o + i \in 1..Len(c)
        BY <1>1, <1>3
      <3>6. QED
        BY <2>2, <3>1, <3>4, <3>5 DEF x
    <2>4. QED
      BY <1>3, <2>2, <2>3
  <1>4. p <= o \/ (o < p /\ p <= Len(c))
    BY <1>1
  <1> HIDE DEF SoFar
  <1>5. QED
    BY <1>2, <1>3, <1>4

\* The same of the bytes of a stream, to which more are written.
LEMMA SoFarStays ==
    ASSUME NEW c \in Seq(Bytes), NEW d \in Seq(Bytes), NEW o \in Nat, NEW p \in Nat,
           p <= o \/ p <= Len(c)
    PROVE  SoFar(c \o d, o, p) = SoFar(c, o, p)
  BY SoFarFacts

\* An offset is an integer, and not negative if the follower went on.
LEMMA OffsetFacts ==
    ASSUME StreamTypes, Placed, NEW f \in Followers
    PROVE  /\ offset[f] \in Int /\ PlacedAt(f)
           /\ scanErr[f] # "none" => offset[f] \in Nat
  <1>1. offset[f] \in Offsets \cup {0} /\ PlacedAt(f)
    BY DEF StreamTypes, TypeOK, Placed
  <1>2. offset[f] \in Int
    <2>1. Offsets \subseteq Int /\ 0 \in Int
      BY StreamerAssumption
    <2>2. QED
      BY <1>1, <2>1, Zenon
  <1>3. QED
    BY <1>1, <1>2 DEF PlacedAt

\* The bytes of a follower.
LEMMA FollowerBytes ==
    ASSUME StreamTypes, Placed, NEW f \in Followers
    PROVE  /\ Wanted(f) = Part(content, offset[f]) /\ Wanted(f) \in Seq(Bytes)
           /\ Seen(f) \in Seq(Bytes)
           /\ content \in Seq(Bytes) /\ Len(content) \in Nat
           /\ buf[f] \in Seq(Bytes) /\ Len(buf[f]) \in Nat
           /\ token[f] \in Seq(Bytes) /\ sent[f] \in Seq(Bytes)
           /\ pos[f] \in Nat /\ pc[f] \in Places
           /\ \A place : Owed(place, token[f]) \in Seq(Bytes)
  <1>1. /\ content \in Seq(Bytes) /\ buf[f] \in Seq(Bytes) /\ sent[f] \in Seq(Bytes)
        /\ token[f] \in Seq(Bytes \ {NL}) /\ pos[f] \in Nat /\ pc[f] \in Places
    BY DEF StreamTypes, TypeOK
  <1>2. token[f] \in Seq(Bytes) /\ NL \in Bytes
    BY <1>1 DEF Bytes
  <1>3. \A place : Owed(place, token[f]) \in Seq(Bytes)
    BY <1>2 DEF Owed
  <1>4. Wanted(f) = Part(content, offset[f]) /\ Wanted(f) \in Seq(Bytes)
    BY <1>1, PartFacts DEF Wanted, Part
  <1>5. Seen(f) \in Seq(Bytes)
    <2>1. CASE scanErr[f] = "read"
      <3>1. offset[f] \in Nat
        BY <2>1, OffsetFacts
      <3>2. pos[f] <= offset[f] \/ pos[f] <= Len(content)
        BY DEF Placed, PlacedAt
      <3>3. SoFar(content, offset[f], pos[f]) \in Seq(Bytes)
        BY <1>1, <3>1, <3>2, SoFarFacts
      <3>4. QED
        BY <2>1, <3>3 DEF Seen, SoFar
    <2>2. CASE scanErr[f] # "read"
      BY <1>4, <2>2 DEF Seen
    <2>3. QED
      BY <2>1, <2>2
  <1>6. QED
    BY <1>1, <1>2, <1>3, <1>4, <1>5

\* Writes, and the end of the stream.
LEMMA WriterOK ==
    ASSUME StreamTypes, Placed, FollowersOK,
           \/ \E p \in Payloads : Write(p)
           \/ Stop \/ CloseFile \/ RemoveDir
    PROVE  FollowersOK'
  <1> SUFFICES ASSUME NEW f \in Followers PROVE FollowerOK(f)'
    BY DEF FollowersOK
  <1>1. FollowerOK(f)
    BY DEF FollowersOK
  <1>2. /\ Wanted(f) = Part(content, offset[f]) /\ Wanted(f) \in Seq(Bytes)
        /\ content \in Seq(Bytes) /\ buf[f] \in Seq(Bytes) /\ sent[f] \in Seq(Bytes)
    BY FollowerBytes
  <1>3. UNCHANGED <<offset, ctxDone, pos, buf, scanErr, token, sent>>
    BY DEF Write, Stop, CloseFile, RemoveDir, scanVars
  <1>4. /\ pc'[f] = pc[f] \/ (pc[f] = "waiting" /\ pc'[f] = "read")
        /\ Owed(pc'[f], token[f]) = Owed(pc[f], token[f])
    <2>1. pc'[f] = pc[f] \/ (pc[f] = "waiting" /\ pc'[f] = "read")
      BY DEF Write, Stop, CloseFile, RemoveDir, Broadcast
    <2>2. QED
      BY <2>1 DEF Owed
  <1>8. ASSUME NEW p \in Payloads, Write(p), scanErr[f] = "read" PROVE FollowerOK(f)'
    <2>1. p \in Seq(Bytes) /\ content' = content \o p
      <3>1. p \in Seq(Bytes)
        BY PayloadsAreBytes
      <3>2. QED
        BY <1>8, <3>1 DEF Write
    <2>2. offset[f] \in Nat /\ pos[f] \in Nat /\ (pos[f] <= offset[f] \/ pos[f] <= Len(content))
      <3>1. pos[f] \in Nat
        BY FollowerBytes
      <3>2. offset[f] \in Nat /\ PlacedAt(f)
        BY <1>8, OffsetFacts
      <3>3. QED
        BY <3>1, <3>2 DEF PlacedAt
    <2>3. SoFar(content \o p, offset[f], pos[f]) = SoFar(content, offset[f], pos[f])
      BY <1>2, <2>1, <2>2, SoFarStays
    <2>4. /\ Seen(f)' = Seen(f) /\ Over(f)' = Over(f) /\ Taken(f)' = Taken(f)
      BY <1>3, <1>8, <2>1, <2>3 DEF Seen, Over, Taken, SoFar
    <2>5. QED
      BY <1>1, <1>3, <1>4, <2>4 DEF FollowerOK, PlaceOK
  <1>5. ASSUME NEW p \in Payloads, Write(p), scanErr[f] # "read" PROVE FollowerOK(f)'
    <2>1. p \in Seq(Bytes)
      BY PayloadsAreBytes
    <2> DEFINE v == Part(content \o p, offset[f])
    <2>2. Wanted(f)' = v /\ stop = FALSE /\ stop' = FALSE
      BY <1>3, <1>5 DEF Write, Wanted, Part, StreamTypes, TypeOK
    <2>6. Seen(f) = Wanted(f) /\ Seen(f)' = v /\ Over(f) = FALSE /\ Over(f)' = FALSE
      BY <1>3, <1>5, <2>2 DEF Seen, Over
    <2>3. /\ v \in Seq(Bytes) /\ Len(Wanted(f)) <= Len(v)
          /\ \A i \in 1..Len(Wanted(f)) : Wanted(f)[i] = v[i]
      <3>1. content \o p \in Seq(Bytes)
        BY <1>2, <2>1
      <3>2. v \in Seq(Bytes)
        BY <3>1, PartFacts
      <3>3. /\ Len(Part(content, offset[f])) <= Len(v)
            /\ \A i \in 1..Len(Part(content, offset[f])) : Part(content, offset[f])[i] = v[i]
        BY <1>2, <2>1, PartGrows
      <3> HIDE DEF v
      <3>4. QED
        BY <1>2, <3>2, <3>3
    <2> HIDE DEF v
    <2>4. Safe(v, FALSE, sent[f])
      <3>1. Safe(Wanted(f), FALSE, sent[f])
        BY <1>1, <2>6 DEF FollowerOK, PlaceOK
      <3>2. QED
        BY <1>2, <2>3, <3>1, GrowthIsSafe
    <2>5. \A n, b, e, all : /\ b \in Seq(Bytes) /\ Position(Wanted(f), n, b, e, FALSE)
                            => /\ Position(v, n, b, e, FALSE)
                               /\ Due(Wanted(f), n, b, e, all) => Due(v, n, b, e, all)
      BY <1>2, <2>3, GrowthIsSafe
    <2>7. Taken(f)' = Taken(f)
      BY <1>3 DEF Taken
    <2>8. pc[f] \notin {"call", "failed"} =>
            /\ Position(v, Taken(f), buf[f], scanErr[f], FALSE)
            /\ \/ pc[f] = "check" /\ scanErr[f] = "ctx"
               \/ Due(v, Taken(f), buf[f], scanErr[f], sent[f] \o Owed(pc[f], token[f]))
      BY <1>1, <1>2, <2>2, <2>5, <2>6 DEF FollowerOK, PlaceOK
    <2>9. QED
      BY <1>1, <1>3, <1>4, <2>2, <2>4, <2>6, <2>7, <2>8 DEF FollowerOK, PlaceOK
  <1>6. CASE Stop \/ CloseFile \/ RemoveDir
    <2>1. Seen(f)' = Seen(f) /\ Taken(f)' = Taken(f) /\ (Over(f) => Over(f)')
      BY <1>3, <1>6 DEF Stop, CloseFile, RemoveDir, Seen, Over, Wanted, Taken
    <2>2. Safe(Seen(f), Over(f)', sent[f])
      BY <1>1, <2>1 DEF FollowerOK, PlaceOK, Safe
    <2>3. \A n, b, e : Position(Seen(f), n, b, e, Over(f)) => Position(Seen(f), n, b, e, Over(f)')
      BY <2>1 DEF Position
    <2>4. QED
      BY <1>1, <1>3, <1>4, <2>1, <2>2, <2>3 DEF FollowerOK, PlaceOK
  <1>7. QED
    BY <1>5, <1>6, <1>8

\* A read of the next bytes fills the buffer.
LEMMA BufferGrows ==
    ASSUME NEW c \in Seq(Bytes), NEW o \in Nat, NEW q \in Nat, NEW b \in Seq(Bytes),
           NEW m \in Nat \ {0}, q + m <= Len(c), NEW stopped,
           Position(Part(c, o), q - Len(b) - o, b, "none", stopped)
    PROVE  LET d == b \o SubSeq(c, q + 1, q + m)
           IN  /\ Len(d) = Len(b) + m
               /\ Position(Part(c, o), q - Len(b) - o, d, "none", stopped)
  <1> DEFINE part == SubSeq(c, q + 1, q + m)
             w == Part(c, o)
             n == q - Len(b) - o
             d == b \o part
  <1>1. Len(c) \in Nat /\ Len(b) \in Nat
    OBVIOUS
  <1>2. n \in Nat /\ n + Len(b) <= Len(w) /\ \A i \in 1..Len(b) : b[i] = w[n + i]
    BY DEF Position
  <1>3. o \in 0..Len(c)
    BY <1>1, <1>2
  <1>4. Len(w) = Len(c) - o /\ \A i \in 1..Len(c) - o : w[i] = c[o + i]
    BY <1>3, PartFacts
  <1>5. part \in Seq(Bytes) /\ Len(part) = m /\ \A i \in 1..m : part[i] = c[q + i]
    <2>1. q + 1 \in 1..Len(c) + 1 /\ q + m \in q..Len(c)
      BY <1>1, RangeFacts
    <2>2. QED
      BY <1>1, <2>1
  <1> HIDE DEF part, w
  <1>6. /\ Len(d) = Len(b) + m
        /\ \A i \in 1..Len(b) : d[i] = b[i]
        /\ \A i \in Len(b) + 1..Len(b) + m : d[i] = part[i - Len(b)]
    <2>1. b \in Seq(Bytes) /\ part \in Seq(Bytes) /\ Len(part) = m
      BY <1>5
    <2>2. /\ Len(b \o part) = Len(b) + Len(part)
          /\ \A i \in 1..Len(b) : (b \o part)[i] = b[i]
          /\ \A i \in Len(b) + 1..Len(b) + Len(part) : (b \o part)[i] = part[i - Len(b)]
      BY <2>1
    <2>3. QED
      BY <2>1, <2>2
  <1> HIDE DEF d
  <1>7. ASSUME NEW i \in 1..Len(d) PROVE d[i] = w[n + i]
    <2>1. CASE i <= Len(b)
      BY <1>1, <1>2, <1>6, <2>1
    <2>2. CASE i > Len(b)
      <3>1. i \in Len(b) + 1..Len(b) + m /\ i - Len(b) \in 1..m
        BY <1>1, <1>6, <2>2
      <3>2. d[i] = c[q + (i - Len(b))]
        BY <1>5, <1>6, <3>1
      <3>3. n + i \in 1..Len(c) - o /\ q + (i - Len(b)) = o + (n + i)
        BY <1>1, <1>2, <3>1
      <3>4. QED
        BY <1>4, <3>2, <3>3
    <2>3. QED
      BY <1>1, <2>1, <2>2
  <1>8. n + Len(d) <= Len(w)
    BY <1>1, <1>4, <1>6
  <1>9. Position(w, n, d, "none", stopped)
    BY <1>2, <1>7, <1>8 DEF Position, Final
  <1>10. QED
    BY <1>6, <1>9 DEF d, part, w

\* A turn of the reader's loop.
LEMMA ReadOK ==
    ASSUME StreamTypes, Placed, FollowersOK, NEW f \in Followers, Read(f)
    PROVE  FollowersOK'
  <1>1. FollowerOK(f) /\ pc[f] = "read"
    BY DEF FollowersOK, Read
  <1>2. /\ Wanted(f) = Part(content, offset[f]) /\ Wanted(f) \in Seq(Bytes)
        /\ content \in Seq(Bytes) /\ buf[f] \in Seq(Bytes) /\ sent[f] \in Seq(Bytes)
        /\ Len(content) \in Nat /\ Len(buf[f]) \in Nat /\ pos[f] \in Nat
    BY FollowerBytes
  <1>3. UNCHANGED <<content, dir, stop, file, offset, ctxDone, token, sent>>
    BY DEF Read, streamVars
  <1>4. ASSUME NEW g \in Followers \ {f} PROVE FollowerOK(g)'
    <2>1. pos'[g] = pos[g] /\ buf'[g] = buf[g] /\ scanErr'[g] = scanErr[g] /\ pc'[g] = pc[g]
      BY DEF Read, Goto, StreamTypes, TypeOK, Buffers
    <2>2. FollowerOK(g) /\ Same(g)
      BY <1>3, <2>1 DEF Same, FollowersOK
    <2>3. QED
      BY <1>3, <2>2, OthersOK
  <1> SUFFICES FollowerOK(f)'
    BY <1>4 DEF FollowersOK
  <1> DEFINE w == Wanted(f)
             n == Taken(f)
             b == buf[f]
  <1>5. /\ offset[f] \in Nat /\ scanErr[f] = "none" /\ Safe(w, stop, sent[f])
        /\ Position(w, n, b, "none", stop) /\ Due(w, n, b, "none", sent[f] \o <<>>)
    BY <1>1 DEF FollowerOK, PlaceOK, Owed, Seen, Over
  <1>6. \A e : e # "read" /\ scanErr'[f] = e => Seen(f)' = w /\ Over(f)' = stop
    BY <1>3 DEF Seen, Over, Wanted
  <1>7. \A d, e : Due(w, n, d, e, sent[f] \o <<>>)
    BY <1>5 DEF Due, Final
  <1>8. Owed("scan", token[f]) = <<>> /\ Owed("waiting", token[f]) = <<>>
    BY DEF Owed
  <1> HIDE DEF w
  <1>9. CASE /\ UNCHANGED <<pos, buf>> /\ Goto(f, "scan") /\ Cancelled(f)
             /\ scanErr' = [scanErr EXCEPT ![f] = "ctx"]
    <2>1. pc'[f] = "scan" /\ scanErr'[f] = "ctx" /\ Taken(f)' = n /\ ctxDone[f]
      BY <1>3, <1>9 DEF Goto, Taken, Cancelled, StreamTypes, TypeOK
    <2>2. Position(w, n, b, "ctx", stop)
      BY <1>5 DEF Position, Final
    <2>3. PlaceOK(w, n, "scan", offset[f], ctxDone[f], b, "ctx", token[f], sent[f], stop)
      BY <1>3, <1>5, <1>6, <1>7, <1>8, <1>9, <2>1, <2>2 DEF PlaceOK
    <2>4. FollowerOK(f)' = PlaceOK(w, n, "scan", offset[f], ctxDone[f], b, "ctx", token[f], sent[f], stop)
      BY <1>3, <1>5, <1>6, <1>7, <1>8, <1>9, <2>1, <2>2 DEF FollowerOK
    <2>5. QED
      BY <2>3, <2>4
  <1>10. CASE /\ UNCHANGED <<pos, buf>> /\ Goto(f, "scan") /\ Ended(f)
              /\ scanErr' = [scanErr EXCEPT ![f] = "EOF"]
    <2>1. pc'[f] = "scan" /\ scanErr'[f] = "EOF" /\ Taken(f)' = n
      BY <1>3, <1>10 DEF Goto, Taken, StreamTypes, TypeOK
    <2>2. stop /\ Len(content) <= pos[f]
      BY <1>2, <1>10 DEF Ended, Available
    <2>3. n \in Nat /\ n + Len(b) <= Len(w) /\ n + Len(b) = pos[f] - offset[f]
      BY <1>2, <1>5 DEF Position, Taken
    <2>4. n + Len(b) = Len(w)
      <3>1. CASE offset[f] \in 0..Len(content)
        <4>1. Len(w) = Len(content) - offset[f]
          BY <1>2, <3>1, PartFacts DEF w
        <4>2. QED
          BY <1>2, <1>5, <2>2, <2>3, <4>1
      <3>2. CASE offset[f] \notin 0..Len(content)
        <4>1. Len(w) = 0
          BY <1>2, <3>2, PartFacts DEF w
        <4>2. QED
          BY <1>2, <2>3, <4>1
      <3>3. QED
        BY <3>1, <3>2
    <2>5. Position(w, n, b, "EOF", stop)
      BY <1>5, <2>2, <2>4 DEF Position
    <2>6. PlaceOK(w, n, "scan", offset[f], ctxDone[f], b, "EOF", token[f], sent[f], stop)
      BY <1>3, <1>5, <1>6, <1>7, <1>8, <1>10, <2>1, <2>5 DEF PlaceOK
    <2>7. FollowerOK(f)' = PlaceOK(w, n, "scan", offset[f], ctxDone[f], b, "EOF", token[f], sent[f], stop)
      BY <1>3, <1>5, <1>6, <1>7, <1>8, <1>10, <2>1, <2>5 DEF FollowerOK
    <2>8. QED
      BY <2>6, <2>7
  <1>14. CASE /\ UNCHANGED <<pos, buf>> /\ Goto(f, "scan")
              /\ scanErr' = [scanErr EXCEPT ![f] = "read"]
    <2> DEFINE v == SoFar(content, offset[f], pos[f])
    <2>1. pc'[f] = "scan" /\ scanErr'[f] = "read" /\ Taken(f)' = n
      BY <1>3, <1>14 DEF Goto, Taken, StreamTypes, TypeOK
    <2>2. Seen(f)' = v /\ Over(f)' = TRUE
      BY <1>3, <1>14, <2>1 DEF Seen, Over, SoFar
    <2>3. /\ n \in Nat /\ n + Len(b) <= Len(w) /\ n + Len(b) = pos[f] - offset[f]
          /\ \A i \in 1..Len(b) : b[i] = w[n + i]
      <3>1. n \in Nat /\ n + Len(b) <= Len(w) /\ \A i \in 1..Len(b) : b[i] = w[n + i]
        BY <1>5 DEF Position
      <3>2. n + Len(b) = pos[f] - offset[f]
        BY <1>2, <1>5 DEF Taken
      <3>3. QED
        BY <3>1, <3>2
    <2>4. /\ v \in Seq(Bytes) /\ Len(v) = pos[f] - offset[f]
          /\ \A i \in 1..pos[f] - offset[f] : v[i] = content[offset[f] + i]
      <3>1. pos[f] <= offset[f] \/ pos[f] <= Len(content)
        BY DEF Placed, PlacedAt
      <3>2. offset[f] <= pos[f]
        BY <1>2, <1>5, <2>3
      <3>3. /\ SoFar(content, offset[f], pos[f]) \in Seq(Bytes)
            /\ offset[f] <= pos[f] =>
                  /\ Len(SoFar(content, offset[f], pos[f])) = pos[f] - offset[f]
                  /\ \A i \in 1..pos[f] - offset[f] :
                        SoFar(content, offset[f], pos[f])[i] = content[offset[f] + i]
        <4>1. content \in Seq(Bytes) /\ offset[f] \in Nat /\ pos[f] \in Nat
          BY <1>2, <1>5
        <4>2. QED
          BY <3>1, <4>1, SoFarFacts
      <3>4. QED
        BY <3>2, <3>3
    <2>5. Len(v) <= Len(w) /\ \A i \in 1..Len(v) : v[i] = w[i]
      <3>1. CASE offset[f] \in 0..Len(content)
        <4>1. Len(w) = Len(content) - offset[f] /\ \A i \in 1..Len(content) - offset[f] : w[i] = content[offset[f] + i]
          BY <1>2, <3>1, PartFacts DEF w
        <4>2. \A i \in 1..pos[f] - offset[f] : i \in 1..Len(content) - offset[f]
          BY <1>2, <1>5, <2>3, <4>1
        <4>3. QED
          BY <2>3, <2>4, <4>1, <4>2
      <3>2. CASE offset[f] \notin 0..Len(content)
        <4>1. Len(w) = 0
          BY <1>2, <3>2, PartFacts DEF w
        <4>2. pos[f] - offset[f] = 0
          BY <1>2, <1>5, <2>3, <4>1
        <4>3. QED
          BY <2>4, <4>1, <4>2
      <3>3. QED
        BY <3>1, <3>2
    <2> HIDE DEF v
    <2>6. /\ Position(v, n, b, "read", TRUE) /\ Due(v, n, b, "read", sent[f] \o <<>>)
      <3>6. n + Len(b) = Len(v) /\ n \in Nat /\ Len(b) \in Nat /\ Len(v) \in Nat
        BY <1>2, <2>3, <2>4
      <3> HIDE DEF n
      <3>1. n + Len(b) = Len(v) /\ n \in 0..Len(v) /\ \A i \in 1..Len(b) : n + i \in 1..Len(v)
        BY <3>6
      <3>2. Position(v, n, b, "read", TRUE)
        BY <2>3, <2>5, <3>1 DEF Position
      <3>3. \A k \in 0..Len(v) : Split(w)[k] = Split(v)[k]
        BY <1>2, <2>4, <2>5, SplitExtends DEF w
      <3>4. Split(w)[n].line = <<>> /\ sent[f] \o <<>> = Split(w)[n].out
        BY <1>5 DEF Due, Final
      <3>5. QED
        BY <3>1, <3>2, <3>3, <3>4 DEF Due
    <2>7. Safe(v, TRUE, sent[f])
      <3>1. <<>> \in Seq(Bytes)
        OBVIOUS
      <3>2. QED
        BY <1>2, <2>4, <2>6, <3>1, DueIsSafe
    <2>8. PlaceOK(v, n, "scan", offset[f], ctxDone[f], b, "read", token[f], sent[f], TRUE)
      BY <1>5, <1>8, <2>6, <2>7 DEF PlaceOK
    <2>9. FollowerOK(f)' = PlaceOK(v, n, "scan", offset[f], ctxDone[f], b, "read", token[f], sent[f], TRUE)
      BY <1>3, <1>14, <2>1, <2>2 DEF FollowerOK
    <2>10. QED
      BY <2>8, <2>9
  <1>11. CASE UNCHANGED <<pos, buf, scanErr>> /\ Goto(f, "waiting")
    <2>1. pc'[f] = "waiting" /\ Taken(f)' = n
      BY <1>3, <1>11 DEF Goto, Taken, StreamTypes, TypeOK
    <2>2. PlaceOK(w, n, "waiting", offset[f], ctxDone[f], b, "none", token[f], sent[f], stop)
      BY <1>3, <1>5, <1>6, <1>7, <1>8, <1>11, <2>1 DEF PlaceOK
    <2>3. FollowerOK(f)' = PlaceOK(w, n, "waiting", offset[f], ctxDone[f], b, "none", token[f], sent[f], stop)
      BY <1>3, <1>5, <1>6, <1>7, <1>8, <1>11, <2>1 DEF FollowerOK
    <2>4. QED
      BY <2>2, <2>3
  <1>12. ASSUME NEW m \in 1..(MaxToken - Len(buf[f])), pos[f] + m <= Len(content),
                buf' = [buf EXCEPT ![f] = @ \o SubSeq(content, pos[f] + 1, pos[f] + m)],
                pos' = [pos EXCEPT ![f] = @ + m], Goto(f, "scan"), UNCHANGED scanErr
         PROVE  FollowerOK(f)'
    <2> DEFINE d == b \o SubSeq(content, pos[f] + 1, pos[f] + m)
    <2>1. pc'[f] = "scan" /\ buf'[f] = d /\ pos'[f] = pos[f] + m
      BY <1>12 DEF Goto, StreamTypes, TypeOK, Buffers
    <2>2. m \in Nat \ {0}
      BY <1>2, StreamerAssumption
    <2>3. Len(d) = Len(b) + m /\ Position(w, n, d, "none", stop)
      <3>1. Position(Part(content, offset[f]), pos[f] - Len(b) - offset[f], b, "none", stop)
        BY <1>2, <1>5 DEF w, Taken
      <3>2. /\ Len(d) = Len(b) + m
            /\ Position(Part(content, offset[f]), pos[f] - Len(b) - offset[f], d, "none", stop)
        BY <1>2, <1>5, <1>12, <2>2, <3>1, BufferGrows
      <3>3. QED
        BY <1>2, <3>2 DEF w, Taken
    <2> HIDE DEF d
    <2>4. Taken(f)' = n
      <3>1. Taken(f)' = pos[f] + m - (Len(b) + m) - offset[f]
        <4>1. Len(buf'[f]) = Len(b) + m
          BY <2>1, <2>3
        <4>2. pos'[f] = pos[f] + m /\ offset'[f] = offset[f]
          BY <1>3, <2>1
        <4>3. QED
          BY <1>2, <1>5, <2>2, <4>1, <4>2 DEF Taken
      <3>2. QED
        BY <1>2, <1>5, <2>2, <3>1 DEF Taken
    <2>5. PlaceOK(w, n, "scan", offset[f], ctxDone[f], d, "none", token[f], sent[f], stop)
      BY <1>3, <1>5, <1>6, <1>7, <1>8, <1>12, <2>1, <2>3, <2>4 DEF PlaceOK
    <2>6. FollowerOK(f)' = PlaceOK(w, n, "scan", offset[f], ctxDone[f], d, "none", token[f], sent[f], stop)
      BY <1>3, <1>5, <1>6, <1>7, <1>8, <1>12, <2>1, <2>3, <2>4 DEF FollowerOK
    <2>7. QED
      BY <2>5, <2>6
  <1>13. QED
    BY <1>9, <1>10, <1>11, <1>12, <1>14 DEF Read

\* The scanner between two reads.
LEMMA ScanOK ==
    ASSUME StreamTypes, Placed, FollowersOK, NEW f \in Followers, Scan(f)
    PROVE  FollowersOK'
  <1>1. FollowerOK(f) /\ pc[f] = "scan"
    BY DEF FollowersOK, Scan
  <1>2. /\ Seen(f) \in Seq(Bytes) /\ buf[f] \in Seq(Bytes) /\ sent[f] \in Seq(Bytes)
        /\ Len(buf[f]) \in Nat /\ pos[f] \in Nat
    BY FollowerBytes
  <1>3. UNCHANGED <<content, dir, stop, file, offset, ctxDone, pos, scanErr, sent>>
    BY DEF Scan, streamVars
  <1>4. ASSUME NEW g \in Followers \ {f} PROVE FollowerOK(g)'
    <2>1. token'[g] = token[g] /\ buf'[g] = buf[g] /\ pc'[g] = pc[g]
      BY DEF Scan, Goto, StreamTypes, TypeOK, Buffers
    <2>2. FollowerOK(g) /\ Same(g)
      BY <1>3, <2>1 DEF Same, FollowersOK
    <2>3. QED
      BY <1>3, <2>2, OthersOK
  <1> SUFFICES FollowerOK(f)'
    BY <1>4 DEF FollowersOK
  <1> DEFINE w == Seen(f)
             n == Taken(f)
             b == buf[f]
             e == scanErr[f]
             s == sent[f]
             q == Over(f)
  <1>5. /\ offset[f] \in Nat /\ Safe(w, q, s) /\ Position(w, n, b, e, q)
        /\ Due(w, n, b, e, s) /\ (e = "ctx" => ctxDone[f])
    <2>1. s \o <<>> = s
      BY <1>2
    <2>2. QED
      BY <1>1, <2>1 DEF FollowerOK, PlaceOK, Owed
  <1>6. Seen(f)' = w /\ s \o <<>> = s /\ Over(f)' = q
    BY <1>2, <1>3 DEF Seen, Wanted, Over
  <1> HIDE DEF w, q
  <1>7. CASE /\ Contains(b, NL) /\ Goto(f, "check")
             /\ token' = [token EXCEPT ![f] = DropCR(FirstLine(b))]
             /\ buf' = [buf EXCEPT ![f] = SubSeq(b, EndOfLine(b) + 1, Len(b))]
    <2> DEFINE k == EndOfLine(b)
               r == SubSeq(b, k + 1, Len(b))
               t == DropCR(FirstLine(b))
    <2>1. pc'[f] = "check" /\ token'[f] = t /\ buf'[f] = r
      BY <1>7 DEF Goto, StreamTypes, TypeOK, Buffers
    <2>2. /\ k \in 1..Len(b) /\ Len(r) = Len(b) - k
          /\ Position(w, n + k, r, e, q) /\ Due(w, n + k, r, e, s \o LineSent(FirstLine(b)))
      BY <1>2, <1>5, <1>7, LineIsDue DEF w
    <2> HIDE DEF k, r
    <2>3. Taken(f)' = n + k
      <3>1. Taken(f)' = pos[f] - (Len(b) - k) - offset[f]
        BY <1>3, <2>1, <2>2 DEF Taken
      <3>2. QED
        BY <1>2, <1>5, <2>2, <3>1 DEF Taken
    <2>4. Due(w, n + k, r, e, s \o Owed("check", t))
      BY <2>2, OwedLine
    <2> HIDE DEF t
    <2>5. PlaceOK(w, n + k, "check", offset[f], ctxDone[f], r, e, t, sent[f], q)
      BY <1>3, <1>5, <1>6, <2>1, <2>2, <2>3, <2>4 DEF PlaceOK
    <2>6. FollowerOK(f)' = PlaceOK(w, n + k, "check", offset[f], ctxDone[f], r, e, t, sent[f], q)
      BY <1>3, <1>5, <1>6, <2>1, <2>2, <2>3, <2>4 DEF FollowerOK
    <2>7. QED
      BY <2>5, <2>6
  <1>8. CASE /\ ~Contains(b, NL) /\ e # "none" /\ b # <<>> /\ Goto(f, "check")
             /\ token' = [token EXCEPT ![f] = DropCR(b)]
             /\ buf' = [buf EXCEPT ![f] = <<>>]
    <2> DEFINE t == DropCR(b)
    <2>1. pc'[f] = "check" /\ token'[f] = t /\ buf'[f] = <<>>
      BY <1>8 DEF Goto, StreamTypes, TypeOK, Buffers
    <2>2. /\ Position(w, n + Len(b), <<>>, e, q)
          /\ e \in Final => Due(w, n + Len(b), <<>>, e, s \o LineSent(b))
      BY <1>2, <1>5, <1>8, RestIsDue DEF w
    <2>3. Taken(f)' = n + Len(b)
      <3>1. Taken(f)' = pos[f] - 0 - offset[f]
        BY <1>3, <2>1 DEF Taken
      <3>2. QED
        BY <1>2, <1>5, <3>1 DEF Taken
    <2>4. e \in Final => Due(w, n + Len(b), <<>>, e, s \o Owed("check", t))
      BY <2>2, OwedLine
    <2>5. e \in Final \/ e = "ctx"
      BY <1>8 DEF StreamTypes, TypeOK, Final
    <2> HIDE DEF t
    <2>6. PlaceOK(w, n + Len(b), "check", offset[f], ctxDone[f], <<>>, e, t, sent[f], q)
      BY <1>3, <1>5, <1>6, <2>1, <2>2, <2>3, <2>4, <2>5 DEF PlaceOK
    <2>7. FollowerOK(f)' = PlaceOK(w, n + Len(b), "check", offset[f], ctxDone[f], <<>>, e, t, sent[f], q)
      BY <1>3, <1>5, <1>6, <2>1, <2>2, <2>3, <2>4, <2>5 DEF FollowerOK
    <2>8. QED
      BY <2>6, <2>7
  <1>9. ASSUME UNCHANGED <<token, buf>>, NEW to \in {"read", "ok", "failed"}, Goto(f, to),
               to = "read" => e = "none", to = "ok" => e = "EOF" /\ b = <<>>
        PROVE  FollowerOK(f)'
    <2>1. pc'[f] = to /\ Taken(f)' = n
      BY <1>3, <1>9 DEF Goto, Taken, StreamTypes, TypeOK
    <2>2. Owed(to, token[f]) = <<>>
      BY DEF Owed
    <2>3. PlaceOK(w, n, to, offset[f], ctxDone[f], b, e, token[f], sent[f], q)
      BY <1>3, <1>5, <1>6, <1>9, <2>1, <2>2 DEF PlaceOK
    <2>4. FollowerOK(f)' = PlaceOK(w, n, to, offset[f], ctxDone[f], b, e, token[f], sent[f], q)
      BY <1>3, <1>5, <1>6, <1>9, <2>1, <2>2 DEF FollowerOK
    <2>5. QED
      BY <2>3, <2>4
  <1>10. QED
    BY <1>7, <1>8, <1>9 DEF Scan

\* The bytes of a line are sent before its newline.
LEMMA SendFacts ==
    ASSUME NEW s \in Seq(Bytes), NEW t \in Seq(Bytes)
    PROVE  /\ (s \o t) \o <<NL>> = s \o Append(t, NL)
           /\ Append(s, NL) \o <<>> = s \o <<NL>>
           /\ s \o t \in Seq(Bytes) /\ Append(s, NL) \in Seq(Bytes) /\ <<NL>> \in Seq(Bytes)
           /\ <<>> \in Seq(Bytes)
  <1>1. NL \in Bytes
    BY DEF Bytes
  <1>2. (s \o t) \o <<NL>> = s \o Append(t, NL)
    <2> DEFINE x == (s \o t) \o <<NL>>
               y == s \o Append(t, NL)
    <2>1. /\ x \in Seq(Bytes) /\ Len(x) = Len(s) + Len(t) + 1
          /\ \A i \in 1..Len(s) : x[i] = s[i]
          /\ \A i \in 1..Len(t) : x[Len(s) + i] = t[i]
          /\ x[Len(s) + Len(t) + 1] = NL
      BY <1>1
    <2>2. /\ y \in Seq(Bytes) /\ Len(y) = Len(s) + Len(t) + 1
          /\ \A i \in 1..Len(s) : y[i] = s[i]
          /\ \A i \in 1..Len(t) : y[Len(s) + i] = t[i]
          /\ y[Len(s) + Len(t) + 1] = NL
      BY <1>1
    <2> HIDE DEF x, y
    <2>3. ASSUME NEW i \in 1..Len(x) PROVE x[i] = y[i]
      <3>1. Len(s) \in Nat /\ Len(t) \in Nat
        OBVIOUS
      <3>2. \/ i \in 1..Len(s) \/ i = Len(s) + Len(t) + 1
            \/ i - Len(s) \in 1..Len(t) /\ i = Len(s) + (i - Len(s))
        <4> DEFINE m == Len(s)
                   n == Len(t)
        <4>1. i \in 1..m + n + 1 /\ m \in Nat /\ n \in Nat
          BY <2>1, <3>1
        <4> HIDE DEF m, n
        <4>2. i \in 1..m \/ i = m + n + 1 \/ (i - m \in 1..n /\ i = m + (i - m))
          BY <4>1
        <4>3. QED
          BY <4>2 DEF m, n
      <3>3. CASE i \in 1..Len(s)
        BY <2>1, <2>2, <3>3
      <3>4. CASE i = Len(s) + Len(t) + 1
        BY <2>1, <2>2, <3>4
      <3>5. CASE i - Len(s) \in 1..Len(t) /\ i = Len(s) + (i - Len(s))
        <4>1. /\ x[Len(s) + (i - Len(s))] = t[i - Len(s)]
              /\ y[Len(s) + (i - Len(s))] = t[i - Len(s)]
          BY <2>1, <2>2, <3>5
        <4>2. QED
          BY <3>5, <4>1
      <3>6. QED
        BY <3>2, <3>3, <3>4, <3>5
    <2>4. x = y
      BY <2>1, <2>2, <2>3
    <2>5. QED
      BY <2>4 DEF x, y
  <1>3. Append(s, NL) \o <<>> = s \o <<NL>>
    BY <1>1
  <1>4. /\ s \o t \in Seq(Bytes) /\ Append(s, NL) \in Seq(Bytes) /\ <<NL>> \in Seq(Bytes)
        /\ <<>> \in Seq(Bytes)
    BY <1>1
  <1>5. QED
    BY <1>2, <1>3, <1>4, Zenon

\* The offset is sought, and nothing is sent.
LEMMA OpenOK ==
    ASSUME StreamTypes, Placed, FollowersOK, NEW f \in Followers, NEW o \in Offsets, Open(f, o)
    PROVE  FollowersOK'
  <1>1. FollowerOK(f) /\ pc[f] = "call"
    BY DEF FollowersOK, Open
  <1>2. UNCHANGED <<content, dir, stop, file, ctxDone, buf, scanErr, token, sent>>
    BY DEF Open, streamVars
  <1>3. ASSUME NEW g \in Followers \ {f} PROVE FollowerOK(g)'
    <2>1. offset'[g] = offset[g] /\ pos'[g] = pos[g] /\ pc'[g] = pc[g]
      BY DEF Open, Goto, StreamTypes, TypeOK
    <2>2. FollowerOK(g) /\ Same(g)
      BY <1>2, <2>1 DEF Same, FollowersOK
    <2>3. QED
      BY <1>2, <2>2, OthersOK
  <1> SUFFICES FollowerOK(f)'
    BY <1>3 DEF FollowersOK
  <1> DEFINE w == Part(content, o)
  <1>4. sent[f] = <<>> /\ buf[f] = <<>> /\ scanErr[f] = "none"
    BY <1>1 DEF FollowerOK, PlaceOK
  <1>5. w \in Seq(Bytes) /\ Len(w) \in Nat /\ 0 \in 0..Len(w) /\ Len(w) \in 0..Len(w)
    <2>1. content \in Seq(Bytes)
      BY FollowerBytes
    <2>2. w \in Seq(Bytes)
      BY <2>1, PartFacts
    <2> HIDE DEF w
    <2>3. QED
      BY <2>2
  <1>6. offset'[f] = o /\ Seen(f)' = w /\ Over(f)' = stop
    <2>1. offset'[f] = o
      BY DEF Open, StreamTypes, TypeOK
    <2>2. QED
      BY <1>2, <1>4, <2>1 DEF Seen, Over, Wanted, Part
  <1> HIDE DEF w
  <1>7. Safe(w, stop, <<>>)
    <2>1. Split(w)[Len(w)].out \in Seq(Bytes)
      BY <1>5, SplitFacts DEF Splits
    <2>2. QED
      BY <2>1, PrefixFacts DEF Safe
  <1>8. CASE pc'[f] = "failed"
    <2> DEFINE n == Taken(f)'
    <2> HIDE DEF n
    <2>1. PlaceOK(w, n, "failed", o, ctxDone[f], buf[f], scanErr[f], token[f], sent[f], stop)
      BY <1>4, <1>7 DEF PlaceOK
    <2>2. QED
      BY <1>2, <1>6, <1>8, <2>1 DEF FollowerOK, n
  <1>9. CASE pc'[f] = "scan" /\ pos'[f] = o /\ o >= 0
    <2>1. o \in Nat
      BY <1>9, StreamerAssumption
    <2>2. Taken(f)' = 0
      <3>1. buf'[f] = <<>> /\ Len(<<>>) = 0
        BY <1>2, <1>4
      <3>2. QED
        BY <1>6, <1>9, <2>1, <3>1 DEF Taken
    <2>3. Position(w, 0, <<>>, "none", stop)
      <3>1. Len(<<>>) = 0
        OBVIOUS
      <3>2. QED
        BY <1>5, <3>1 DEF Position, Final
    <2>4. Owed("scan", token[f]) = <<>> /\ <<>> \o <<>> = <<>>
      BY DEF Owed
    <2>5. Due(w, 0, <<>>, "none", <<>>)
      <3>1. Split(w)[0] = [out |-> <<>>, line |-> <<>>]
        BY <1>5, SplitFacts
      <3>2. QED
        BY <3>1 DEF Due
    <2>6. PlaceOK(w, 0, "scan", o, ctxDone[f], <<>>, "none", token[f], <<>>, stop)
      BY <1>7, <2>1, <2>3, <2>4, <2>5 DEF PlaceOK
    <2>7. QED
      BY <1>2, <1>4, <1>6, <1>9, <2>2, <2>6 DEF FollowerOK
  <1>10. QED
    BY <1>8, <1>9 DEF Open, Goto, StreamTypes, TypeOK

\* The loop over the lines, its writes, and the caller that gives up.
LEMMA SendOK ==
    ASSUME StreamTypes, Placed, FollowersOK, NEW f \in Followers,
           CancelContext(f) \/ Check(f) \/ SendData(f) \/ SendNewline(f)
    PROVE  FollowersOK'
  <1>1. FollowerOK(f)
    BY DEF FollowersOK
  <1>2. UNCHANGED <<content, dir, stop, file, offset, pos, buf, scanErr, token>>
    BY DEF CancelContext, Check, SendData, SendNewline, streamVars, scanVars
  <1>3. ASSUME NEW g \in Followers \ {f} PROVE FollowerOK(g)'
    <2>1. sent'[g] = sent[g] /\ ctxDone'[g] = ctxDone[g] /\ pc'[g] = pc[g]
      BY DEF CancelContext, Check, SendData, SendNewline, Goto, StreamTypes, TypeOK, Buffers
    <2>2. FollowerOK(g) /\ Same(g)
      BY <1>2, <2>1 DEF Same, FollowersOK
    <2>3. QED
      BY <1>2, <2>2, OthersOK
  <1> SUFFICES FollowerOK(f)'
    BY <1>3 DEF FollowersOK
  <1> DEFINE w == Seen(f)
             n == Taken(f)
             b == buf[f]
             e == scanErr[f]
             t == token[f]
             s == sent[f]
             q == Over(f)
  <1>4. w \in Seq(Bytes) /\ b \in Seq(Bytes) /\ t \in Seq(Bytes) /\ s \in Seq(Bytes)
    BY FollowerBytes
  <1>5. Seen(f)' = w /\ Taken(f)' = n /\ Over(f)' = q
    BY <1>2 DEF Seen, Over, Wanted, Taken
  <1>6. PlaceOK(w, n, pc[f], offset[f], ctxDone[f], b, e, t, s, q)
    BY <1>1 DEF FollowerOK
  <1> HIDE DEF w, n, q
  <1>7. CASE CancelContext(f)
    <2>1. ctxDone'[f] = TRUE /\ UNCHANGED <<pc, sent>>
      BY <1>7 DEF CancelContext, StreamTypes, TypeOK
    <2>2. PlaceOK(w, n, pc[f], offset[f], TRUE, b, e, t, s, q)
      BY <1>6 DEF PlaceOK
    <2>3. QED
      BY <1>2, <1>5, <2>1, <2>2 DEF FollowerOK
  <1>8. CASE pc'[f] = "failed" /\ UNCHANGED <<ctxDone, sent>>
    <2>1. PlaceOK(w, n, "failed", offset[f], ctxDone[f], b, e, t, s, q)
      BY <1>6 DEF PlaceOK
    <2>2. QED
      BY <1>2, <1>5, <1>8, <2>1 DEF FollowerOK
  <1>9. ASSUME NEW to \in {"scan", "data"}, pc[f] = "check", pc'[f] = to, ~ctxDone[f],
               UNCHANGED <<ctxDone, sent>>, to = "scan" <=> t = <<>>
        PROVE  FollowerOK(f)'
    <2>1. Owed(to, t) = Owed("check", t)
      BY <1>9 DEF Owed
    <2>2. /\ offset[f] \in Nat /\ Position(w, n, b, e, q) /\ e # "ctx" /\ Safe(w, q, s)
          /\ Due(w, n, b, e, s \o Owed("check", t))
      BY <1>6, <1>9 DEF PlaceOK
    <2>3. PlaceOK(w, n, to, offset[f], ctxDone[f], b, e, t, s, q)
      BY <1>9, <2>1, <2>2 DEF PlaceOK
    <2>4. QED
      BY <1>2, <1>5, <1>9, <2>3 DEF FollowerOK
  <1>10. ASSUME NEW to \in {"scan", "newline"}, NEW from \in {"data", "newline"}, NEW more \in Seq(Bytes),
                pc[f] = from, pc'[f] = to, UNCHANGED ctxDone, sent'[f] = more,
                more \o Owed(to, t) = s \o Owed(from, t)
         PROVE  FollowerOK(f)'
    <2>1. /\ offset[f] \in Nat /\ Position(w, n, b, e, q)
          /\ Due(w, n, b, e, s \o Owed(from, t)) /\ (e = "ctx" => ctxDone[f])
      BY <1>6, <1>10 DEF PlaceOK
    <2>2. Owed(to, t) \in Seq(Bytes)
      BY FollowerBytes
    <2>3. Safe(w, q, more)
      BY <1>4, <1>10, <2>1, <2>2, DueIsSafe
    <2>4. PlaceOK(w, n, to, offset[f], ctxDone[f], b, e, t, more, q)
      BY <1>10, <2>1, <2>3 DEF PlaceOK
    <2>5. QED
      BY <1>2, <1>5, <1>10, <2>4 DEF FollowerOK
  <1>11. CASE Check(f)
    BY <1>8, <1>9, <1>11 DEF Check, Cancelled, Goto, StreamTypes, TypeOK
  <1>12. CASE SendData(f)
    <2>1. CASE Goto(f, "failed") /\ UNCHANGED sent
      BY <1>8, <1>12, <2>1 DEF SendData, Goto, StreamTypes, TypeOK
    <2>2. CASE Goto(f, "newline") /\ sent' = [sent EXCEPT ![f] = @ \o token[f]]
      <3>1. /\ pc[f] = "data" /\ pc'[f] = "newline" /\ UNCHANGED ctxDone
            /\ sent'[f] = s \o t
        BY <1>12, <2>2 DEF SendData, Goto, StreamTypes, TypeOK, Buffers
      <3>2. s \o t \in Seq(Bytes) /\ (s \o t) \o Owed("newline", t) = s \o Owed("data", t)
        BY <1>4, SendFacts DEF Owed
      <3>3. QED
        BY <1>10, <3>1, <3>2
    <2>3. QED
      BY <1>12, <2>1, <2>2 DEF SendData
  <1>13. CASE SendNewline(f)
    <2>1. CASE Goto(f, "failed") /\ UNCHANGED sent
      BY <1>8, <1>13, <2>1 DEF SendNewline, Goto, StreamTypes, TypeOK
    <2>2. CASE Goto(f, "scan") /\ sent' = [sent EXCEPT ![f] = Append(@, NL)]
      <3>1. /\ pc[f] = "newline" /\ pc'[f] = "scan" /\ UNCHANGED ctxDone
            /\ sent'[f] = Append(s, NL)
        BY <1>13, <2>2 DEF SendNewline, Goto, StreamTypes, TypeOK, Buffers
      <3>2. Append(s, NL) \in Seq(Bytes) /\ Append(s, NL) \o Owed("scan", t) = s \o Owed("newline", t)
        BY <1>4, SendFacts DEF Owed
      <3>3. QED
        BY <1>10, <3>1, <3>2
    <2>3. QED
      BY <1>13, <2>1, <2>2 DEF SendNewline
  <1>14. QED
    BY <1>7, <1>11, <1>12, <1>13

\* Where the followers are in the file.
LEMMA PlacedStays ==
    ASSUME StreamTypes, Placed, Next PROVE Placed'
  <1> SUFFICES ASSUME NEW f \in Followers
               PROVE  PlacedAt(f)'
    BY DEF Placed
  <1>1. /\ content \in Seq(Bytes) /\ Len(content) \in Nat /\ pos[f] \in Nat /\ offset[f] \in Int
        /\ PlacedAt(f) /\ pc[f] \in Places
    <2>1. offset[f] \in Int /\ PlacedAt(f)
      BY OffsetFacts
    <2>2. content \in Seq(Bytes) /\ pos[f] \in Nat /\ pc[f] \in Places
      BY DEF StreamTypes, TypeOK
    <2>3. QED
      BY <2>1, <2>2
  <1>2. CASE \/ \E p \in Payloads : Write(p)
             \/ Stop \/ CloseFile \/ RemoveDir
    <2>1. UNCHANGED <<offset, pos, scanErr>>
      BY <1>2 DEF Write, Stop, CloseFile, RemoveDir, scanVars
    <2>2. Len(content') >= Len(content) /\ Len(content') \in Nat
      <3>1. content' = content \/ \E p \in Seq(Bytes) : content' = content \o p
        BY <1>2, PayloadsAreBytes DEF Write, Stop, CloseFile, RemoveDir
      <3>2. \A p \in Seq(Bytes) : Len(content \o p) = Len(content) + Len(p) /\ Len(p) \in Nat
        BY <1>1, ConcatFacts
      <3>3. QED
        BY <1>1, <3>1, <3>2
    <2>3. (pc[f] = "failed" => pc'[f] = "failed") /\ (pc'[f] = "call" => pc[f] = "call")
      BY <1>2 DEF Write, Stop, CloseFile, RemoveDir, Broadcast
    <2>4. QED
      BY <1>1, <2>1, <2>2, <2>3 DEF PlacedAt
  <1>3. ASSUME NEW g \in Followers, NEW o \in Offsets, Open(g, o)
        PROVE  PlacedAt(f)'
    <2>1. CASE f # g
      BY <1>1, <1>3, <2>1 DEF Open, Goto, StreamTypes, TypeOK, streamVars, PlacedAt
    <2>2. CASE f = g
      <3>1. offset'[f] = o /\ o \in Int /\ UNCHANGED <<content, scanErr>>
        BY <1>3, <2>2, StreamerAssumption DEF Open, StreamTypes, TypeOK, streamVars
      <3>3. scanErr[f] = "none" /\ pos[f] = 0
        BY <1>1, <1>3, <2>2 DEF Open, PlacedAt
      <3>4. QED
        BY <1>1, <1>3, <2>2, <3>1, <3>3 DEF Open, Goto, StreamTypes, TypeOK, PlacedAt
    <2>3. QED
      BY <2>1, <2>2
  <1>4. ASSUME NEW g \in Followers, Read(g)
        PROVE  PlacedAt(f)'
    <2>1. UNCHANGED <<content, offset>> /\ pc[g] = "read"
      BY <1>4 DEF Read, streamVars
    <2>2. f # g => pos'[f] = pos[f] /\ pc'[f] = pc[f] /\ scanErr'[f] = scanErr[f]
      BY <1>4 DEF Read, Goto, StreamTypes, TypeOK
    <2>3. f = g => /\ pos'[f] = pos[f] \/ pos'[f] <= Len(content)
                   /\ pc'[f] # "call"
      BY <1>4 DEF Read, Goto, StreamTypes, TypeOK
    <2>4. QED
      BY <1>1, <2>1, <2>2, <2>3 DEF PlacedAt
  <1>5. ASSUME NEW g \in Followers,
               CancelContext(g) \/ Scan(g) \/ Check(g) \/ SendData(g) \/ SendNewline(g)
        PROVE  PlacedAt(f)'
    <2>1. UNCHANGED <<content, offset, pos, scanErr>>
      BY <1>5 DEF CancelContext, Scan, Check, SendData, SendNewline, streamVars, scanVars
    <2>2. (pc[f] = "failed" => pc'[f] = "failed") /\ (pc'[f] = "call" => pc[f] = "call")
      BY <1>5 DEF CancelContext, Scan, Check, SendData, SendNewline, Goto, StreamTypes, TypeOK
    <2>3. QED
      BY <1>1, <2>1, <2>2 DEF PlacedAt
  <1>6. QED
    BY <1>2, <1>3, <1>4, <1>5 DEF Next, FollowStep

StreamInv == StreamTypes /\ Placed /\ FollowersOK

\* The followers stay right, with any number of them, any payloads, offsets and buffer size.
LEMMA StreamInvariant ==
    ASSUME StreamInv, [Next]_vars PROVE StreamInv'
<1>1. CASE UNCHANGED vars
  <2>1. StreamTypes' /\ Placed'
    BY <1>1 DEF StreamInv, StreamTypes, TypeOK, Buffers, Placed, PlacedAt, vars, streamVars, scanVars
  <2>2. \A f \in Followers : FollowerOK(f) /\ UNCHANGED <<content, stop>> /\ Same(f)
    BY <1>1 DEF StreamInv, FollowersOK, Same, vars, streamVars, scanVars
  <2>3. QED
    BY <2>1, <2>2, OthersOK DEF StreamInv, FollowersOK
<1>2. CASE Next
  <2>1. StreamTypes'
    BY <1>2, WriterTypes, ReadTypes, ScanTypes, FollowerTypes DEF StreamInv, Next, FollowStep
  <2>2. FollowersOK'
    BY <1>2, WriterOK, ReadOK, ScanOK, OpenOK, SendOK DEF StreamInv, Next, FollowStep
  <2>4. Placed'
    BY <1>2, PlacedStays DEF StreamInv
  <2>3. QED
    BY <2>1, <2>2, <2>4 DEF StreamInv
<1>3. QED
  BY <1>1, <1>2

\* At first nobody follows.
LEMMA StreamInitially == Init => StreamInv
  <1> SUFFICES ASSUME Init PROVE StreamInv
    OBVIOUS
  <1>1. StreamTypes
    BY TypesInitially
  <1>4. Placed
    BY DEF Init, Placed, PlacedAt
  <1>2. ASSUME NEW f \in Followers PROVE FollowerOK(f)
    <2>1. Seen(f) \in Seq(Bytes)
      BY <1>1, <1>4, FollowerBytes
    <2>2. Split(Seen(f))[Len(Seen(f))].out \in Seq(Bytes)
      BY <2>1, SplitFacts DEF Splits
    <2>3. Safe(Seen(f), Over(f), <<>>)
      BY <2>2, PrefixFacts DEF Safe
    <2>4. pc[f] = "call" /\ sent[f] = <<>> /\ buf[f] = <<>> /\ scanErr[f] = "none"
      BY DEF Init
    <2>5. QED
      BY <2>3, <2>4 DEF FollowerOK, PlaceOK
  <1>3. QED
    BY <1>1, <1>2, <1>4 DEF StreamInv, FollowersOK

\* Whatever is written, in whatever pieces it is written and read, a follower sends the
\* lines of the file from its offset on, in order: none twice, none torn, none left out in
\* between, and up to the bytes before a failed read if there was one (file.go Follow,
\* bufio.ScanLines).
THEOREM StreamerSendsInOrder == Spec => []SendsInOrder
<1>1. StreamInv => SendsInOrder
  <2> SUFFICES ASSUME StreamInv, NEW f \in Followers
               PROVE  IsPrefix(sent[f], Render(Seen(f)))
    BY DEF SendsInOrder
  <2> DEFINE w == Seen(f)
  <2>1. w \in Seq(Bytes) /\ sent[f] \in Seq(Bytes) /\ Safe(w, Over(f), sent[f])
    BY FollowerBytes DEF StreamInv, FollowersOK, FollowerOK, PlaceOK
  <2> HIDE DEF w
  <2>2. Split(w)[Len(w)].out \in Seq(Bytes) /\ LineSent(Split(w)[Len(w)].line) \in Seq(Bytes)
    <3>1. Len(w) \in 0..Len(w)
      BY <2>1
    <3>2. QED
      BY <2>1, <3>1, SplitFacts, LineSentBytes DEF Splits
  <2>3. IsPrefix(Split(w)[Len(w)].out, Render(w)) /\ Render(w) \in Seq(Bytes)
    BY <2>2, PrefixFacts DEF Render
  <2>4. IsPrefix(sent[f], Render(w))
    BY <2>1, <2>2, <2>3, PrefixFacts DEF Safe
  <2>5. QED
    BY <2>4 DEF w
<1>2. StreamInv /\ [Next]_vars => StreamInv'
  BY StreamInvariant
<1>3. QED
  BY <1>1, <1>2, StreamInitially, PTL DEF Spec

\* A Follow that ends without an error has sent every line that was written before the
\* stream was stopped, the last one, without a newline, too (file.go Follow).
THEOREM StreamerCompleteOnSuccess == Spec => []CompleteOnSuccess
<1>1. StreamInv => CompleteOnSuccess
  <2> SUFFICES ASSUME StreamInv, NEW f \in Followers, pc[f] = "ok"
               PROVE  stop /\ sent[f] = Render(Wanted(f))
    BY DEF CompleteOnSuccess
  <2>1. /\ buf[f] = <<>> /\ scanErr[f] = "EOF"
        /\ Position(Wanted(f), Taken(f), <<>>, "EOF", stop)
        /\ Due(Wanted(f), Taken(f), <<>>, "EOF", sent[f] \o <<>>)
    BY DEF StreamInv, FollowersOK, FollowerOK, PlaceOK, Owed, Seen, Over
  <2>2. Wanted(f) \in Seq(Bytes) /\ sent[f] \in Seq(Bytes)
    BY FollowerBytes DEF StreamInv
  <2>3. sent[f] \o <<>> = sent[f]
    BY <2>2
  <2>4. QED
    BY <2>1, <2>2, <2>3, EndIsComplete
<1>2. StreamInv /\ [Next]_vars => StreamInv'
  BY StreamInvariant
<1>3. QED
  BY <1>1, <1>2, StreamInitially, PTL DEF Spec
===============================================================================
