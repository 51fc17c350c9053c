-------------------------------- MODULE Streamer --------------------------------
(*****************************************************************************)
(* The log stream of a job (pkg/api/internal/streamer/file/file.go): steps   *)
(* write bytes to a file, followers read the file from an offset, split it   *)
(* into lines and send the lines on, and wait on a condition variable for    *)
(* more until the stream is stopped.                                         *)
(*                                                                           *)
(* A byte is "\n", "\r" or any other; the lines are split as bufio.Scanner   *)
(* does with bufio.ScanLines.                                                *)
(*****************************************************************************)
EXTENDS Integers, SequencesExt

CONSTANTS
    Followers,      \* calls of Follow
    Payloads,       \* what one Write may write: non-empty sequences of bytes
    Offsets,        \* offsets a caller of Follow may ask for
    MaxToken,       \* size of the scanner's buffer (bufio.MaxScanTokenSize)
    MaxBytes        \* bound of the model: bytes written to the file

NL == "\n"
CR == "\r"

ASSUME StreamerAssumption ==
    /\ Payloads \subseteq Seq(STRING)
    /\ Offsets \subseteq Int
    /\ MaxToken \in Nat \ {0}
    /\ MaxBytes \in Nat

VARIABLES
    content,    \* the bytes of the file
    dir,        \* the directory of the file exists
    stop,       \* s.stop
    file,       \* the descriptor of the writer: "open" or "closed"
    pc,         \* where each Follow is
    offset,     \* its argument
    ctxDone,    \* its context is cancelled
    pos,        \* read position of its descriptor
    buf,        \* bytes read and not yet split
    scanErr,    \* error of the reader that the scanner keeps
    token,      \* the line to send
    sent        \* the bytes its writer accepted

streamVars == <<content, dir, stop, file>>
scanVars   == <<pos, buf, scanErr, token>>
vars == <<streamVars, pc, offset, ctxDone, scanVars, sent>>

Returned == {"ok", "failed"}
Places == {"call", "scan", "read", "waiting", "check", "data", "newline"}
          \cup Returned

Init ==
    /\ content = <<>> /\ dir = TRUE /\ stop = FALSE /\ file = "open"
    /\ pc = [f \in Followers |-> "call"]
    /\ offset = [f \in Followers |-> 0]
    /\ ctxDone = [f \in Followers |-> FALSE]
    /\ pos = [f \in Followers |-> 0]
    /\ buf = [f \in Followers |-> <<>>]
    /\ scanErr = [f \in Followers |-> "none"]
    /\ token = [f \in Followers |-> <<>>]
    /\ sent = [f \in Followers |-> <<>>]

Goto(f, to) == pc' = [pc EXCEPT ![f] = to]

\* cond.Broadcast: every follower that waits looks at the file again.
Broadcast ==
    pc' = [f \in Followers |-> IF pc[f] = "waiting" THEN "read" ELSE pc[f]]

-------------------------------------------------------------------------------
(*****************************************************************************)
(* Writer side                                                               *)
(*****************************************************************************)

\* Mutant of Write: no broadcast.
Write_Silent(p) ==
    /\ file = "open"
    /\ ~stop
    /\ Len(content) + Len(p) <= MaxBytes
    /\ content' = content \o p
    /\ UNCHANGED <<pc, dir, stop, file, offset, ctxDone, scanVars, sent>>

\* Write: append and wake the followers.  The steps have ended when the job
\* closes its logs (Job.CloseLogs), so nobody writes to a stopped stream.
Write(p) ==
    /\ file = "open"
    /\ ~stop
    /\ Len(content) + Len(p) <= MaxBytes
    /\ content' = content \o p
    /\ Broadcast
    /\ UNCHANGED <<dir, stop, file, offset, ctxDone, scanVars, sent>>

\* Mutant of Stop: no broadcast.
Stop_Silent ==
    /\ ~stop
    /\ stop' = TRUE
    /\ UNCHANGED <<pc, content, dir, file, offset, ctxDone, scanVars, sent>>

\* Stop, the first half of Close.
Stop ==
    /\ ~stop
    /\ stop' = TRUE
    /\ Broadcast
    /\ UNCHANGED <<content, dir, file, offset, ctxDone, scanVars, sent>>

\* The second half of Close.
CloseFile ==
    /\ stop /\ file = "open"
    /\ file' = "closed"
    /\ UNCHANGED <<content, dir, stop, pc, offset, ctxDone, scanVars, sent>>

\* Job.Close removes the directory with the file; the descriptors that are open
\* keep their file.
RemoveDir ==
    /\ dir
    /\ dir' = FALSE
    /\ UNCHANGED <<content, stop, file, pc, offset, ctxDone, scanVars, sent>>

-------------------------------------------------------------------------------
(*****************************************************************************)
(* Follow                                                                    *)
(*****************************************************************************)

\* Mutant of Open: no Seek.
Open_NoSeek(f, o) ==
    /\ pc[f] = "call"
    /\ offset' = [offset EXCEPT ![f] = o]
    /\ Goto(f, IF dir /\ o >= 0 THEN "scan" ELSE "failed")
    /\ UNCHANGED <<streamVars, ctxDone, scanVars, sent>>

\* Mutant of Open: the error of Seek is not looked at.
Open_AnyOffset(f, o) ==
    /\ pc[f] = "call"
    /\ offset' = [offset EXCEPT ![f] = o]
    /\ IF dir
       THEN Goto(f, "scan") /\ pos' = [pos EXCEPT ![f] = o]
       ELSE Goto(f, "failed") /\ UNCHANGED pos
    /\ UNCHANGED <<streamVars, ctxDone, buf, scanErr, token, sent>>

\* Open the file, or create it if its directory is there, and seek.
Open(f, o) ==
    /\ pc[f] = "call"
    /\ offset' = [offset EXCEPT ![f] = o]
    /\ IF dir /\ o >= 0
       THEN Goto(f, "scan") /\ pos' = [pos EXCEPT ![f] = o]
       ELSE Goto(f, "failed") /\ UNCHANGED pos
    /\ UNCHANGED <<streamVars, ctxDone, buf, scanErr, token, sent>>

\* The caller of Follow gives up.  Nothing wakes a follower that waits.
CancelContext(f) ==
    /\ pc[f] \notin Returned /\ ~ctxDone[f]
    /\ ctxDone' = [ctxDone EXCEPT ![f] = TRUE]
    /\ UNCHANGED <<streamVars, pc, offset, scanVars, sent>>

\* ctx.Err() != nil.
Cancelled(f) == ctxDone[f]

\* There is something to read.
Available(f) == Len(content) > pos[f]

\* The reader is at the end of a stopped stream.  (The mutant is for a reader
\* that stops before it has read the rest.)
Ended_ByStop(f) == stop
Ended(f) == ~Available(f) /\ stop

\* One turn of the reader's loop, under the lock of the condition variable.  The
\* read returns between one byte and what the scanner's buffer has room for, or
\* fails with an error that is not the end of the file.
Read(f) ==
    /\ pc[f] = "read"
    /\ \/ /\ Cancelled(f)
          /\ scanErr' = [scanErr EXCEPT ![f] = "ctx"]
          /\ Goto(f, "scan")
          /\ UNCHANGED <<pos, buf>>
       \/ /\ ~Cancelled(f) /\ Available(f)
          /\ \E n \in 1..(MaxToken - Len(buf[f])) :
                /\ pos[f] + n <= Len(content)
                /\ buf' = [buf EXCEPT ![f] =
                              @ \o SubSeq(content, pos[f] + 1, pos[f] + n)]
                /\ pos' = [pos EXCEPT ![f] = @ + n]
          /\ Goto(f, "scan")
          /\ UNCHANGED scanErr
       \/ /\ ~Cancelled(f)
          /\ scanErr' = [scanErr EXCEPT ![f] = "read"]
          /\ Goto(f, "scan")
          /\ UNCHANGED <<pos, buf>>
       \/ /\ ~Cancelled(f) /\ Ended(f)
          /\ scanErr' = [scanErr EXCEPT ![f] = "EOF"]
          /\ Goto(f, "scan")
          /\ UNCHANGED <<pos, buf>>
       \/ /\ ~Cancelled(f) /\ ~Available(f) /\ ~stop
          /\ Goto(f, "waiting")
          /\ UNCHANGED <<pos, buf, scanErr>>
    /\ UNCHANGED <<streamVars, offset, ctxDone, token, sent>>

\* A line without the carriage return at its end.
DropCR(line) ==
    IF line # <<>> /\ Last(line) = CR THEN Front(line) ELSE line

\* The end of the first line of s, or 0.
EndOfLine(s) == SelectInSeq(s, LAMBDA b : b = NL)

FirstLine(s) == SubSeq(s, 1, EndOfLine(s) - 1)

\* scanner.Scan between two reads: the next line, or what is left when the
\* reader has ended, or the end; a buffer full of one line is an error.
Scan(f) ==
    /\ pc[f] = "scan"
    /\ LET s == buf[f] IN
       \/ /\ Contains(s, NL)
          /\ token' = [token EXCEPT ![f] = DropCR(FirstLine(s))]
          /\ buf' = [buf EXCEPT ![f] = SubSeq(s, EndOfLine(s) + 1, Len(s))]
          /\ Goto(f, "check")
       \/ /\ ~Contains(s, NL) /\ scanErr[f] # "none" /\ s # <<>>
          /\ token' = [token EXCEPT ![f] = DropCR(s)]
          /\ buf' = [buf EXCEPT ![f] = <<>>]
          /\ Goto(f, "check")
       \/ /\ ~Contains(s, NL) /\ scanErr[f] = "none"
          /\ Goto(f, IF Len(s) < MaxToken THEN "read" ELSE "failed")
          /\ UNCHANGED <<token, buf>>
       \/ /\ s = <<>> /\ scanErr[f] # "none"
          /\ Goto(f, IF scanErr[f] = "EOF" THEN "ok" ELSE "failed")
          /\ UNCHANGED <<token, buf>>
    /\ UNCHANGED <<streamVars, offset, ctxDone, pos, scanErr, sent>>

\* The body of the loop over the lines: blank lines are skipped.
Check(f) ==
    /\ pc[f] = "check"
    /\ \/ Cancelled(f) /\ Goto(f, "failed")
       \/ ~Cancelled(f) /\ token[f] = <<>> /\ Goto(f, "scan")
       \/ ~Cancelled(f) /\ token[f] # <<>> /\ Goto(f, "data")
    /\ UNCHANGED <<streamVars, offset, ctxDone, scanVars, sent>>

\* The two writes of a line; either fails when the other side is gone.
SendData(f) ==
    /\ pc[f] = "data"
    /\ \/ Goto(f, "newline") /\ sent' = [sent EXCEPT ![f] = @ \o token[f]]
       \/ Goto(f, "failed") /\ UNCHANGED sent
    /\ UNCHANGED <<streamVars, offset, ctxDone, scanVars>>

SendNewline(f) ==
    /\ pc[f] = "newline"
    /\ \/ Goto(f, "scan") /\ sent' = [sent EXCEPT ![f] = Append(@, NL)]
       \/ Goto(f, "failed") /\ UNCHANGED sent
    /\ UNCHANGED <<streamVars, offset, ctxDone, scanVars>>

-------------------------------------------------------------------------------
FollowStep(f) ==
    \/ Read(f) \/ Scan(f) \/ Check(f) \/ SendData(f) \/ SendNewline(f)

Next ==
    \/ \E p \in Payloads : Write(p)
    \/ Stop
    \/ CloseFile
    \/ RemoveDir
    \/ \E f \in Followers :
          \/ \E o \in Offsets : Open(f, o)
          \/ CancelContext(f)
          \/ FollowStep(f)

\* A goroutine in Follow that can run is scheduled.  Nothing is assumed of the
\* writers, of Stop, of the callers, or of the two sends of a line: they end in
\* a Send of the gRPC stream, which blocks while the client does not read.
Fairness ==
    \A f \in Followers : WF_vars(Read(f) \/ Scan(f) \/ Check(f))

Spec == Init /\ [][Next]_vars
FairSpec == Spec /\ Fairness

-------------------------------------------------------------------------------
(*****************************************************************************)
(* Properties                                                                *)
(*****************************************************************************)

Bytes == (UNION { ToSet(p) : p \in Payloads }) \cup {NL}

\* The type of every variable.
TypeOK ==
    /\ content \in Seq(Bytes)
    /\ dir \in BOOLEAN /\ stop \in BOOLEAN
    /\ file \in {"open", "closed"}
    /\ pc \in [Followers -> Places]
    /\ offset \in [Followers -> Offsets \cup {0}]
    /\ ctxDone \in [Followers -> BOOLEAN]
    /\ pos \in [Followers -> Nat]
    /\ \A f \in Followers :
        /\ buf[f] \in Seq(Bytes) /\ Len(buf[f]) <= MaxToken
        /\ token[f] \in Seq(Bytes \ {NL})
        /\ sent[f] \in Seq(Bytes)
    /\ scanErr \in [Followers -> {"none", "EOF", "ctx", "read"}]

\* What is sent of a line: nothing if it is blank, and otherwise the line without its
\* carriage return, ended by a newline.
LineSent(l) == IF DropCR(l) = <<>> THEN <<>> ELSE Append(DropCR(l), NL)

\* The first n bytes of s: what is sent of their lines, and the line they begin.
Split(s) ==
    LET split[n \in 0..Len(s)] ==
            IF n = 0 THEN [out |-> <<>>, line |-> <<>>]
            ELSE LET before == split[n - 1]
                 IN  IF s[n] = NL
                     THEN [out |-> before.out \o LineSent(before.line), line |-> <<>>]
                     ELSE [out |-> before.out, line |-> Append(before.line, s[n])]
    IN  split

\* What a reader is to see of the bytes s: every line that is not blank, without
\* its carriage return, and every one ended by a newline.
Render(s) ==
    LET all == Split(s)[Len(s)] IN all.out \o LineSent(all.line)

\* The part of the file a follower asked for.
Wanted(f) ==
    IF offset[f] \in 0..Len(content)
    THEN SubSeq(content, offset[f] + 1, Len(content)) ELSE <<>>

\* What a follower answers for: the part it asked for, or, when a read of the
\* file has failed, what it had read of it.
Seen(f) ==
    IF scanErr[f] = "read" THEN SubSeq(content, offset[f] + 1, pos[f])
                           ELSE Wanted(f)

\* However writes, reads and waits interleave, a follower sends the lines of the
\* file in order: none twice, none torn apart where a read happens to end, none
\* from before its offset.  When a read fails, the line that it broke off is
\* sent as if it ended there, and nothing after it.
SendsInOrder == \A f \in Followers : IsPrefix(sent[f], Render(Seen(f)))

\* A Follow that ends without an error has sent everything that was written:
\* "blocks until the steps are run and logs are written to the writer"
\* (Job.FollowLogs).
CompleteOnSuccess ==
    \A f \in Followers : pc[f] = "ok" => stop /\ sent[f] = Render(Wanted(f))

\* No wakeup is lost: a follower only waits when there is nothing to read and
\* the stream goes on.
WaitsOnlyForMore ==
    \A f \in Followers :
        pc[f] = "waiting" => ~stop /\ pos[f] >= Len(content)

\* Every follower of a stopped stream returns, unless one of its sends blocks for
\* good, on a client that does not read.  And so does a follower whose context is
\* cancelled while it does not wait (one that waits only notices at the next Write
\* or Stop).
FollowersReturn ==
    \A f \in Followers :
        \/ stop /\ pc[f] # "call"
        \/ ctxDone[f] /\ pc[f] \notin {"call", "waiting"}
        ~> pc[f] \in Returned \/ [](pc[f] \in {"data", "newline"})
===============================================================================
