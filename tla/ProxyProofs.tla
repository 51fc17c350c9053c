------------------------------ MODULE ProxyProofs ------------------------------
(*****************************************************************************)
(* No answer is lost between the server and a caller, proved for any number  *)
(* of proxies, requests and any size of the sockets' buffers.                *)
(*****************************************************************************)
EXTENDS Proxy, TLAPS

Types ==
    /\ server \in {"starting", "listening", "stopping", "stopped"}
    /\ conn \in [Proxies -> {"none", "open", "closed"}]
    /\ up \in [Proxies -> Seq(Nat)] /\ down \in [Proxies -> Seq(Nat)]
    /\ readShut \in [Proxies -> BOOLEAN] /\ writeShut \in [Proxies -> BOOLEAN]
    /\ stdin \in [Proxies -> Seq(Nat)] /\ stdout \in [Proxies -> Seq(Nat)]
    /\ stdinOpen \in [Proxies -> BOOLEAN] /\ stdoutOpen \in [Proxies -> BOOLEAN]
    /\ source \in [Proxies -> {"off", "run", "done"}]
    /\ sink \in [Proxies -> {"off", "run", "done"}]
    /\ held \in [Proxies -> [1..2 -> Nat]]
    /\ calls \in [Proxies -> SUBSET (Nat \ {None})]
    /\ taken \in [Proxies -> Nat]
    /\ returned \in [Proxies -> BOOLEAN]

\* The caller of p has closed nothing.
Attached(p) == stdinOpen[p] /\ stdoutOpen[p]

\* What waits for the server goes on from what it has taken, in order: in the socket,
\* in the loop that reads stdin, and in stdin.
Counts(s, n) == \A i \in 1..Len(s) : s[i] = n + i
Passed(p) == taken[p] + Len(up[p]) + (IF held[p][1] = None THEN 0 ELSE 1)
RequestsInOrder(p) ==
    /\ Counts(up[p], taken[p])
    /\ held[p][1] # None => held[p][1] = taken[p] + Len(up[p]) + 1
    /\ Counts(stdin[p], Passed(p))

Elems(s) == { s[i] : i \in 1..Len(s) }

\* The answers that have not reached the caller.
OnTheWay(p) == calls[p] \cup Elems(down[p]) \cup ({held[p][2]} \ {None})

\* Each request that was taken is under way as a call or an answer, or answered.
NothingIsLost(p) ==
    Attached(p) =>
        Elems(stdout[p]) \cup OnTheWay(p) = 1..taken[p]

\* While the caller has closed nothing, a loop ends, and an end of the connection is
\* shut, only once the server has closed the connection, with no call left; and the
\* loop that writes stdout has written everything by then.
EndsAfterServer(p) ==
    Attached(p) =>
        /\ readShut[p] \/ writeShut[p] \/ source[p] = "done" \/ sink[p] = "done"
              => conn[p] = "closed"
        /\ conn[p] = "closed" => calls[p] = {}
        /\ sink[p] = "done" => held[p][2] = None /\ down[p] = <<>>

\* Nothing happens before the connection is there, and a proxy returns when both loops
\* are done, or when there is none.
Phases(p) ==
    /\ conn[p] = "none" <=> source[p] = "off"
    /\ source[p] = "off" => sink[p] = "off"
    /\ source[p] = "off" => OnTheWay(p) = {}
    /\ returned[p] => source[p] = "off" \/ (source[p] = "done" /\ sink[p] = "done")

\* Answers have the numbers of their requests, which begin with 1.
AnswersAreNumbered(p) == None \notin Elems(down[p])

Good(p) ==
    /\ RequestsInOrder(p) /\ NothingIsLost(p) /\ EndsAfterServer(p) /\ Phases(p)
    /\ AnswersAreNumbered(p)

\* The inductive invariant.
ProxyInv == Types /\ \A p \in Proxies : Good(p)

-------------------------------------------------------------------------------
(*****************************************************************************)
(* Lemmas                                                                    *)
(*****************************************************************************)

\* The elements of a queue that grows at its end or loses its head.
LEMMA ElemsOfQueue ==
    /\ Elems(<<>>) = {}
    /\ \A s \in Seq(Nat) : s # <<>> => Elems(s) = {Head(s)} \cup Elems(Tail(s))
    /\ \A s \in Seq(Nat), x \in Nat : Elems(Append(s, x)) = Elems(s) \cup {x}
    /\ \A s \in Seq(Nat) : Elems(s) = {} => s = <<>>
  <1>1. Elems(<<>>) = {}
    BY DEF Elems
  <1>2. ASSUME NEW s \in Seq(Nat), s # <<>>
        PROVE  Elems(s) = {Head(s)} \cup Elems(Tail(s))
    <2>1. /\ Len(s) \in Nat \ {0} /\ Len(Tail(s)) = Len(s) - 1 /\ Head(s) = s[1]
          /\ \A i \in 1..Len(Tail(s)) : Tail(s)[i] = s[i + 1]
      BY <1>2
    <2>2. ASSUME NEW i \in 1..Len(s) PROVE s[i] \in {Head(s)} \cup Elems(Tail(s))
      <3>1. CASE i = 1
        BY <2>1, <3>1
      <3>2. CASE i # 1
        <4>1. i - 1 \in 1..Len(Tail(s)) /\ Tail(s)[i - 1] = s[i]
          BY <2>1, <3>2
        <4>2. QED
          BY <4>1, Zenon DEF Elems
      <3>3. QED
        BY <3>1, <3>2
    <2>3. ASSUME NEW i \in 1..Len(Tail(s)) PROVE Tail(s)[i] \in Elems(s)
      <3>1. i + 1 \in 1..Len(s) /\ Tail(s)[i] = s[i + 1]
        BY <2>1
      <3>2. QED
        BY <3>1, Zenon DEF Elems
    <2>4. Head(s) \in Elems(s)
      <3>1. 1 \in 1..Len(s)
        BY <2>1
      <3>2. QED
        BY <2>1, <3>1, Zenon DEF Elems
    <2>5. QED
      BY <2>2, <2>3, <2>4 DEF Elems
  <1>3. ASSUME NEW s \in Seq(Nat), NEW x \in Nat
        PROVE  Elems(Append(s, x)) = Elems(s) \cup {x}
    <2>1. /\ Len(Append(s, x)) = Len(s) + 1 /\ Append(s, x)[Len(s) + 1] = x
          /\ \A i \in 1..Len(s) : Append(s, x)[i] = s[i]
          /\ 1..Len(s) + 1 = 1..Len(s) \cup {Len(s) + 1}
      OBVIOUS
    <2>2. QED
      BY <2>1 DEF Elems
  <1>4. ASSUME NEW s \in Seq(Nat), s # <<>> PROVE Elems(s) # {}
    BY <1>2, <1>4
  <1>5. QED
    BY <1>1, <1>2, <1>3, <1>4

\* A loop reads something, or writes what it has read.
LEMMA HeldChanges ==
    ASSUME held \in [Proxies -> [1..2 -> Nat]], NEW p \in Proxies, NEW i \in 1..2,
           NEW x \in Nat, held' = [held EXCEPT ![p][i] = x]
    PROVE  /\ held' \in [Proxies -> [1..2 -> Nat]]
           /\ held'[p][i] = x /\ held'[p][3 - i] = held[p][3 - i]
           /\ \A q \in Proxies \ {p} : held'[q] = held[q]
  <1>1. held' = [held EXCEPT ![p] = [held[p] EXCEPT ![i] = x]]
    OBVIOUS
  <1>2. [held[p] EXCEPT ![i] = x] \in [1..2 -> Nat]
    OBVIOUS
  <1>3. held'[p] = [held[p] EXCEPT ![i] = x]
    BY <1>1
  <1>4. held' \in [Proxies -> [1..2 -> Nat]] /\ \A q \in Proxies \ {p} : held'[q] = held[q]
    BY <1>1, <1>2
  <1>5. 3 - i \in 1..2 /\ 3 - i # i
    OBVIOUS
  <1>6. QED
    BY <1>3, <1>4, <1>5

\* A step that leaves everything of a proxy as it is.
Same(q) ==
    /\ conn'[q] = conn[q] /\ up'[q] = up[q] /\ down'[q] = down[q]
    /\ readShut'[q] = readShut[q] /\ writeShut'[q] = writeShut[q]
    /\ stdin'[q] = stdin[q] /\ stdinOpen'[q] = stdinOpen[q]
    /\ stdoutOpen'[q] = stdoutOpen[q] /\ stdout'[q] = stdout[q]
    /\ source'[q] = source[q] /\ sink'[q] = sink[q] /\ held'[q] = held[q]
    /\ returned'[q] = returned[q]
    /\ calls'[q] = calls[q] /\ taken'[q] = taken[q]

\* A proxy that a step leaves alone stays good.
LEMMA SameIsGood ==
    ASSUME NEW q \in Proxies, Good(q), Same(q)
    PROVE  Good(q)'
  <1> USE DEF Good, Same
  <1>1. RequestsInOrder(q)' /\ AnswersAreNumbered(q)'
    BY DEF RequestsInOrder, Passed, Counts, AnswersAreNumbered
  <1>2. NothingIsLost(q)'
    BY DEF NothingIsLost, OnTheWay, Attached
  <1>3. EndsAfterServer(q)'
    BY DEF EndsAfterServer, Attached
  <1>4. Phases(q)'
    BY DEF Phases, OnTheWay
  <1>5. QED
    BY <1>1, <1>2, <1>3, <1>4

\* What of the invariant a step keeps that does not touch what it is about.
LEMMA Untouched ==
    ASSUME NEW p \in Proxies, Good(p)
    PROVE  /\ /\ up'[p] = up[p] /\ taken'[p] = taken[p] /\ stdin'[p] = stdin[p]
              /\ held'[p][1] = held[p][1]
              => RequestsInOrder(p)'
           /\ /\ Attached(p)' => Attached(p)
              /\ stdout'[p] = stdout[p] /\ taken'[p] = taken[p] /\ OnTheWay(p)' = OnTheWay(p)
              => NothingIsLost(p)'
           /\ /\ Attached(p)' => Attached(p)
              /\ conn'[p] = conn[p] /\ readShut'[p] = readShut[p] /\ writeShut'[p] = writeShut[p]
              /\ source'[p] = source[p] /\ sink'[p] = sink[p] /\ calls'[p] = calls[p]
              /\ held'[p][2] = held[p][2] /\ down'[p] = down[p]
              => EndsAfterServer(p)'
           /\ /\ conn'[p] = conn[p] /\ source'[p] = source[p] /\ sink'[p] = sink[p]
              /\ returned'[p] = returned[p] /\ OnTheWay(p)' = OnTheWay(p)
              => Phases(p)'
           /\ calls'[p] = calls[p] /\ down'[p] = down[p] /\ held'[p][2] = held[p][2]
              => OnTheWay(p)' = OnTheWay(p)
           /\ down'[p] = down[p] => AnswersAreNumbered(p)'
  <1> USE DEF Good
  <1>1. ASSUME up'[p] = up[p], taken'[p] = taken[p], stdin'[p] = stdin[p],
               held'[p][1] = held[p][1]
        PROVE  RequestsInOrder(p)'
    BY <1>1 DEF RequestsInOrder, Passed, Counts
  <1>2. ASSUME Attached(p)' => Attached(p), stdout'[p] = stdout[p], taken'[p] = taken[p],
               OnTheWay(p)' = OnTheWay(p)
        PROVE  NothingIsLost(p)'
    BY <1>2 DEF NothingIsLost
  <1>3. ASSUME Attached(p)' => Attached(p),
               conn'[p] = conn[p], readShut'[p] = readShut[p], writeShut'[p] = writeShut[p],
               source'[p] = source[p], sink'[p] = sink[p], calls'[p] = calls[p],
               held'[p][2] = held[p][2], down'[p] = down[p]
        PROVE  EndsAfterServer(p)'
    BY <1>3 DEF EndsAfterServer
  <1>4. ASSUME conn'[p] = conn[p], source'[p] = source[p], sink'[p] = sink[p],
               returned'[p] = returned[p], OnTheWay(p)' = OnTheWay(p)
        PROVE  Phases(p)'
    BY <1>4 DEF Phases
  <1>5. ASSUME calls'[p] = calls[p], down'[p] = down[p], held'[p][2] = held[p][2]
        PROVE  OnTheWay(p)' = OnTheWay(p)
    BY <1>5 DEF OnTheWay
  <1>6. ASSUME down'[p] = down[p] PROVE AnswersAreNumbered(p)'
    BY <1>6 DEF AnswersAreNumbered
  <1>7. QED
    BY <1>1, <1>2, <1>3, <1>4, <1>5, <1>6

\* The number of the next request is that of those before stdin, and of those in it.
LEMMA SentFacts ==
    ASSUME Types, NEW p \in Proxies
    PROVE  /\ Sent(p) = Passed(p) + Len(stdin[p])
           /\ Sent(p) \in Nat /\ Passed(p) \in Nat /\ Len(stdin[p]) \in Nat
  BY DEF Types, Sent, Passed, None

\* Numbers in a queue that grows at its end or loses its head.
LEMMA CountsInQueue ==
    ASSUME NEW n \in Nat, NEW s \in Seq(Nat), Counts(s, n)
    PROVE  /\ Counts(Append(s, n + Len(s) + 1), n)
           /\ s # <<>> => /\ Head(s) = n + 1 /\ Counts(Tail(s), n + 1)
                          /\ Len(Tail(s)) = Len(s) - 1 /\ Len(s) \in Nat
  <1>1. Counts(Append(s, n + Len(s) + 1), n)
    BY DEF Counts
  <1>2. ASSUME s # <<>>
        PROVE  /\ Head(s) = n + 1 /\ Counts(Tail(s), n + 1)
               /\ Len(Tail(s)) = Len(s) - 1 /\ Len(s) \in Nat
    <2>1. /\ Len(s) \in Nat \ {0} /\ Len(Tail(s)) = Len(s) - 1 /\ Head(s) = s[1]
          /\ \A i \in 1..Len(Tail(s)) : Tail(s)[i] = s[i + 1]
      BY <1>2
    <2>2. 1 \in 1..Len(s) /\ \A i \in 1..Len(Tail(s)) : i + 1 \in 1..Len(s)
      BY <2>1
    <2>3. QED
      BY <2>1, <2>2 DEF Counts
  <1>3. QED
    BY <1>1, <1>2

-------------------------------------------------------------------------------
(*****************************************************************************)
(* The callers                                                               *)
(*****************************************************************************)

\* A caller sends a request, the next one.
LEMMA RequestInvariant ==
    ASSUME ProxyInv, NEW p \in Proxies, Request(p)
    PROVE  ProxyInv'
  <1>1. /\ stdin' = [stdin EXCEPT ![p] = Append(@, Sent(p) + 1)] /\ Sent(p) \in Nat
        /\ UNCHANGED <<net, loops, serving, stdinOpen, stdoutOpen, stdout>>
    BY SentFacts DEF Request, ProxyInv
  <1> USE <1>1 DEF ProxyInv, net, loops, serving
  <1>2. Types'
    BY DEF Types
  <1>3. \A q \in Proxies \ {p} : Same(q)
    BY DEF Same, Types
  <1>4. RequestsInOrder(p)'
    <2>1. stdin[p] \in Seq(Nat) /\ stdin'[p] = Append(stdin[p], Passed(p) + Len(stdin[p]) + 1)
      BY SentFacts DEF Types
    <2>2. Counts(stdin'[p], Passed(p))
      BY <2>1, SentFacts, CountsInQueue DEF Good, RequestsInOrder
    <2>3. QED
      BY <2>2 DEF Good, RequestsInOrder, Passed
  <1>5. Good(p)'
    BY <1>4, Untouched DEF Good, Attached
  <1>6. QED
    BY <1>2, <1>3, <1>5, SameIsGood

\* A caller stops sending or reading.
LEMMA CallerInvariant ==
    ASSUME ProxyInv, NEW p \in Proxies, CloseStdin(p) \/ CloseStdout(p)
    PROVE  ProxyInv'
  <1> USE DEF ProxyInv, CloseStdin, CloseStdout, net, loops, serving
  <1>1. Types'
    BY DEF Types
  <1>2. \A q \in Proxies \ {p} : Same(q)
    BY DEF Same, Types
  <1>3. Attached(p)' => Attached(p)
    BY DEF Attached, Types
  <1>4. Good(p)'
    BY <1>3, Untouched DEF Good
  <1>5. QED
    BY <1>1, <1>2, <1>4, SameIsGood

-------------------------------------------------------------------------------
(*****************************************************************************)
(* The proxies                                                               *)
(*****************************************************************************)

\* A proxy connects, or returns; it has nothing yet.
LEMMA DialInvariant ==
    ASSUME ProxyInv, NEW p \in Proxies, Dial(p)
    PROVE  ProxyInv'
  <1> USE DEF ProxyInv, Dial, caller, serving
  <1>1. Types'
    BY DEF Types
  <1>2. \A q \in Proxies \ {p} : Same(q)
    BY DEF Same, Types
  <1>3. /\ OnTheWay(p)' = OnTheWay(p) /\ RequestsInOrder(p)' /\ NothingIsLost(p)'
        /\ AnswersAreNumbered(p)'
    BY Untouched DEF Attached
  <1>4. Phases(p)'
    BY <1>3 DEF Good, Phases, Types
  <1>5. EndsAfterServer(p)'
    BY DEF Good, EndsAfterServer, Phases, Attached, Types
  <1>6. QED
    BY <1>1, <1>2, <1>3, <1>4, <1>5, SameIsGood DEF Good

\* A request goes from stdin to the loop.
LEMMA SourceReadInvariant ==
    ASSUME ProxyInv, NEW p \in Proxies, SourceRead(p)
    PROVE  ProxyInv'
  <1> USE DEF ProxyInv, SourceRead, net, serving
  <1>1. stdin[p] \in Seq(Nat) /\ stdin[p] # <<>> /\ Head(stdin[p]) \in Nat
        /\ Tail(stdin[p]) \in Seq(Nat)
    BY DEF Types
  <1>2. /\ held' \in [Proxies -> [1..2 -> Nat]]
        /\ held'[p][1] = Head(stdin[p]) /\ held'[p][2] = held[p][2]
        /\ \A q \in Proxies \ {p} : held'[q] = held[q]
    BY <1>1, HeldChanges DEF Types
  <1>3. Types'
    BY <1>1, <1>2 DEF Types
  <1>4. \A q \in Proxies \ {p} : Same(q)
    BY <1>2 DEF Same, Types
  <1>5. RequestsInOrder(p)'
    <2>1. stdin'[p] = Tail(stdin[p]) /\ Passed(p) \in Nat
      BY SentFacts DEF Types
    <2>2. Head(stdin[p]) = Passed(p) + 1 /\ Counts(stdin'[p], Passed(p) + 1)
      BY <1>1, <2>1, CountsInQueue DEF Good, RequestsInOrder
    <2>3. Passed(p) = taken[p] + Len(up[p])
      BY DEF Types, Passed, None
    <2>4. Passed(p)' = Passed(p) + 1
      BY <1>2, <2>1, <2>2, <2>3 DEF Passed, None
    <2>5. QED
      BY <1>2, <2>2, <2>3, <2>4 DEF Good, RequestsInOrder
  <1>6. QED
    BY <1>2, <1>3, <1>4, <1>5, Untouched, SameIsGood DEF Good, Attached

\* A request goes from the loop to the socket.
LEMMA SourceWriteInvariant ==
    ASSUME ProxyInv, NEW p \in Proxies, SourceWrite(p)
    PROVE  ProxyInv'
  <1> USE DEF ProxyInv, SourceWrite, caller, serving
  <1>1. up[p] \in Seq(Nat) /\ held[p][1] \in Nat /\ 0 \in Nat
    BY DEF Types
  <1>2. /\ held' \in [Proxies -> [1..2 -> Nat]]
        /\ held'[p][1] = None /\ held'[p][2] = held[p][2]
        /\ \A q \in Proxies \ {p} : held'[q] = held[q]
    BY <1>1, HeldChanges DEF Types, None
  <1>3. Types'
    BY <1>1, <1>2 DEF Types
  <1>4. \A q \in Proxies \ {p} : Same(q)
    BY <1>2 DEF Same, Types
  <1>5. RequestsInOrder(p)'
    <2>1. up'[p] = Append(up[p], held[p][1]) /\ taken[p] \in Nat
      BY DEF Types
    <2>2. held[p][1] = taken[p] + Len(up[p]) + 1
      BY DEF Good, RequestsInOrder
    <2>3. Counts(up'[p], taken[p])
      BY <1>1, <2>1, <2>2, CountsInQueue DEF Good, RequestsInOrder
    <2>4. Passed(p)' = Passed(p)
      <3>1. Len(up'[p]) = Len(up[p]) + 1 /\ Len(up[p]) \in Nat /\ taken'[p] = taken[p]
        BY <1>1, <2>1
      <3>2. QED
        BY <1>2, <2>1, <3>1 DEF Passed
    <2>5. QED
      BY <1>2, <2>3, <2>4 DEF Good, RequestsInOrder
  <1>6. QED
    BY <1>2, <1>3, <1>4, <1>5, Untouched, SameIsGood DEF Good, Attached

\* An answer goes from the socket to the loop.
LEMMA SinkReadInvariant ==
    ASSUME ProxyInv, NEW p \in Proxies, SinkRead(p)
    PROVE  ProxyInv'
  <1> USE DEF ProxyInv, SinkRead, caller, serving
  <1>1. down[p] \in Seq(Nat) /\ down[p] # <<>> /\ Head(down[p]) \in Nat
        /\ Tail(down[p]) \in Seq(Nat)
    BY DEF Types
  <1>2. /\ held' \in [Proxies -> [1..2 -> Nat]]
        /\ held'[p][2] = Head(down[p]) /\ held'[p][1] = held[p][1]
        /\ \A q \in Proxies \ {p} : held'[q] = held[q]
    BY <1>1, HeldChanges DEF Types
  <1>3. Types'
    BY <1>1, <1>2 DEF Types
  <1>4. \A q \in Proxies \ {p} : Same(q)
    BY <1>2 DEF Same, Types
  <1>5. Head(down[p]) # None /\ AnswersAreNumbered(p)'
    <2>1. down'[p] = Tail(down[p])
      BY DEF Types
    <2>2. QED
      BY <1>1, <2>1, ElemsOfQueue DEF Good, AnswersAreNumbered
  <1>6. OnTheWay(p)' = OnTheWay(p)
    <2>1. down'[p] = Tail(down[p]) /\ calls'[p] = calls[p]
      BY DEF Types
    <2>2. Elems(down[p]) = {Head(down[p])} \cup Elems(down'[p])
      BY <1>1, <2>1, ElemsOfQueue
    <2>3. QED
      BY <1>2, <1>5, <2>1, <2>2 DEF OnTheWay
  <1>7. EndsAfterServer(p)'
    BY DEF Good, EndsAfterServer, Attached
  <1>8. QED
    BY <1>2, <1>3, <1>4, <1>5, <1>6, <1>7, Untouched, SameIsGood DEF Good, Attached

\* An answer goes from the loop to stdout.
LEMMA SinkWriteInvariant ==
    ASSUME ProxyInv, NEW p \in Proxies, SinkWrite(p)
    PROVE  ProxyInv'
  <1> USE DEF ProxyInv, SinkWrite, net, serving
  <1>1. stdout[p] \in Seq(Nat) /\ held[p][2] \in Nat /\ 0 \in Nat
    BY DEF Types
  <1>2. /\ held' \in [Proxies -> [1..2 -> Nat]]
        /\ held'[p][2] = None /\ held'[p][1] = held[p][1]
        /\ \A q \in Proxies \ {p} : held'[q] = held[q]
    BY <1>1, HeldChanges DEF Types, None
  <1>3. Types'
    <2>1. Append(stdout[p], held[p][2]) \in Seq(Nat)
      BY <1>1
    <2>2. stdout' \in [Proxies -> Seq(Nat)]
      BY <2>1 DEF Types
    <2>3. QED
      BY <1>2, <2>2 DEF Types
  <1>4. \A q \in Proxies \ {p} : Same(q)
    BY <1>2 DEF Same, Types
  <1>5. /\ OnTheWay(p) = OnTheWay(p)' \cup {held[p][2]}
        /\ Elems(stdout'[p]) = Elems(stdout[p]) \cup {held[p][2]}
    <2>1. stdout'[p] = Append(stdout[p], held[p][2])
      BY DEF Types
    <2>2. QED
      BY <1>1, <1>2, <2>1, ElemsOfQueue DEF OnTheWay
  <1>6. NothingIsLost(p)'
    BY <1>5 DEF Good, NothingIsLost, Attached
  <1>7. EndsAfterServer(p)' /\ Phases(p)'
    BY <1>5 DEF Good, EndsAfterServer, Attached, Phases
  <1>8. QED
    BY <1>2, <1>3, <1>4, <1>6, <1>7, Untouched, SameIsGood DEF Good

\* The loop from stdin ends.
LEMMA SourceEndInvariant ==
    ASSUME ProxyInv, NEW p \in Proxies, SourceEnd(p)
    PROVE  ProxyInv'
  <1> USE DEF ProxyInv, SourceEnd, CloseRead, caller, serving
  <1>1. Types'
    BY DEF Types
  <1>2. \A q \in Proxies \ {p} : Same(q)
    BY DEF Same, Types
  <1>3. /\ OnTheWay(p)' = OnTheWay(p) /\ RequestsInOrder(p)' /\ NothingIsLost(p)'
        /\ AnswersAreNumbered(p)'
    BY Untouched DEF Attached
  <1>4. Phases(p)'
    BY <1>3 DEF Good, Phases, Types
  <1>5. Attached(p) => conn[p] = "closed"
    BY DEF Attached, Good, EndsAfterServer
  <1>6. EndsAfterServer(p)'
    BY <1>5 DEF Good, EndsAfterServer, Attached, Types
  <1>7. QED
    BY <1>1, <1>2, <1>3, <1>4, <1>6, SameIsGood DEF Good

\* The loop to stdout ends.
LEMMA SinkEndInvariant ==
    ASSUME ProxyInv, NEW p \in Proxies, SinkEnd(p)
    PROVE  ProxyInv'
  <1> USE DEF ProxyInv, SinkEnd, caller, serving
  <1>1. Types'
    BY DEF Types
  <1>2. \A q \in Proxies \ {p} : Same(q)
    BY DEF Same, Types
  <1>3. /\ OnTheWay(p)' = OnTheWay(p) /\ RequestsInOrder(p)' /\ NothingIsLost(p)'
        /\ AnswersAreNumbered(p)'
    BY Untouched DEF Attached
  <1>4. Phases(p)'
    BY <1>3 DEF Good, Phases, Types
  <1>5. Attached(p) => conn[p] = "closed" /\ held[p][2] = None /\ down[p] = <<>>
    BY DEF Attached, Good, EndsAfterServer
  <1>6. EndsAfterServer(p)'
    BY <1>5 DEF Good, EndsAfterServer, Attached, Types
  <1>7. QED
    BY <1>1, <1>2, <1>3, <1>4, <1>6, SameIsGood DEF Good

\* A proxy returns.
LEMMA ReturnInvariant ==
    ASSUME ProxyInv, NEW p \in Proxies, Return(p)
    PROVE  ProxyInv'
  <1> USE DEF ProxyInv, Return, net, caller, serving
  <1>1. Types'
    BY DEF Types
  <1>2. \A q \in Proxies \ {p} : Same(q)
    BY DEF Same, Types
  <1>3. /\ OnTheWay(p)' = OnTheWay(p) /\ RequestsInOrder(p)' /\ NothingIsLost(p)'
        /\ AnswersAreNumbered(p)' /\ EndsAfterServer(p)'
    BY Untouched DEF Attached
  <1>4. Phases(p)'
    BY <1>3 DEF Good, Phases, Types
  <1>5. QED
    BY <1>1, <1>2, <1>3, <1>4, SameIsGood DEF Good

-------------------------------------------------------------------------------
(*****************************************************************************)
(* The server                                                                *)
(*****************************************************************************)

\* The server starts, or is told to stop.
LEMMA ServerInvariant ==
    ASSUME ProxyInv, Listen \/ Signal
    PROVE  ProxyInv'
  <1> USE DEF ProxyInv, Listen, Signal, net, caller, loops
  <1>1. Types'
    BY DEF Types
  <1>2. \A q \in Proxies : Same(q)
    BY DEF Same
  <1>3. QED
    BY <1>1, <1>2, SameIsGood

\* The server takes the next request.
LEMMA TakeInvariant ==
    ASSUME ProxyInv, NEW p \in Proxies, Take(p)
    PROVE  ProxyInv'
  <1> USE DEF ProxyInv, Take, caller, loops
  <1>1. /\ up[p] \in Seq(Nat) /\ up[p] # <<>> /\ taken[p] \in Nat
        /\ up'[p] = Tail(up[p]) /\ Tail(up[p]) \in Seq(Nat)
        /\ calls'[p] = calls[p] \cup {Head(up[p])} /\ taken'[p] = taken[p] + 1
    BY DEF Types
  <1>2. /\ Head(up[p]) = taken[p] + 1 /\ Counts(up'[p], taken[p] + 1)
        /\ Len(up'[p]) = Len(up[p]) - 1 /\ Len(up[p]) \in Nat
    BY <1>1, CountsInQueue DEF Good, RequestsInOrder
  <1>3. Types'
    BY <1>1, <1>2 DEF Types, None
  <1>4. \A q \in Proxies \ {p} : Same(q)
    BY DEF Same, Types
  <1>5. RequestsInOrder(p)'
    <2>1. taken'[p] + Len(up'[p]) = taken[p] + Len(up[p])
      <3>1. \A t, l \in Nat : (t + 1) + (l - 1) = t + l
        OBVIOUS
      <3>2. QED
        BY <1>1, <1>2, <3>1
    <2>2. Passed(p)' = Passed(p)
      BY <2>1 DEF Passed
    <2>3. QED
      BY <1>1, <1>2, <2>1, <2>2 DEF Good, RequestsInOrder
  <1>6. OnTheWay(p)' = OnTheWay(p) \cup {taken[p] + 1}
    BY <1>1, <1>2 DEF OnTheWay
  <1>7. 1..taken'[p] = 1..taken[p] \cup {taken[p] + 1}
    BY <1>1
  <1>8. NothingIsLost(p)'
    BY <1>6, <1>7 DEF Good, NothingIsLost, Attached
  <1>9. EndsAfterServer(p)' /\ Phases(p)' /\ AnswersAreNumbered(p)'
    BY DEF Good, EndsAfterServer, Phases, AnswersAreNumbered, Attached
  <1>10. QED
    BY <1>3, <1>4, <1>5, <1>8, <1>9, SameIsGood DEF Good

\* The server answers a call.
LEMMA AnswerInvariant ==
    ASSUME ProxyInv, NEW p \in Proxies, Answer(p)
    PROVE  ProxyInv'
  <1>1. PICK c \in calls[p] : /\ down' = [down EXCEPT ![p] = Append(@, c)]
                              /\ calls' = [calls EXCEPT ![p] = @ \ {c}]
    BY DEF Answer
  <1>2. /\ conn[p] = "open"
        /\ UNCHANGED <<conn, up, readShut, writeShut, caller, loops, server, taken>>
    BY DEF Answer
  <1> USE <1>1, <1>2 DEF ProxyInv, caller, loops
  <1>3. /\ c \in Nat /\ c # None /\ down[p] \in Seq(Nat) /\ Append(down[p], c) \in Seq(Nat)
        /\ down'[p] = Append(down[p], c) /\ calls'[p] = calls[p] \ {c}
    BY DEF Types
  <1>4. Types'
    BY <1>3 DEF Types
  <1>5. \A q \in Proxies \ {p} : Same(q)
    BY DEF Same, Types
  <1>6. Elems(down'[p]) = Elems(down[p]) \cup {c}
    BY <1>3, ElemsOfQueue
  <1>7. OnTheWay(p)' = OnTheWay(p)
    BY <1>3, <1>6 DEF OnTheWay
  <1>8. EndsAfterServer(p)' /\ AnswersAreNumbered(p)'
    BY <1>3, <1>6 DEF Good, EndsAfterServer, AnswersAreNumbered, Attached
  <1>9. RequestsInOrder(p)' /\ NothingIsLost(p)' /\ Phases(p)'
    BY <1>7, Untouched DEF Attached
  <1>10. QED
    BY <1>4, <1>5, <1>8, <1>9, SameIsGood DEF Good

\* The server gives a connection up, which it does not while the caller is there.
LEMMA DisconnectInvariant ==
    ASSUME ProxyInv, NEW p \in Proxies, Disconnect(p)
    PROVE  ProxyInv'
  <1> USE DEF ProxyInv, Disconnect, caller, loops
  <1>1. Types'
    BY DEF Types
  <1>2. \A q \in Proxies \ {p} : Same(q)
    BY DEF Same, Types
  <1>3. ~Attached(p) /\ ~Attached(p)'
    BY DEF Good, EndsAfterServer, Attached
  <1>4. NothingIsLost(p)' /\ EndsAfterServer(p)'
    BY <1>3 DEF NothingIsLost, EndsAfterServer
  <1>5. Phases(p)'
    BY DEF Good, Phases, Types
  <1>6. RequestsInOrder(p)' /\ AnswersAreNumbered(p)'
    BY Untouched
  <1>7. QED
    BY <1>1, <1>2, <1>4, <1>5, <1>6, SameIsGood DEF Good

\* The server stops once all calls are over.
LEMMA StopInvariant ==
    ASSUME ProxyInv, GracefulStop
    PROVE  ProxyInv'
  <1> USE DEF ProxyInv, GracefulStop, caller, loops
  <1>1. Types'
    BY DEF Types
  <1>2. ASSUME NEW p \in Proxies PROVE Good(p)'
    <2>1. /\ OnTheWay(p)' = OnTheWay(p) /\ RequestsInOrder(p)' /\ NothingIsLost(p)'
          /\ AnswersAreNumbered(p)'
      BY Untouched DEF Attached
    <2>2. conn'[p] = IF conn[p] = "open" THEN "closed" ELSE conn[p]
      OBVIOUS
    <2>3. Phases(p)'
      BY <2>1, <2>2 DEF Good, Phases, Types
    <2>4. EndsAfterServer(p)'
      BY <2>2 DEF Good, EndsAfterServer, Attached
    <2>5. QED
      BY <2>1, <2>3, <2>4 DEF Good
  <1>3. QED
    BY <1>1, <1>2

-------------------------------------------------------------------------------
(*****************************************************************************)
(* The theorem                                                               *)
(*****************************************************************************)

\* The invariant holds initially.
LEMMA InitInvariant == Init => ProxyInv
  <1> SUFFICES ASSUME Init PROVE ProxyInv
    OBVIOUS
  <1>1. Types
    <2>1. held \in [Proxies -> [1..2 -> Nat]]
      BY DEF Init, None
    <2>2. QED
      BY <2>1 DEF Init, Types
  <1>2. ASSUME NEW p \in Proxies PROVE Good(p)
    <2>1. /\ up[p] = <<>> /\ down[p] = <<>> /\ stdin[p] = <<>> /\ stdout[p] = <<>>
          /\ held[p][1] = None /\ held[p][2] = None /\ calls[p] = {} /\ taken[p] = 0
          /\ conn[p] = "none" /\ source[p] = "off" /\ sink[p] = "off"
          /\ ~readShut[p] /\ ~writeShut[p] /\ ~returned[p]
      BY DEF Init
    <2>2. OnTheWay(p) = {} /\ AnswersAreNumbered(p)
      BY <2>1, ElemsOfQueue DEF OnTheWay, AnswersAreNumbered
    <2>3. RequestsInOrder(p)
      BY <2>1 DEF RequestsInOrder, Counts
    <2>4. NothingIsLost(p) /\ EndsAfterServer(p) /\ Phases(p)
      BY <2>1, <2>2, ElemsOfQueue DEF NothingIsLost, EndsAfterServer, Phases
    <2>5. QED
      BY <2>2, <2>3, <2>4 DEF Good
  <1>3. QED
    BY <1>1, <1>2 DEF ProxyInv

\* It is inductive.
LEMMA Inductive == ProxyInv /\ [Next]_vars => ProxyInv'
  <1> SUFFICES ASSUME ProxyInv, [Next]_vars PROVE ProxyInv'
    OBVIOUS
  <1>1. CASE UNCHANGED vars
    <2>1. Types' /\ \A q \in Proxies : Same(q)
      BY <1>1 DEF ProxyInv, Types, Same, vars, net, caller, loops, serving
    <2>2. QED
      BY <2>1, SameIsGood DEF ProxyInv
  <1>2. ASSUME NEW p \in Proxies, ProxyStep(p) PROVE ProxyInv'
    BY <1>2, DialInvariant, SourceReadInvariant, SourceWriteInvariant, SourceEndInvariant,
       SinkReadInvariant, SinkWriteInvariant, SinkEndInvariant, ReturnInvariant
       DEF ProxyStep
  <1>3. ASSUME NEW p \in Proxies, CallerStep(p) PROVE ProxyInv'
    BY <1>3, RequestInvariant, CallerInvariant DEF CallerStep
  <1>4. ASSUME NEW p \in Proxies, ServerStep(p) PROVE ProxyInv'
    BY <1>4, TakeInvariant, AnswerInvariant, DisconnectInvariant DEF ServerStep
  <1>5. QED
    BY <1>1, <1>2, <1>3, <1>4, ServerInvariant, StopInvariant DEF Next

\* When the proxy of a caller that has closed nothing returns, the caller has the
\* answer to every request that the server took, for any number of proxies and
\* requests and any size of the sockets' buffers.
THEOREM ProxyRepliesAreDelivered == Spec => []RepliesAreDelivered
  <1>1. ProxyInv => RepliesAreDelivered
    <2> SUFFICES ASSUME ProxyInv, NEW p \in Proxies, returned[p], Attached(p)
                 PROVE  { stdout[p][i] : i \in DOMAIN stdout[p] } = 1..taken[p]
      BY DEF RepliesAreDelivered, Attached
    <2>1. OnTheWay(p) = {}
      <3>1. CASE source[p] = "off"
        BY <3>1 DEF ProxyInv, Good, Phases
      <3>2. CASE source[p] = "done" /\ sink[p] = "done"
        BY <3>2, ElemsOfQueue DEF ProxyInv, Good, EndsAfterServer, OnTheWay
      <3>3. QED
        BY <3>1, <3>2 DEF ProxyInv, Good, Phases
    <2>2. Elems(stdout[p]) = 1..taken[p]
      BY <2>1 DEF ProxyInv, Good, NothingIsLost
    <2>3. stdout[p] \in Seq(Nat) /\ DOMAIN stdout[p] = 1..Len(stdout[p])
      BY DEF ProxyInv, Types
    <2>4. QED
      BY <2>2, <2>3, Zenon DEF Elems
  <1>2. QED
    BY <1>1, InitInvariant, Inductive, PTL DEF Spec
===============================================================================
