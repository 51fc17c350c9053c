--------------------------------- MODULE Proxy ---------------------------------
(*****************************************************************************)
(* The commands serve and proxy (cmd/serve, cmd/proxy, pkg/api/proxy): a     *)
(* server that listens on a socket, and processes that each connect their    *)
(* stdin and stdout with it.  Requests and answers are numbered; what gRPC   *)
(* and the sockets do is external, as far as the commands rely on it.        *)
(*****************************************************************************)
EXTENDS Naturals, Sequences, FiniteSets

CONSTANTS
    Proxies,
    MaxRequests,    \* requests that a caller sends
    MaxBuffer       \* messages that a socket holds

ASSUME ProxyAssumption == MaxRequests \in Nat /\ MaxBuffer \in Nat \ {0}

None == 0

VARIABLES
    server,     \* "starting", "listening", "stopping" or "stopped"
    conn,       \* conn[p]: "none", "open" or, at the server's end, "closed"
    up, down,   \* up[p], down[p]: what is under way to and from the server
    readShut, writeShut,    \* what the proxy has shut of its end
    stdin, stdinOpen,       \* what the caller has sent, and whether it goes on
    stdoutOpen, stdout,     \* what the caller has got, and whether it reads
    source, sink,   \* the loops: "off", "run" or "done"
    held,           \* held[p]: what they have read and not written, <<source, sink>>
    calls, taken,   \* requests that the server works on, and all it has taken
    returned        \* returned[p]: the proxy has returned

net == <<conn, up, down, readShut, writeShut>>
caller == <<stdin, stdinOpen, stdoutOpen, stdout>>
loops == <<source, sink, held, returned>>
serving == <<server, calls, taken>>
vars == <<net, caller, loops, serving>>

Init ==
    /\ server = "starting"
    /\ conn = [p \in Proxies |-> "none"]
    /\ up = [p \in Proxies |-> <<>>] /\ down = up
    /\ readShut = [p \in Proxies |-> FALSE] /\ writeShut = readShut
    /\ stdin = [p \in Proxies |-> <<>>] /\ stdout = stdin
    /\ stdinOpen = [p \in Proxies |-> TRUE] /\ stdoutOpen = stdinOpen
    /\ source = [p \in Proxies |-> "off"] /\ sink = source
    /\ held = [p \in Proxies |-> <<None, None>>]
    /\ calls = [p \in Proxies |-> {}]
    /\ taken = [p \in Proxies |-> 0]
    /\ returned = [p \in Proxies |-> FALSE]

-------------------------------------------------------------------------------
(*****************************************************************************)
(* The callers                                                               *)
(*****************************************************************************)

Sent(p) == taken[p] + Len(up[p]) + Len(stdin[p]) + (IF held[p][1] = None THEN 0 ELSE 1)

Request(p) ==
    /\ stdinOpen[p] /\ Sent(p) < MaxRequests
    /\ stdin' = [stdin EXCEPT ![p] = Append(@, Sent(p) + 1)]
    /\ UNCHANGED <<net, loops, serving, stdinOpen, stdoutOpen, stdout>>

CloseStdin(p) ==
    /\ stdinOpen[p]
    /\ stdinOpen' = [stdinOpen EXCEPT ![p] = FALSE]
    /\ UNCHANGED <<net, loops, serving, stdin, stdoutOpen, stdout>>

CloseStdout(p) ==
    /\ stdoutOpen[p]
    /\ stdoutOpen' = [stdoutOpen EXCEPT ![p] = FALSE]
    /\ UNCHANGED <<net, loops, serving, stdin, stdinOpen, stdout>>

-------------------------------------------------------------------------------
(*****************************************************************************)
(* proxy                                                                     *)
(*****************************************************************************)

Dial(p) ==
    /\ source[p] = "off" /\ ~returned[p]
    /\ \/ /\ server = "listening"
          /\ conn' = [conn EXCEPT ![p] = "open"]
          /\ source' = [source EXCEPT ![p] = "run"]
          /\ sink' = [sink EXCEPT ![p] = "run"]
          /\ UNCHANGED returned
       \/ /\ server # "listening"
          /\ returned' = [returned EXCEPT ![p] = TRUE]
          /\ UNCHANGED <<conn, source, sink>>
    /\ UNCHANGED <<up, down, readShut, writeShut, caller, held, serving>>

CloseRead(p) ==
    /\ readShut' = [readShut EXCEPT ![p] = TRUE]
    /\ UNCHANGED down

\* The loop from stdin to the connection: a read, a write, and its end.
SourceRead(p) ==
    /\ source[p] = "run" /\ held[p][1] = None
    /\ stdin[p] # <<>>
    /\ held' = [held EXCEPT ![p][1] = Head(stdin[p])]
    /\ stdin' = [stdin EXCEPT ![p] = Tail(@)]
    /\ UNCHANGED <<net, serving, stdinOpen, stdoutOpen, stdout, source, sink, returned>>

SourceWrite(p) ==
    /\ source[p] = "run" /\ held[p][1] # None
    /\ conn[p] = "open" /\ ~writeShut[p] /\ Len(up[p]) < MaxBuffer
    /\ up' = [up EXCEPT ![p] = Append(@, held[p][1])]
    /\ held' = [held EXCEPT ![p][1] = None]
    /\ UNCHANGED <<conn, down, readShut, writeShut, caller, serving, source, sink, returned>>

SourceEnd(p) ==
    /\ source[p] = "run"
    /\ IF held[p][1] = None THEN stdin[p] = <<>> /\ ~stdinOpen[p]
       ELSE conn[p] = "closed" \/ writeShut[p]
    /\ source' = [source EXCEPT ![p] = "done"]
    /\ CloseRead(p)
    /\ UNCHANGED <<conn, up, writeShut, caller, serving, sink, held, returned>>

\* The loop from the connection to stdout.
SinkRead(p) ==
    /\ sink[p] = "run" /\ held[p][2] = None
    /\ down[p] # <<>>
    /\ held' = [held EXCEPT ![p][2] = Head(down[p])]
    /\ down' = [down EXCEPT ![p] = Tail(@)]
    /\ UNCHANGED <<conn, up, readShut, writeShut, caller, serving, source, sink, returned>>

SinkWrite(p) ==
    /\ sink[p] = "run" /\ held[p][2] # None /\ stdoutOpen[p]
    /\ stdout' = [stdout EXCEPT ![p] = Append(@, held[p][2])]
    /\ held' = [held EXCEPT ![p][2] = None]
    /\ UNCHANGED <<net, serving, stdin, stdinOpen, stdoutOpen, source, sink, returned>>

SinkEnd(p) ==
    /\ sink[p] = "run"
    /\ IF held[p][2] = None THEN down[p] = <<>> /\ (conn[p] = "closed" \/ readShut[p])
       ELSE ~stdoutOpen[p]
    /\ sink' = [sink EXCEPT ![p] = "done"]
    /\ writeShut' = [writeShut EXCEPT ![p] = TRUE]
    /\ UNCHANGED <<conn, up, down, readShut, caller, serving, source, held, returned>>

Return(p) ==
    /\ source[p] = "done" /\ sink[p] = "done" /\ ~returned[p]
    /\ returned' = [returned EXCEPT ![p] = TRUE]
    /\ UNCHANGED <<net, caller, serving, source, sink, held>>

-------------------------------------------------------------------------------
(*****************************************************************************)
(* serve                                                                     *)
(*****************************************************************************)

\* The socket may be taken, and then Run returns.
Listen ==
    /\ server = "starting"
    /\ server' \in {"listening", "stopped"}
    /\ UNCHANGED <<net, caller, loops, calls, taken>>

\* A signal before the server serves makes Serve fail.  Later signals are dropped.
Signal ==
    /\ server \in {"starting", "listening"}
    /\ server' = IF server = "starting" THEN "stopped" ELSE "stopping"
    /\ UNCHANGED <<net, caller, loops, calls, taken>>

\* gRPC takes a request and answers it later, in any order.
Take(p) ==
    /\ server = "listening" /\ conn[p] = "open" /\ up[p] # <<>>
    /\ up' = [up EXCEPT ![p] = Tail(@)]
    /\ calls' = [calls EXCEPT ![p] = @ \cup {Head(up[p])}]
    /\ taken' = [taken EXCEPT ![p] = @ + 1]
    /\ UNCHANGED <<conn, down, readShut, writeShut, caller, loops, server>>

Answer(p) ==
    /\ conn[p] = "open" /\ ~readShut[p] /\ Len(down[p]) < MaxBuffer
    /\ \E c \in calls[p] :
          /\ down' = [down EXCEPT ![p] = Append(@, c)]
          /\ calls' = [calls EXCEPT ![p] = @ \ {c}]
    /\ UNCHANGED <<conn, up, readShut, writeShut, caller, loops, server, taken>>

\* A write that fails, or the end of the requests, ends the connection and its calls.
Disconnect(p) ==
    /\ conn[p] = "open"
    /\ (readShut[p] /\ calls[p] # {}) \/ (writeShut[p] /\ up[p] = <<>>)
    /\ conn' = [conn EXCEPT ![p] = "closed"]
    /\ calls' = [calls EXCEPT ![p] = {}]
    /\ UNCHANGED <<up, down, readShut, writeShut, caller, loops, server, taken>>

\* GracefulStop waits for the calls, then closes the connections.
GracefulStop_Stop ==
    /\ server = "stopping"
    /\ server' = "stopped"
    /\ conn' = [p \in Proxies |-> IF conn[p] = "open" THEN "closed" ELSE conn[p]]
    /\ calls' = [p \in Proxies |-> {}]
    /\ UNCHANGED <<up, down, readShut, writeShut, caller, loops, taken>>
GracefulStop ==
    /\ server = "stopping"
    /\ \A p \in Proxies : calls[p] = {}
    /\ server' = "stopped"
    /\ conn' = [p \in Proxies |-> IF conn[p] = "open" THEN "closed" ELSE conn[p]]
    /\ UNCHANGED <<up, down, readShut, writeShut, caller, loops, calls, taken>>

-------------------------------------------------------------------------------
ProxyStep(p) ==
    \/ Dial(p)
    \/ SourceRead(p) \/ SourceWrite(p) \/ SourceEnd(p)
    \/ SinkRead(p) \/ SinkWrite(p) \/ SinkEnd(p)
    \/ Return(p)
CallerStep(p) == Request(p) \/ CloseStdin(p) \/ CloseStdout(p)
ServerStep(p) == Take(p) \/ Answer(p) \/ Disconnect(p)

Next ==
    \/ \E p \in Proxies : ProxyStep(p) \/ CallerStep(p) \/ ServerStep(p)
    \/ Listen \/ Signal \/ GracefulStop

\* The loops of a proxy are goroutines of their own.  The server takes what comes
\* and its calls end; nothing is assumed of callers and signals.
Fairness ==
    /\ \A p \in Proxies :
          /\ WF_vars(Dial(p) \/ SourceRead(p) \/ SourceWrite(p) \/ SourceEnd(p))
          /\ WF_vars(SinkRead(p) \/ SinkWrite(p) \/ SinkEnd(p))
          /\ WF_vars(Return(p))
          /\ WF_vars(Take(p)) /\ WF_vars(Answer(p)) /\ WF_vars(Disconnect(p))
    /\ WF_vars(GracefulStop)

Spec == Init /\ [][Next]_vars /\ Fairness

-------------------------------------------------------------------------------
(*****************************************************************************)
(* Properties                                                                *)
(*****************************************************************************)

\* A caller that keeps stdin and stdout open has, when its proxy returns, the answer
\* to every request that the server took, also if the server stopped or the caller
\* sent more after that (Proxy's CloseRead and CloseWrite, ServeCmd's GracefulStop).
RepliesAreDelivered ==
    \A p \in Proxies :
        returned[p] /\ stdinOpen[p] /\ stdoutOpen[p] =>
            { stdout[p][i] : i \in DOMAIN stdout[p] } = 1..taken[p]

===============================================================================
