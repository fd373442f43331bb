---------------------------- MODULE TcpForward ----------------------------
(***************************************************************************)
(* One TCP port of the pure-go backend, through removals and new           *)
(* additions.  Every forwarding of the port has a goroutine that accepts   *)
(* connections and one that dispatches them, and every connection a        *)
(* handler with one copier per direction.                                  *)
(*                                                                         *)
(* Data is counted in reads: a copier takes one segment at a time, in      *)
(* order.  Both peers read what they are sent; a write never waits.  A     *)
(* connection that breaks is one that its peer closed, so that what was    *)
(* sent before can still be read.                                          *)
(***************************************************************************)
EXTENDS Naturals, Sequences, FiniteSets, SequencesExt

CONSTANTS Conns,         \* connections that clients may open
          MaxPipes,      \* bound on dials that succeed; the others fail or hang
          MaxOpens,      \* bound on forwardings of the port, one after another, and
                         \* connections to it, together
          MaxData,       \* bound on segments per direction of a connection
          TcpFaults,     \* which operations may fail: "accept", "dial"
          MaxTcpFaults   \* bound on operations that fail

VARIABLES
  closed,     \* PureGo.cancel was called: every context descends from it
  listed,     \* the guard lists the port
  fwd,        \* the calls of forwardTCP that succeeded, in order
  conn,       \* the connections
  failed      \* history: the operations that failed

tcpVars == <<closed, listed, fwd, conn, failed>>

Dirs == {"up", "down"}                        \* client to target, target to client
Ends == {"client", "target"}
Source == [up |-> "client", down |-> "target"]
Sink   == [up |-> "target", down |-> "client"]
Forwards == 1..Len(fwd)

Forwarding == [cancelled : BOOLEAN, listening : BOOLEAN, dispatching : BOOLEAN,
               acceptor : {"accept", "hand", "gone"}]
Connection == [state : {"new", "queued", "held", "dialing", "piping", "closed"}, by : Nat,
               end  : [Ends -> {"off", "open", "shut", "closed"}],
               pc   : [Dirs -> {"off", "read", "write", "ended"}],
               sent : [Dirs -> 0..MaxData], got : [Dirs -> Nat], put : [Dirs -> Nat],
               late : [Dirs -> BOOLEAN]]

TcpTypeOK ==
  /\ closed \in BOOLEAN /\ listed \in BOOLEAN
  /\ fwd \in Seq(Forwarding) /\ Len(fwd) <= MaxOpens
  /\ conn \in [Conns -> Connection]
  /\ \A c \in Conns :
       /\ conn[c].by \in 0..Len(fwd) /\ (conn[c].by = 0 <=> conn[c].state = "new")
       /\ \A d \in Dirs : conn[c].put[d] <= conn[c].got[d] /\ conn[c].got[d] <= conn[c].sent[d]
  /\ failed \in Seq(TcpFaults) /\ Len(failed) <= MaxTcpFaults

NewConn == [state |-> "new", by |-> 0, end |-> [e \in Ends |-> "off"],
            pc   |-> [d \in Dirs |-> "off"],
            sent |-> [d \in Dirs |-> 0],     \* segments the source wrote
            got  |-> [d \in Dirs |-> 0],     \* segments the copier read
            put  |-> [d \in Dirs |-> 0],     \* segments that reached the sink
            late |-> [d \in Dirs |-> FALSE]] \* history: a read ended after the removal

TcpInit ==
  /\ closed = FALSE /\ listed = FALSE /\ fwd = <<>>
  /\ conn = [c \in Conns |-> NewConn] /\ failed = <<>>

TcpFail(kind) == kind \in TcpFaults /\ Len(failed) < MaxTcpFaults /\ failed' = Append(failed, kind)
Removed(c) == fwd[conn[c].by].cancelled
MayOpen == Len(fwd) + Cardinality({c \in Conns : conn[c].state # "new"}) < MaxOpens

\* Both connections are closed; what the copiers held is gone.
Over(k) == [k EXCEPT !.state = "closed", !.pc = [d \in Dirs |-> "ended"], !.got = k.put,
                     !.late = [d \in Dirs |-> FALSE]]

-----------------------------------------------------------------------------
(* The backend: AddForwarding, RemoveForwarding and Close.                 *)

\* The guard lets a port in that it does not list and nobody listens on; the
\* calls that find the port taken change nothing.
TcpAdd ==
  /\ ~listed /\ MayOpen /\ \A g \in Forwards : ~fwd[g].listening
  /\ listed' = TRUE
  /\ fwd' = Append(fwd, [cancelled |-> closed, listening |-> TRUE, dispatching |-> TRUE,
                         acceptor |-> "accept"])
  /\ UNCHANGED <<closed, conn, failed>>

\* The context of the last forwarding is cancelled; nobody waits for it to end.
TcpRemove ==
  /\ listed /\ listed' = FALSE
  /\ fwd' = [fwd EXCEPT ![Len(fwd)].cancelled = TRUE]
  /\ UNCHANGED <<closed, conn, failed>>

\* Close does not take the guard's mutex and leaves its books alone.
TcpClose ==
  /\ ~closed /\ closed' = TRUE
  /\ fwd' = [g \in Forwards |-> [fwd[g] EXCEPT !.cancelled = TRUE]]
  /\ UNCHANGED <<listed, conn, failed>>

-----------------------------------------------------------------------------
(* forwardTCP: the accepting and the dispatching goroutine.                *)

Accept(g) ==
  /\ fwd[g].acceptor = "accept" /\ fwd[g].listening
  /\ \E c \in Conns : /\ conn[c].state = "queued" /\ conn[c].by = g
                      /\ conn' = [conn EXCEPT ![c].state = "held"]
  /\ fwd' = [fwd EXCEPT ![g].acceptor = "hand"]
  /\ UNCHANGED <<closed, listed, failed>>

AcceptEnds(g) ==
  /\ fwd[g].acceptor = "accept" /\ ~fwd[g].listening
  /\ fwd' = [fwd EXCEPT ![g].acceptor = "gone"]
  /\ UNCHANGED <<closed, listed, conn, failed>>

\* A passing error (out of descriptors) ends the goroutine as well: the socket
\* then listens and nobody accepts.
AcceptFails(g) ==
  /\ fwd[g].acceptor = "accept" /\ TcpFail("accept")
  /\ fwd' = [fwd EXCEPT ![g].acceptor = "gone"]
  /\ UNCHANGED <<closed, listed, conn>>

\* Mutant: the dispatcher handles a connection itself, one after the other.
DispatchInTurn(g) ==
  /\ fwd[g].acceptor = "hand" /\ fwd[g].dispatching
  /\ \A c \in Conns : conn[c].by = g => conn[c].state \notin {"dialing", "piping"}
  /\ fwd' = [fwd EXCEPT ![g].acceptor = "accept"]
  /\ conn' = [c \in Conns |-> IF conn[c].state = "held" /\ conn[c].by = g
                                THEN [conn[c] EXCEPT !.state = "dialing"] ELSE conn[c]]
  /\ UNCHANGED <<closed, listed, failed>>

\* incoming <- conn meets the dispatcher's select, which starts a handler.
\* Once the dispatcher has ended nobody receives, and the sender stays.
Dispatch(g) ==
  /\ fwd[g].acceptor = "hand" /\ fwd[g].dispatching
  /\ fwd' = [fwd EXCEPT ![g].acceptor = "accept"]
  /\ conn' = [c \in Conns |-> IF conn[c].state = "held" /\ conn[c].by = g
                                THEN [conn[c] EXCEPT !.state = "dialing"] ELSE conn[c]]
  /\ UNCHANGED <<closed, listed, failed>>

\* Mutant: the loop ends, and nothing closes the socket.
StopDispatchingOnly(g) ==
  /\ fwd[g].dispatching /\ fwd[g].cancelled
  /\ fwd' = [fwd EXCEPT ![g].dispatching = FALSE]
  /\ UNCHANGED <<closed, listed, conn, failed>>

\* ctx.Done: the socket is closed, and the kernel resets what is queued on it.
StopDispatching(g) ==
  /\ fwd[g].dispatching /\ fwd[g].cancelled
  /\ fwd' = [fwd EXCEPT ![g].dispatching = FALSE, ![g].listening = FALSE]
  /\ conn' = [c \in Conns |-> IF conn[c].state = "queued" /\ conn[c].by = g
                                THEN Over(conn[c]) ELSE conn[c]]
  /\ UNCHANGED <<closed, listed, failed>>

-----------------------------------------------------------------------------
(* The handler of a connection, and pipe with its two copiers.             *)

\* ctxReader looks at the context before it reads, never while it reads.
Loop(c) == IF Removed(c) THEN "ended" ELSE "read"

Dial(c) ==
  /\ conn[c].state = "dialing"
  /\ \/ /\ Cardinality({k \in Conns : conn[k].end.target # "off"}) < MaxPipes
        /\ conn' = [conn EXCEPT ![c].state = "piping", ![c].end.target = "open",
                                ![c].pc = [d \in Dirs |-> Loop(c)]]
        /\ UNCHANGED failed
     \/ TcpFail("dial") /\ conn' = [conn EXCEPT ![c] = Over(@)]
  /\ UNCHANGED <<closed, listed, fwd>>

ReadSegment(c, d) ==
  /\ conn[c].pc[d] = "read" /\ conn[c].got[d] < conn[c].sent[d]
  /\ conn' = [conn EXCEPT ![c].pc[d] = "write", ![c].got[d] = @ + 1,
                          ![c].late[d] = Removed(c)]
  /\ UNCHANGED <<closed, listed, fwd, failed>>

\* Mutant: an end of file is tried again for as long as the context lasts.
ReadEndRetried(c, d) ==
  /\ conn[c].pc[d] = "read" /\ conn[c].got[d] = conn[c].sent[d]
  /\ conn[c].end[Source[d]] # "open" /\ Removed(c)
  /\ conn' = [conn EXCEPT ![c].pc[d] = "ended"]
  /\ UNCHANGED <<closed, listed, fwd, failed>>

\* End of file: this copier ends; the other is not told, and the sink is not
\* told either, as no direction is shut down by itself.
ReadEnd(c, d) ==
  /\ conn[c].pc[d] = "read" /\ conn[c].got[d] = conn[c].sent[d]
  /\ conn[c].end[Source[d]] # "open"
  /\ conn' = [conn EXCEPT ![c].pc[d] = "ended"]
  /\ UNCHANGED <<closed, listed, fwd, failed>>

\* To a sink that has closed, a write fails or is taken by the kernel in vain.
Write(c, d) ==
  /\ conn[c].pc[d] = "write"
  /\ \/ /\ conn[c].end[Sink[d]] # "closed"
        /\ conn' = [conn EXCEPT ![c].pc[d] = Loop(c), ![c].put[d] = @ + 1]
     \/ /\ conn[c].end[Sink[d]] = "closed"
        /\ \E next \in {Loop(c), "ended"} : conn' = [conn EXCEPT ![c].pc[d] = next]
  /\ UNCHANGED <<closed, listed, fwd, failed>>

\* Mutant: pipe returns with the first copier that ends.
FinishFirst(c) ==
  /\ conn[c].state = "piping" /\ \E d \in Dirs : conn[c].pc[d] = "ended"
  /\ conn' = [conn EXCEPT ![c] = Over(@)]
  /\ UNCHANGED <<closed, listed, fwd, failed>>

\* eg.Wait returns when both copiers have.
Finish(c) ==
  /\ conn[c].state = "piping" /\ \A d \in Dirs : conn[c].pc[d] = "ended"
  /\ conn' = [conn EXCEPT ![c] = Over(@)]
  /\ UNCHANGED <<closed, listed, fwd, failed>>

-----------------------------------------------------------------------------
(* Outside: clients and the target.  What a client does before its         *)
(* connection has a handler shows only when it has one.  Connections have  *)
(* no identity: any that is new will do for the next.                      *)

Connect(c) ==
  /\ conn[c].state = "new" /\ MayOpen /\ c = CHOOSE k \in Conns : conn[k].state = "new"
  /\ \E g \in Forwards : /\ fwd[g].listening
                         /\ conn' = [conn EXCEPT ![c].state = "queued", ![c].by = g,
                                                 ![c].end.client = "open"]
  /\ UNCHANGED <<closed, listed, fwd, failed>>

SendSegment(c, d) ==
  /\ conn[c].state = "piping" /\ conn[c].end[Source[d]] = "open" /\ conn[c].sent[d] < MaxData
  /\ conn' = [conn EXCEPT ![c].sent[d] = @ + 1]
  /\ UNCHANGED <<closed, listed, fwd, failed>>

\* An end shuts its sending side down, and still reads, or closes altogether.
Hangup(c, e) ==
  /\ conn[c].state = "piping"
  /\ \E how \in {"shut", "closed"} : /\ conn[c].end[e] \in {"open", "shut"} \ {how}
                                    /\ conn' = [conn EXCEPT ![c].end[e] = how]
  /\ UNCHANGED <<closed, listed, fwd, failed>>

-----------------------------------------------------------------------------
Backend == TcpAdd \/ TcpRemove \/ TcpClose
Accepting(g) == Accept(g) \/ AcceptEnds(g)
Dispatching(g) == Dispatch(g) \/ StopDispatching(g)
Copying(c, d) == ReadSegment(c, d) \/ ReadEnd(c, d) \/ Write(c, d)
Peers(c) == \/ Connect(c) \/ \E d \in Dirs : SendSegment(c, d)
            \/ \E e \in Ends : Hangup(c, e)

Goroutine ==
  \/ \E g \in Forwards : Accepting(g) \/ Dispatching(g)
  \/ \E c \in Conns : Dial(c) \/ Finish(c) \/ \E d \in Dirs : Copying(c, d)

TcpNext ==
  \/ Backend \/ Goroutine
  \/ \E g \in Forwards : AcceptFails(g)
  \/ \E c \in Conns : Peers(c)

\* The scheduler runs every goroutine that can take a step.  Each takes finitely
\* many (none polls, and data is bounded): running some is running all.  The
\* network and the users of the port promise nothing.
TcpFairness == WF_tcpVars(Goroutine)

-----------------------------------------------------------------------------
(* Properties.  What must come true stays true until something new comes:  *)
(* "again and again" is then "in the end", for any number of rounds.       *)

Failed(kind) == kind \in Range(failed)

\* A connection that waits for its turn gets a handler, unless the forwarding
\* is removed, which may leave it in the acceptor's hand for ever, or Accept
\* has failed (tcp.go 25-64).
ConnectionsServed ==
  []<>(\A c \in Conns : conn[c].state \in {"queued", "held"} => Removed(c) \/ Failed("accept"))

\* What a client or a target sent is delivered although its sender has closed,
\* and although the other direction has ended: only a sink that closed
\* or a removal prevents it (tcp.go 57-77: pipe waits for both).
SegmentsDelivered ==
  []<>(\A c \in Conns, d \in Dirs :
         conn[c].put[d] = conn[c].sent[d] \/ conn[c].end[Sink[d]] = "closed" \/ Removed(c))

\* A handler ends, and with it both connections, once each end has closed or
\* has sent after the removal.  One end is not enough: pipe's comment promises
\* that it ends "when the context is canceled" (tcp.go 70), yet a copier that
\* waits for data learns of neither the removal nor the other copier's end.
HandlersEnd ==
  []<>(\A c \in Conns : (\A d \in Dirs : conn[c].end[Source[d]] # "open" \/ conn[c].late[d])
                          => conn[c].state # "piping")

\* A removal frees the port for the next forwarding, whoever is connected and
\* whatever the acceptor is doing (tcp.go 39-46).
PortFreed == []<>(\A g \in Forwards : fwd[g].cancelled => ~fwd[g].listening)
=============================================================================
