----------------------------- MODULE UdpForward -----------------------------
(***************************************************************************)
(* One call of forwardUDP of the pure-go backend: the goroutine that reads *)
(* the port's socket, the one that writes answers to it, and two for each  *)
(* client's session, which talk through bounded channels.                  *)
(*                                                                         *)
(* A packet keeps its number from the client to the target and back, so    *)
(* that where it is can be told.  A select with several ready cases takes  *)
(* any of them; a goroutine's step is what it does between two points      *)
(* where it can wait.  lastActive is left out: a session may be found      *)
(* inactive at any time, as the time between two steps is unbounded.       *)
(***************************************************************************)
EXTENDS Naturals, Sequences, FiniteSets, SequencesExt

CONSTANTS Clients,
          DataCap,       \* capacity of a session's data channel (32)
          QueueCap,      \* capacity of the write queue (256)
          EarlyPackets,  \* TRUE: packets may come before forwardUDP returns
          Faults,        \* which operations may fail: "dial", "write", "read"
          MaxPackets,    \* bound on packets sent by clients
          MaxExpiries,   \* bound on sessions found inactive
          MaxFaults      \* bound on operations that fail

ASSUME ClientsAssumption == IsFiniteSet(Clients)
ASSUME CapAssumption == DataCap \in Nat \ {0} /\ QueueCap \in Nat \ {0}
ASSUME FaultsAssumption == Faults \subseteq {"dial", "write", "read"}
ASSUME EarlyAssumption == EarlyPackets \in BOOLEAN
ASSUME BoundsAssumption == MaxPackets \in Nat /\ MaxExpiries \in Nat /\ MaxFaults \in Nat

VARIABLES
  done,       \* the forwarding's context is cancelled
  returned,   \* forwardUDP returned: its deferred sess.stop() has run
  inbox,      \* the socket's receive buffer
  reader,     \* the reading goroutine
  table,      \* sessions.m: per client a session's number, or 0
  sess,       \* every session ever made, in order
  queue,      \* the write queue
  writing,    \* the writing goroutine runs; when it ends it closes the queue
  panicked,   \* the process died of a panic
  toTarget,   \* packets written to the target, with the client they are for
  toClient,   \* packets written to the socket, with the client they went to
  lost,       \* packets given up: a failed write, or the reader leaving
  sent, expiries, faults,   \* how much of each bound is used
  undialed    \* history: clients whose session failed to dial

channels == <<inbox, table, sess, queue>>
outcomes == <<toTarget, toClient, lost>>
bounds   == <<sent, expiries, faults, undialed>>
vars     == <<done, returned, reader, writing, panicked, channels, outcomes, bounds>>

Packet == [src : Clients, n : 1..MaxPackets]
Carried == [client : Clients, packet : Packet]
Carry(c, p) == [client |-> c, packet |-> p]

Session == [src : Clients, data : Seq(Packet), state : {"spawned", "dialing", "serving", "gone"},
            cancelled : BOOLEAN, arrived : Seq(Packet),
            listener : {"off", "read", "give", "gone"}, hold : Seq(Packet)]
NewSession(c) == [src |-> c, data |-> <<>>, state |-> "spawned", cancelled |-> FALSE,
                  arrived |-> <<>>, listener |-> "off", hold |-> <<>>]
Sessions == 1..Len(sess)

TypeOK ==
  /\ done \in BOOLEAN /\ returned \in BOOLEAN /\ writing \in BOOLEAN /\ panicked \in BOOLEAN
  /\ inbox \in Seq(Packet)
  /\ \/ reader \in [pc : {"poll", "read", "closed"}]
     \/ reader \in [pc : {"give"}, to : Sessions, packet : Packet]
  /\ table \in [Clients -> {0} \cup Sessions]
  /\ sess \in Seq(Session) /\ Len(sess) <= Cardinality(Clients) + MaxExpiries
  /\ \A s \in Sessions : /\ Len(sess[s].data) <= DataCap
                         /\ sess[s].listener = "give" <=> Len(sess[s].hold) = 1
  /\ queue \in Seq(Carried) /\ Len(queue) <= QueueCap
  /\ toTarget \subseteq Carried /\ toClient \subseteq Carried /\ lost \subseteq Packet
  /\ sent \in 0..MaxPackets /\ expiries \in 0..MaxExpiries /\ faults \in 0..MaxFaults
  /\ undialed \subseteq Clients

Init ==
  /\ done = FALSE /\ returned = FALSE /\ panicked = FALSE
  /\ inbox = <<>> /\ reader = [pc |-> "poll"]
  /\ table = [c \in Clients |-> 0] /\ sess = <<>>
  /\ queue = <<>> /\ writing = TRUE
  /\ toTarget = {} /\ toClient = {} /\ lost = {}
  /\ sent = 0 /\ expiries = 0 /\ faults = 0 /\ undialed = {}

Fail(kind) == kind \in Faults /\ faults < MaxFaults /\ faults' = faults + 1

-----------------------------------------------------------------------------
(* Outside: clients, the target, and the owner of the forwarding.          *)

Send(c) ==
  /\ sent < MaxPackets /\ reader.pc # "closed" /\ (returned \/ EarlyPackets)
  /\ sent' = sent + 1
  /\ inbox' = Append(inbox, [src |-> c, n |-> sent + 1])
  /\ UNCHANGED <<done, returned, reader, writing, panicked, table, sess, queue, outcomes,
                 expiries, faults, undialed>>

\* The target answers packet p on the socket of the session that sent it.
Answer(s, p) ==
  /\ sess[s].state = "serving" /\ Carry(sess[s].src, p) \in toTarget
  /\ p \notin UNION {Range(sess[i].arrived) \cup Range(sess[i].hold) : i \in Sessions}
  /\ \A m \in Range(queue) \cup toClient : m.packet # p
  /\ p \notin lost
  /\ sess' = [sess EXCEPT ![s].arrived = Append(@, p)]
  /\ UNCHANGED <<done, returned, reader, writing, panicked, inbox, table, queue, outcomes, bounds>>

\* RemoveForwarding or Close of the backend: the context is cancelled.
RemoveForwarding ==
  /\ returned /\ ~done /\ done' = TRUE
  /\ UNCHANGED <<returned, reader, writing, panicked, channels, outcomes, bounds>>

-----------------------------------------------------------------------------
(* forwardUDP itself, and the reading goroutine.                           *)

\* The deferred sess.stop() runs when forwardUDP returns, not when the
\* context ends.  It reads cancel without synchronisation with serve: it may
\* or may not see one that is set.
Return ==
  /\ ~returned /\ returned' = TRUE
  /\ \E seen \in SUBSET {s \in Sessions : sess[s].state # "spawned" /\ table[sess[s].src] = s} :
       sess' = [s \in Sessions |-> [sess[s] EXCEPT !.cancelled = @ \/ s \in seen]]
  /\ UNCHANGED <<done, reader, writing, panicked, inbox, table, queue, outcomes, bounds>>

Poll ==
  /\ reader.pc = "poll"
  /\ reader' = [pc |-> IF done THEN "closed" ELSE "read"]
  /\ UNCHANGED <<done, returned, writing, panicked, channels, outcomes, bounds>>

ReadTimeout ==
  /\ reader.pc = "read" /\ inbox = <<>>
  /\ reader' = [pc |-> "poll"]
  /\ UNCHANGED <<done, returned, writing, panicked, channels, outcomes, bounds>>

\* A read that fails otherwise returns no address, and the goroutine calls
\* String of it to log the failure.
ReadFails ==
  /\ reader.pc = "read" /\ Fail("read")
  /\ panicked' = TRUE
  /\ UNCHANGED <<done, returned, reader, writing, channels, outcomes, sent, expiries, undialed>>

\* addIfAbsent: the client's session, or a new one whose goroutine starts.
Receive ==
  /\ reader.pc = "read" /\ inbox # <<>>
  /\ LET p == Head(inbox)
         found == table[p.src] # 0
         to == IF found THEN table[p.src] ELSE Len(sess) + 1
     IN /\ reader' = [pc |-> "give", to |-> to, packet |-> p]
        /\ table' = [table EXCEPT ![p.src] = to]
        /\ sess' = IF found THEN sess ELSE Append(sess, NewSession(p.src))
  /\ inbox' = Tail(inbox)
  /\ UNCHANGED <<done, returned, writing, panicked, queue, outcomes, bounds>>

\* Mutant: one buffer for all packets, which the last one read overwrites.
PutShared(s, p) ==
  [i \in Sessions |-> [sess[i] EXCEPT !.data = [j \in 1..Len(@) |-> p] \o IF i = s THEN <<p>> ELSE <<>>]]

\* us.data <- buf[:n]: every packet is read into a buffer of its own.
Put(s, p) == [sess EXCEPT ![s].data = Append(@, p)]

NoRoomNeeded(s) == TRUE     \* mutant: the channel is a list without a limit
Room(s) == Len(sess[s].data) < DataCap

\* Mutant: the packet is dropped when the channel is full.
GiveOrDrop ==
  /\ reader.pc = "give"
  /\ sess' = IF Room(reader.to) THEN Put(reader.to, reader.packet) ELSE sess
  /\ reader' = [pc |-> "poll"]
  /\ UNCHANGED <<done, returned, writing, panicked, inbox, table, queue, outcomes, bounds>>

Give ==
  /\ reader.pc = "give" /\ Room(reader.to)
  /\ sess' = Put(reader.to, reader.packet)
  /\ reader' = [pc |-> "poll"]
  /\ UNCHANGED <<done, returned, writing, panicked, inbox, table, queue, outcomes, bounds>>

\* The send and ctx.Done are cases of one select.
GiveUp ==
  /\ reader.pc = "give" /\ done
  /\ lost' = lost \cup {reader.packet} /\ reader' = [pc |-> "closed"]
  /\ UNCHANGED <<done, returned, writing, panicked, channels, toTarget, toClient, bounds>>

-----------------------------------------------------------------------------
(* A session: serve, and the goroutine that listens to the target.         *)

\* serve makes the session's own context: it descends from Background.
Arm(s) ==
  /\ sess[s].state = "spawned"
  /\ sess' = [sess EXCEPT ![s].state = "dialing"]
  /\ UNCHANGED <<done, returned, reader, writing, panicked, inbox, table, queue, outcomes, bounds>>

Dial(s) ==
  /\ sess[s].state = "dialing"
  /\ \/ sess' = [sess EXCEPT ![s].state = "serving", ![s].listener = "read"] /\ UNCHANGED <<faults, undialed>>
     \/ /\ Fail("dial") /\ undialed' = undialed \cup {sess[s].src}
        /\ sess' = [sess EXCEPT ![s].state = "gone"]
  /\ UNCHANGED <<done, returned, reader, writing, panicked, inbox, table, queue, outcomes, sent, expiries>>

\* A packet for the target; one that cannot be written is logged and dropped.
Forward(s) ==
  /\ sess[s].state = "serving" /\ sess[s].data # <<>>
  /\ LET p == Head(sess[s].data)
     IN \/ toTarget' = toTarget \cup {Carry(sess[s].src, p)} /\ UNCHANGED <<lost, faults>>
        \/ Fail("write") /\ lost' = lost \cup {p} /\ UNCHANGED toTarget
  /\ sess' = [sess EXCEPT ![s].data = Tail(@)]
  /\ UNCHANGED <<done, returned, reader, writing, panicked, inbox, table, queue, toClient,
                 sent, expiries, undialed>>

\* ctx.Done: serve returns and closes its socket, what arrived there is gone.
Finish(s) ==
  /\ sess[s].state = "serving" /\ sess[s].cancelled
  /\ sess' = [sess EXCEPT ![s].state = "gone", ![s].arrived = <<>>]
  /\ UNCHANGED <<done, returned, reader, writing, panicked, inbox, table, queue, outcomes, bounds>>

\* conn.Read.  One that fails is retried at once, on a closed socket for ever.
Listen(s) ==
  /\ sess[s].listener = "read" /\ sess[s].arrived # <<>>
  /\ sess' = [sess EXCEPT ![s].listener = "give", ![s].hold = <<Head(sess[s].arrived)>>,
                          ![s].arrived = Tail(@)]
  /\ UNCHANGED <<done, returned, reader, writing, panicked, inbox, table, queue, outcomes, bounds>>

\* Mutant: the answer is dropped when the queue is full.
ReplyOrDrop(s) ==
  /\ sess[s].listener = "give" /\ writing
  /\ queue' = IF Len(queue) < QueueCap
                THEN Append(queue, Carry(sess[s].src, Head(sess[s].hold))) ELSE queue
  /\ sess' = [sess EXCEPT ![s].listener = "read", ![s].hold = <<>>]
  /\ UNCHANGED <<done, returned, reader, writing, panicked, inbox, table, outcomes, bounds>>

\* s.writeQueue <- msg: when the writer has closed the queue, this panics.
Reply(s) ==
  /\ sess[s].listener = "give"
  /\ \/ /\ writing /\ Len(queue) < QueueCap
        /\ queue' = Append(queue, Carry(sess[s].src, Head(sess[s].hold)))
        /\ sess' = [sess EXCEPT ![s].listener = "read", ![s].hold = <<>>]
        /\ UNCHANGED panicked
     \/ ~writing /\ panicked' = TRUE /\ UNCHANGED <<queue, sess>>
  /\ UNCHANGED <<done, returned, reader, writing, inbox, table, outcomes, bounds>>

StopListening(s) ==
  /\ sess[s].listener = "give" /\ sess[s].cancelled
  /\ sess' = [sess EXCEPT ![s].listener = "gone", ![s].hold = <<>>]
  /\ UNCHANGED <<done, returned, reader, writing, panicked, inbox, table, queue, outcomes, bounds>>

\* clean: the session leaves the table; its goroutines are not told.
Expire(c) ==
  /\ table[c] # 0 /\ expiries < MaxExpiries /\ ~done /\ expiries' = expiries + 1
  /\ table' = [table EXCEPT ![c] = 0]
  /\ UNCHANGED <<done, returned, reader, writing, panicked, inbox, sess, queue, outcomes, sent, faults, undialed>>

-----------------------------------------------------------------------------
(* The writing goroutine.                                                  *)

\* conn.WriteTo: on a socket that the reader has closed it fails.
Write ==
  /\ writing /\ queue # <<>>
  /\ LET m == Head(queue)
     IN \/ reader.pc # "closed" /\ toClient' = toClient \cup {m} /\ UNCHANGED <<lost, faults>>
        \/ Fail("write") /\ lost' = lost \cup {m.packet} /\ UNCHANGED toClient
        \/ reader.pc = "closed" /\ lost' = lost \cup {m.packet} /\ UNCHANGED <<toClient, faults>>
  /\ queue' = Tail(queue)
  /\ UNCHANGED <<done, returned, reader, writing, panicked, inbox, table, sess, toTarget, sent, expiries, undialed>>

\* ctx.Done: the goroutine returns and its defer closes the queue.
StopWriting ==
  /\ writing /\ done /\ writing' = FALSE
  /\ UNCHANGED <<done, returned, reader, panicked, channels, outcomes, bounds>>

-----------------------------------------------------------------------------
ReaderStep == Poll \/ ReadTimeout \/ Receive \/ Give \/ GiveUp \/ ReadFails
SessionStep(s) == Arm(s) \/ Dial(s) \/ Forward(s) \/ Finish(s)
ListenerStep(s) == Listen(s) \/ Reply(s) \/ StopListening(s)
WriterStep == Write \/ StopWriting
Outside == \/ \E c \in Clients : Send(c) \/ Expire(c)
           \/ \E s \in Sessions, p \in Packet : Answer(s, p)
           \/ RemoveForwarding

Next == /\ ~panicked
        /\ \/ Outside \/ Return \/ ReaderStep \/ WriterStep
           \/ \E s \in Sessions : SessionStep(s) \/ ListenerStep(s)

Spec == Init /\ [][Next]_vars

\* The scheduler runs every goroutine that can take a step.  The reader polls;
\* of the other steps a behaviour has finitely many, as packets are bounded, so
\* that running some of them is running all.
OtherStep == \/ Return \/ WriterStep
             \/ \E s \in Sessions : SessionStep(s) \/ ListenerStep(s)
Fairness == WF_vars(~panicked /\ ReaderStep) /\ WF_vars(~panicked /\ OtherStep)

-----------------------------------------------------------------------------
(* Properties.                                                             *)

\* How often packet p is on its way to the target, has reached it or is lost.
Copies(p) ==
  Cardinality({i \in 1..Len(inbox) : inbox[i] = p})
  + Cardinality({s \in Sessions : reader.pc = "give" /\ reader.to = s /\ reader.packet = p})
  + Cardinality({x \in Sessions \X (1..DataCap) :
                   LET held == sess[x[1]]
                   IN x[2] <= Len(held.data) /\ held.data[x[2]] = p /\ held.src = p.src})
  + Cardinality({m \in toTarget : m.packet = p})

\* A packet that a client sent is in one place only, until it is lost by a
\* failed write or a removal: it is not doubled or dropped when its session
\* expires under it, and never in the session of another client (udp.go 53-85, 153-174).
EachPacketOnce ==
  /\ \A p \in Packet : Copies(p) <= 1
  /\ \A n \in 1..sent : Cardinality({p \in Packet : p.n = n /\ (Copies(p) = 1 \/ p \in lost)}) = 1
  /\ \A m \in toTarget \cup toClient : m.client = m.packet.src

\* What the proxy does not recover from: a panic, a session that cannot dial
\* and keeps its place in the table, and a session of an early packet, which
\* the deferred stop cancels.
Broken == panicked \/ undialed # {} \/ \E s \in Sessions : sess[s].cancelled

\* Packets are told apart by their number: some packet of S is the n-th.
Numbered(n, S) == \E p \in S : p.n = n

\* A packet in the socket's buffer reaches the target, or its write fails,
\* unless the forwarding is removed or broken: neither a full channel, nor the
\* expiry of its session, nor another client stops it (udp.go 53-85, 131-143).
RequestsForwarded ==
  \A n \in 1..MaxPackets :
    Numbered(n, Range(inbox))
      ~> (done \/ Broken \/ Numbered(n, lost) \/ Numbered(n, {m.packet : m \in toTarget}))

\* An answer that reached a session is written back to that session's client,
\* or its write fails, unless the forwarding is removed or a session was
\* cancelled; a failed dial does not matter (udp.go 36-47, 111-128).
RepliesDelivered ==
  \A n \in 1..MaxPackets :
    (\E s \in Sessions : Numbered(n, Range(sess[s].arrived)))
      ~> (done \/ panicked \/ (\E s \in Sessions : sess[s].cancelled) \/ Numbered(n, lost)
          \/ Numbered(n, {m.packet : m \in {x \in toClient : x.client = x.packet.src}}))

\* Once the forwarding is removed its port becomes free, whatever state the
\* sessions are in (udp.go 53-84: the reader closes the socket).
SocketFreed == done ~> (reader.pc = "closed" \/ panicked)

\* purego.go 64: "RemoveForwarding stops an active port forwarding for the
\* specified protocol and ports."  It does not stop the process with it.
RemovalDoesNotPanic == ~panicked
=============================================================================
