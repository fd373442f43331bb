----------------------------- MODULE PureGo_proofs -----------------------------
(***************************************************************************)
(* Proofs about PureGo, for every number of clients, connections and       *)
(* forwardings, every capacity of the channels and every bound.  First one *)
(* UDP forwarding: types, and that a packet on its way to the target is in *)
(* one place, whatever expires, fills up or fails.  Then a TCP copier: it  *)
(* neither reads what was not sent nor delivers what it has not read.      *)
(* Both hold of the backend that switches on the protocol.                 *)
(***************************************************************************)
EXTENDS PureGo, FiniteSetTheorems, SequenceTheorems, TLAPS

(* Types need a count of the sessions: each was made for a client without  *)
(* one, which then had one until the session expired.                      *)
Seated == {c \in Clients : table[c] # 0}
Counted == /\ Len(sess) = Cardinality(Seated) + expiries
           /\ \A s \in Sessions : sess[s].state \in {"spawned", "dialing"} => sess[s].listener = "off"

\* Every session carries the packets of its own client, both ways, and an
\* answer is an answer to a packet that reached the target.
Routed ==
  /\ \A c \in Clients : table[c] # 0 => sess[table[c]].src = c
  /\ reader.pc = "give" => sess[reader.to].src = reader.packet.src
  /\ \A s \in Sessions : /\ \A p \in Range(sess[s].data) : p.src = sess[s].src
                         /\ \A p \in Range(sess[s].arrived) \cup Range(sess[s].hold) :
                              Carry(sess[s].src, p) \in toTarget
  /\ Range(queue) \cup toClient \subseteq toTarget
  /\ \A m \in toTarget : m.client = m.packet.src

(* Where a packet is between its client and the target.                    *)
Given      == IF reader.pc = "give" THEN {reader.packet} ELSE {}
Waiting(s) == Range(sess[s].data)
InSessions == UNION {Waiting(s) : s \in Sessions}
Reached    == {m.packet : m \in toTarget}
Somewhere  == Range(inbox) \cup Given \cup InSessions \cup Reached
Known      == Somewhere \cup lost

\* No two places share a packet, and no place has one twice.
Apart ==
  /\ IsInjective(inbox) /\ \A s \in Sessions : IsInjective(sess[s].data)
  /\ Range(inbox) \cap Given = {} /\ Range(inbox) \cap Reached = {} /\ Given \cap Reached = {}
  /\ \A s \in Sessions :
       /\ Waiting(s) \cap (Range(inbox) \cup Given \cup Reached) = {}
       /\ \A t \in Sessions \ {s} : Waiting(s) \cap Waiting(t) = {}

\* The packets that are somewhere or lost are those that were sent: one of each
\* number.
Complete ==
  /\ \A p \in Known : p.n <= sent
  /\ \A n \in 1..sent : \E p \in Known : p.n = n
  /\ \A p, q \in Known : p.n = q.n => p = q

-----------------------------------------------------------------------------
(* Queues.                                                                 *)

\* Putting an element at the end adds it to those in the queue, once.
LEMMA AppendIs ==
  ASSUME NEW S, NEW q \in Seq(S), NEW x \in S
  PROVE  /\ Append(q, x) \in Seq(S) /\ Len(Append(q, x)) = Len(q) + 1
         /\ Range(Append(q, x)) = Range(q) \cup {x}
         /\ IsInjective(q) /\ x \notin Range(q) => IsInjective(Append(q, x))
<1>1. /\ Append(q, x) \in Seq(S) /\ Len(q) \in Nat /\ Len(Append(q, x)) = Len(q) + 1
      /\ DOMAIN q = 1..Len(q) /\ DOMAIN Append(q, x) = 1..(Len(q) + 1)
      /\ \A i \in 1..Len(q) : Append(q, x)[i] = q[i]
      /\ Append(q, x)[Len(q) + 1] = x
  OBVIOUS
<1>2. \A i \in 1..(Len(q) + 1) : i \in 1..Len(q) \/ i = Len(q) + 1
  BY <1>1
<1>3. 1..Len(q) \subseteq 1..(Len(q) + 1) /\ Len(q) + 1 \in 1..(Len(q) + 1)
  BY <1>1
<1>4. Range(Append(q, x)) = Range(q) \cup {x}
  BY <1>1, <1>2, <1>3 DEF Range
<1>5. IsInjective(q) /\ x \notin Range(q) => IsInjective(Append(q, x))
  BY <1>1, <1>2 DEF IsInjective, Range
<1>6. QED
  BY <1>1, <1>4, <1>5

\* Taking the head leaves the others; the head was in the queue, and is not
\* there again if no element was twice.
LEMMA TailIs ==
  ASSUME NEW S, NEW q \in Seq(S), q # <<>>
  PROVE  /\ Head(q) \in S /\ Tail(q) \in Seq(S) /\ Len(Tail(q)) = Len(q) - 1
         /\ Range(q) = Range(Tail(q)) \cup {Head(q)}
         /\ IsInjective(q) => IsInjective(Tail(q)) /\ Head(q) \notin Range(Tail(q))
<1>1. /\ Head(q) \in S /\ Tail(q) \in Seq(S) /\ Len(q) \in Nat /\ Len(q) >= 1
      /\ Len(Tail(q)) = Len(q) - 1
      /\ DOMAIN q = 1..Len(q) /\ DOMAIN Tail(q) = 1..(Len(q) - 1)
      /\ \A i \in 1..(Len(q) - 1) : Tail(q)[i] = q[i + 1]
      /\ Head(q) = q[1]
  OBVIOUS
<1>2. \A i \in 1..Len(q) : i = 1 \/ (i - 1 \in 1..(Len(q) - 1) /\ (i - 1) + 1 = i)
  BY <1>1
<1>3. 1 \in 1..Len(q) /\ \A i \in 1..(Len(q) - 1) : i + 1 \in 1..Len(q) /\ i + 1 # 1
  BY <1>1
<1>4. Range(q) = Range(Tail(q)) \cup {Head(q)}
  <2>1. ASSUME NEW i \in DOMAIN q PROVE q[i] \in Range(Tail(q)) \cup {Head(q)}
    <3>1. CASE i = 1
      BY <1>1, <3>1
    <3>2. CASE i - 1 \in 1..(Len(q) - 1) /\ (i - 1) + 1 = i
      BY <1>1, <3>2 DEF Range
    <3>3. QED
      BY <1>1, <1>2, <2>1, <3>1, <3>2
  <2>2. Head(q) \in Range(q) /\ Range(Tail(q)) \subseteq Range(q)
    BY <1>1, <1>3 DEF Range
  <2>3. QED
    BY <2>1, <2>2 DEF Range
<1>5. ASSUME IsInjective(q) PROVE IsInjective(Tail(q)) /\ Head(q) \notin Range(Tail(q))
  BY <1>1, <1>3, <1>5 DEF IsInjective, Range
<1>6. QED
  BY <1>1, <1>4, <1>5

\* A queue has at most the elements of its set.
LEMMA RangeIs == ASSUME NEW S, NEW q \in Seq(S) PROVE Range(q) \subseteq S
BY DEF Range

\* The empty queue.
LEMMA NothingIs == \A S : <<>> \in Seq(S) /\ Len(<<>>) = 0 /\ Range(<<>>) = {} /\ IsInjective(<<>>)
BY DEF Range, IsInjective

-----------------------------------------------------------------------------
(* Types.                                                                  *)

SessionOK(r) == /\ r \in Session /\ Len(r.data) <= DataCap
                /\ r.listener = "give" <=> Len(r.hold) = 1

\* What a step that changes one session does to all of them.
LEMMA OneSession ==
  ASSUME TypeOK, NEW s \in Sessions, NEW r, SessionOK(r), sess' = [sess EXCEPT ![s] = r]
  PROVE  /\ sess' \in Seq(Session) /\ Len(sess') = Len(sess) /\ Sessions' = Sessions
         /\ \A t \in Sessions : SessionOK(sess'[t]) /\ (t # s => sess'[t] = sess[t])
         /\ sess'[s] = r
BY DEF TypeOK, SessionOK, Sessions

\* The initial state is well typed.
LEMMA TypeInit == Init => TypeOK /\ Counted
<1> SUFFICES ASSUME Init PROVE TypeOK /\ Counted
  OBVIOUS
<1>1. Cardinality(Clients) \in Nat
  BY ClientsAssumption, FS_CardinalityType
<1>2. Len(sess) = 0 /\ sess \in Seq(Session) /\ Sessions = {} /\ table \in [Clients -> {0} \cup Sessions]
  BY DEF Init, Sessions
<1>3. TypeOK
  <2>1. Len(sess) <= Cardinality(Clients) + MaxExpiries
    BY <1>1, <1>2, BoundsAssumption
  <2>2. /\ queue \in Seq(Carried) /\ Len(queue) <= QueueCap /\ inbox \in Seq(Packet)
        /\ reader \in [pc : {"poll", "read", "closed"}]
    BY CapAssumption DEF Init
  <2>3. sent \in 0..MaxPackets /\ expiries \in 0..MaxExpiries /\ faults \in 0..MaxFaults
    BY BoundsAssumption DEF Init
  <2>4. /\ done \in BOOLEAN /\ returned \in BOOLEAN /\ writing \in BOOLEAN /\ panicked \in BOOLEAN
        /\ toTarget \subseteq Carried /\ toClient \subseteq Carried /\ lost \subseteq Packet
        /\ undialed \subseteq Clients
    BY DEF Init
  <2>5. QED
    BY <1>2, <2>1, <2>2, <2>3, <2>4 DEF TypeOK
<1>4. Seated = {}
  BY DEF Init, Seated
<1>5. Counted
  BY <1>2, <1>4, FS_EmptySet DEF Init, Counted
<1>6. QED
  BY <1>3, <1>5

\* Seats are taken and left one at a time.
LEMMA SeatTaken ==
  ASSUME table \in [Clients -> Nat], NEW c \in Clients, NEW n \in Nat,
         table' = [table EXCEPT ![c] = n]
  PROVE  /\ IsFiniteSet(Seated) /\ Cardinality(Seated) \in Nat
         /\ Cardinality(Seated) <= Cardinality(Clients) /\ Cardinality(Clients) \in Nat
         /\ table[c] = 0 => Cardinality(Seated) + 1 <= Cardinality(Clients)
         /\ table[c] = 0 /\ n # 0 => Cardinality(Seated') = Cardinality(Seated) + 1
         /\ table[c] # 0 /\ n = 0 => Cardinality(Seated') = Cardinality(Seated) - 1
         /\ (table[c] = 0 <=> n = 0) => Seated' = Seated
<1>1. Seated \subseteq Clients /\ IsFiniteSet(Clients)
  BY ClientsAssumption DEF Seated
<1>2. /\ IsFiniteSet(Seated) /\ Cardinality(Seated) \in Nat
      /\ Cardinality(Seated) <= Cardinality(Clients) /\ Cardinality(Clients) \in Nat
  BY <1>1, FS_Subset, FS_CardinalityType
<1>3. table[c] = 0 => Cardinality(Seated) + 1 <= Cardinality(Clients)
  <2>1. ASSUME table[c] = 0 PROVE Cardinality(Seated) + 1 <= Cardinality(Clients)
    <3>1. c \notin Seated /\ Seated \cup {c} \subseteq Clients
      BY <1>1, <2>1 DEF Seated
    <3>2. Cardinality(Seated \cup {c}) = Cardinality(Seated) + 1
      BY <1>2, <3>1, FS_AddElement
    <3>3. Cardinality(Seated \cup {c}) <= Cardinality(Clients)
      BY <1>1, <3>1, FS_Subset
    <3>4. QED
      BY <3>2, <3>3
  <2>2. QED
    BY <2>1
<1>4. ASSUME table[c] = 0, n # 0 PROVE Cardinality(Seated') = Cardinality(Seated) + 1
  <2>1. c \notin Seated /\ Seated' = Seated \cup {c}
    BY <1>4 DEF Seated
  <2>2. QED
    BY <1>2, <2>1, FS_AddElement
<1>5. ASSUME table[c] # 0, n = 0 PROVE Cardinality(Seated') = Cardinality(Seated) - 1
  <2>1. c \in Seated /\ Seated' = Seated \ {c}
    BY <1>5 DEF Seated
  <2>2. QED
    BY <1>2, <2>1, FS_RemoveElement
<1>6. (table[c] = 0 <=> n = 0) => Seated' = Seated
  BY DEF Seated
<1>7. QED
  BY <1>2, <1>3, <1>4, <1>5, <1>6

\* Every step keeps every variable in its set, and the count of the sessions.
LEMMA TypeStep == TypeOK /\ Counted /\ [Next]_vars => TypeOK' /\ Counted'
<1> SUFFICES ASSUME TypeOK, Counted, [Next]_vars PROVE TypeOK' /\ Counted'
  OBVIOUS
<1> USE DEF channels, outcomes, bounds
<1>0. /\ sess \in Seq(Session) /\ Len(sess) \in Nat
      /\ \A s \in Sessions : SessionOK(sess[s]) /\ sess[s] \in Session
      /\ \A kind : Fail(kind) => faults' \in 0..MaxFaults
      /\ Sessions = 1..Len(sess)
  <2>1. sess \in Seq(Session) /\ Len(sess) \in Nat /\ Sessions = 1..Len(sess)
    BY DEF TypeOK, Sessions
  <2>2. \A s \in Sessions : SessionOK(sess[s]) /\ sess[s] \in Session
    BY <2>1 DEF TypeOK, SessionOK
  <2>3. \A kind : Fail(kind) => faults' \in 0..MaxFaults
    BY BoundsAssumption DEF TypeOK, Fail
  <2>4. QED
    BY <2>1, <2>2, <2>3
\* A step of one session.
<1>1. ASSUME NEW s \in Sessions, NEW r, SessionOK(r), sess' = [sess EXCEPT ![s] = r],
             r.state \in {"spawned", "dialing"} => r.listener = "off",
             UNCHANGED <<done, returned, writing, inbox, table, expiries, sent>>,
             panicked' \in BOOLEAN, reader' = reader \/ reader' \in [pc : {"poll"}],
             queue' \in Seq(Carried), Len(queue') <= QueueCap,
             toTarget' \subseteq Carried, toClient' \subseteq Carried, lost' \subseteq Packet,
             faults' \in 0..MaxFaults, undialed' \subseteq Clients
      PROVE  TypeOK' /\ Counted'
  <2>1. /\ sess' \in Seq(Session) /\ Len(sess') = Len(sess) /\ Sessions' = Sessions
        /\ \A t \in Sessions : SessionOK(sess'[t]) /\ (t # s => sess'[t] = sess[t])
        /\ sess'[s] = r
    BY <1>1, OneSession
  <2>2. TypeOK'
    BY <1>1, <2>1 DEF TypeOK, SessionOK
  <2>3. Seated' = Seated
    BY <1>1 DEF Seated
  <2>4. Counted'
    BY <1>1, <2>1, <2>3 DEF Counted
  <2>5. QED
    BY <2>2, <2>4
\* A step that leaves the sessions and the table alone.
<1>2. ASSUME UNCHANGED <<sess, table, expiries>>, TypeOK' PROVE TypeOK' /\ Counted'
  BY <1>2 DEF Counted, Seated, Sessions
<1>3. ASSUME NEW c \in Clients, Send(c) PROVE TypeOK' /\ Counted'
  <2>1. sent + 1 \in 1..MaxPackets /\ sent' \in 0..MaxPackets
    BY <1>3, BoundsAssumption DEF Send, TypeOK
  <2>2. [src |-> c, n |-> sent + 1] \in Packet
    BY <2>1 DEF Packet
  <2>3. inbox' \in Seq(Packet)
    BY <1>3, <2>2, AppendIs DEF Send, TypeOK
  <2>4. TypeOK'
    BY <1>3, <2>1, <2>3 DEF Send, TypeOK, Sessions
  <2>5. QED
    BY <1>2, <1>3, <2>4 DEF Send
<1>4. CASE RemoveForwarding \/ Poll \/ ReadTimeout \/ StopWriting \/ UNCHANGED vars
  <2>1. CASE RemoveForwarding
    BY <1>2, <2>1 DEF RemoveForwarding, TypeOK, Sessions
  <2>2. CASE Poll \/ ReadTimeout
    <3>1. reader' \in [pc : {"poll", "read", "closed"}]
      BY <2>2 DEF Poll, ReadTimeout
    <3>2. QED
      BY <1>2, <2>2, <3>1 DEF Poll, ReadTimeout, TypeOK, Sessions
  <2>3. CASE StopWriting
    BY <1>2, <2>3 DEF StopWriting, TypeOK, Sessions
  <2>4. CASE UNCHANGED vars
    BY <1>2, <2>4 DEF vars, TypeOK, Sessions
  <2>5. QED
    BY <1>4, <2>1, <2>2, <2>3, <2>4
<1>5. CASE ReadFails
  <2>1. TypeOK'
    BY <1>0, <1>5 DEF ReadFails, TypeOK, Sessions
  <2>2. QED
    BY <1>2, <1>5, <2>1 DEF ReadFails
<1>6. CASE GiveUp
  <2>1. TypeOK'
    BY <1>6 DEF GiveUp, TypeOK, Sessions
  <2>2. QED
    BY <1>2, <1>6, <2>1 DEF GiveUp
<1>7. CASE Write
  <2>1. Head(queue) \in Carried /\ Tail(queue) \in Seq(Carried) /\ Len(Tail(queue)) <= QueueCap
    BY <1>7, TailIs, CapAssumption DEF Write, TypeOK
  <2>2. faults' \in 0..MaxFaults /\ toClient' \subseteq Carried /\ lost' \subseteq Packet
    BY <1>7, <1>0, <2>1 DEF Write, TypeOK, Carried
  <2>3. TypeOK'
    BY <1>7, <2>1, <2>2 DEF Write, TypeOK, Sessions
  <2>4. QED
    BY <1>2, <1>7, <2>3 DEF Write
<1>8. CASE Return
  <2> DEFINE seen == {s \in Sessions : sess[s].state # "spawned" /\ table[sess[s].src] = s}
  <2>1. PICK some \in SUBSET seen :
          sess' = [s \in Sessions |-> [sess[s] EXCEPT !.cancelled = @ \/ s \in some]]
    BY <1>8 DEF Return
  <2>2. \A s \in Sessions : /\ SessionOK(sess'[s]) /\ sess'[s] \in Session
                            /\ sess'[s].state = sess[s].state /\ sess'[s].listener = sess[s].listener
    <3>1. TAKE s \in Sessions
    <3> DEFINE stop == sess[s].cancelled \/ s \in some
               r    == [sess[s] EXCEPT !.cancelled = stop]
    <3>2. SessionOK(sess[s]) /\ sess[s] \in Session /\ stop \in BOOLEAN
      BY <1>0
    <3>3. sess'[s] = r
      BY <2>1
    <3> HIDE DEF stop
    <3>4. r \in Session /\ r.data = sess[s].data /\ r.state = sess[s].state /\ r.listener = sess[s].listener /\ r.hold = sess[s].hold
      BY <3>2 DEF Session
    <3> HIDE DEF r
    <3>5. QED
      BY <3>2, <3>3, <3>4 DEF SessionOK
  <2>3. sess' \in [1..Len(sess) -> Session]
    BY <1>0, <2>1, <2>2
  <2>4. sess' \in Seq(Session)
    BY <1>0, <2>3, SeqDef
  <2>5. Len(sess') = Len(sess) /\ Sessions' = Sessions
    BY <1>0, <2>3, <2>4 DEF Sessions
  <2>6. TypeOK'
    BY <1>8, <2>2, <2>4, <2>5 DEF Return, TypeOK, SessionOK
  <2>7. Seated' = Seated
    BY <1>8 DEF Return, Seated
  <2>8. Counted'
    BY <1>8, <2>2, <2>5, <2>7 DEF Counted, Return
  <2>9. QED
    BY <2>6, <2>8
<1>9. CASE Receive
  <2> DEFINE p     == Head(inbox)
             found == table[p.src] # 0
             to    == IF found THEN table[p.src] ELSE Len(sess) + 1
  <2>1. /\ p \in Packet /\ p.src \in Clients /\ Tail(inbox) \in Seq(Packet)
        /\ table \in [Clients -> Nat] /\ to \in Nat /\ to # 0
    <3>1. inbox \in Seq(Packet) /\ inbox # <<>> /\ table \in [Clients -> Nat]
      BY <1>9, <1>0 DEF Receive, TypeOK
    <3>2. p \in Packet /\ Tail(inbox) \in Seq(Packet)
      BY <3>1, TailIs
    <3>3. p.src \in Clients
      BY <3>2 DEF Packet
    <3>4. QED
      BY <1>0, <3>1, <3>2, <3>3
  <2>2. CASE found
    <3>1. /\ to \in Sessions /\ UNCHANGED <<sess, table>> /\ Sessions' = Sessions
          /\ reader' = [pc |-> "give", to |-> to, packet |-> p]
      BY <1>9, <2>1, <2>2 DEF Receive, TypeOK, Sessions
    <3>2. TypeOK'
      BY <1>9, <2>1, <3>1 DEF Receive, TypeOK
    <3>3. QED
      BY <1>2, <1>9, <3>1, <3>2 DEF Receive
  <2>3. CASE ~found
    <3> DEFINE new == NewSession(p.src)
    <3>1. /\ sess' = Append(sess, new) /\ table' = [table EXCEPT ![p.src] = Len(sess) + 1]
          /\ reader' = [pc |-> "give", to |-> Len(sess) + 1, packet |-> p]
      BY <1>9, <2>3 DEF Receive
    <3>2. new \in Session /\ SessionOK(new) /\ new.listener = "off"
      BY <2>1, CapAssumption DEF NewSession, Session, SessionOK
    <3>3. /\ sess' \in Seq(Session) /\ Len(sess') = Len(sess) + 1 /\ Sessions' = 1..(Len(sess) + 1)
          /\ \A s \in Sessions : sess'[s] = sess[s]
          /\ sess'[Len(sess) + 1] = new
      BY <1>0, <3>1, <3>2 DEF Sessions
    <3>4. \A s \in Sessions' : s \in Sessions \/ s = Len(sess) + 1
      BY <1>0, <3>3
    <3>5. /\ table[p.src] = 0 /\ Cardinality(Seated') = Cardinality(Seated) + 1
          /\ Cardinality(Seated) + 1 <= Cardinality(Clients)
          /\ Cardinality(Seated) \in Nat /\ Cardinality(Clients) \in Nat
      BY <2>1, <2>3, <3>1, SeatTaken
    <3>6. Len(sess') = Cardinality(Seated') + expiries' /\ Len(sess') <= Cardinality(Clients) + MaxExpiries
      <4>1. Len(sess) = Cardinality(Seated) + expiries /\ expiries' = expiries
        BY <1>9 DEF Counted, Receive
      <4>2. expiries \in Nat /\ MaxExpiries \in Nat /\ expiries <= MaxExpiries
        BY BoundsAssumption DEF TypeOK
      <4>3. QED
        BY <3>3, <3>5, <4>1, <4>2
    <3>7. reader' \in [pc : {"give"}, to : Sessions', packet : Packet]
      BY <1>0, <2>1, <3>1, <3>3
    <3>8. table' \in [Clients -> {0} \cup Sessions']
      BY <1>0, <2>1, <3>1, <3>3 DEF TypeOK
    <3>9. TypeOK'
      BY <1>0, <1>9, <2>1, <3>2, <3>3, <3>4, <3>6, <3>7, <3>8, SMTT(30) DEF Receive, TypeOK, SessionOK
    <3>10. Counted'
      BY <3>2, <3>3, <3>4, <3>6 DEF Counted
    <3>11. QED
      BY <3>9, <3>10
  <2>4. QED
    BY <2>2, <2>3
<1>10. CASE Give
  <2> DEFINE s == reader.to
             r == [sess[s] EXCEPT !.data = Append(@, reader.packet)]
  <2>1. s \in Sessions /\ reader.packet \in Packet /\ Len(sess[s].data) < DataCap
    BY <1>10 DEF Give, Room, TypeOK
  <2>2. Append(sess[s].data, reader.packet) \in Seq(Packet) /\ Len(Append(sess[s].data, reader.packet)) <= DataCap
    BY <1>0, <2>1, AppendIs, CapAssumption, SMTT(30) DEF Session
  <2>3. SessionOK(r) /\ r.state = sess[s].state /\ r.listener = sess[s].listener
    <3>1. sess[s] \in Session /\ SessionOK(sess[s])
      BY <1>0, <2>1
    <3>2. QED
      BY <2>2, <3>1 DEF SessionOK, Session
  <2>4. sess' = [sess EXCEPT ![s] = r]
    BY <1>10 DEF Give, Put
  <2>5. r.state \in {"spawned", "dialing"} => r.listener = "off"
    BY <2>1, <2>3 DEF Counted
  <2> HIDE DEF r
  <2>6. QED
    BY <1>1, <1>10, <2>1, <2>3, <2>4, <2>5 DEF Give, TypeOK
<1>11. ASSUME NEW s \in Sessions, Arm(s) PROVE TypeOK' /\ Counted'
  <2> DEFINE r == [sess[s] EXCEPT !.state = "dialing"]
  <2>1. SessionOK(r) /\ r.listener = "off"
    BY <1>0, <1>11 DEF Arm, SessionOK, Session, Counted
  <2>2. sess' = [sess EXCEPT ![s] = r]
    BY <1>11 DEF Arm
  <2> HIDE DEF r
  <2>3. QED
    BY <1>1, <1>11, <2>1, <2>2 DEF Arm, TypeOK
<1>12. ASSUME NEW s \in Sessions, Dial(s) PROVE TypeOK' /\ Counted'
  <2>1. sess[s].listener = "off" /\ Len(sess[s].hold) # 1
    BY <1>0, <1>12 DEF Dial, Counted, SessionOK
  <2>2. ASSUME NEW r, SessionOK(r), r.state \notin {"spawned", "dialing"}, sess' = [sess EXCEPT ![s] = r],
               faults' \in 0..MaxFaults, undialed' \subseteq Clients
        PROVE  TypeOK' /\ Counted'
    BY <1>1, <1>12, <2>2 DEF Dial, TypeOK
  <2>3. CASE /\ sess' = [sess EXCEPT ![s].state = "serving", ![s].listener = "read"]
             /\ UNCHANGED <<faults, undialed>>
    <3> DEFINE r == [sess[s] EXCEPT !.state = "serving", !.listener = "read"]
    <3>1. SessionOK(r) /\ r.state = "serving"
      BY <1>0, <2>1 DEF SessionOK, Session
    <3>2. sess' = [sess EXCEPT ![s] = r]
      BY <1>0, <2>3
    <3> HIDE DEF r
    <3>3. QED
      BY <2>2, <2>3, <3>1, <3>2 DEF TypeOK
  <2>4. CASE /\ Fail("dial") /\ undialed' = undialed \cup {sess[s].src}
             /\ sess' = [sess EXCEPT ![s].state = "gone"]
    <3> DEFINE r == [sess[s] EXCEPT !.state = "gone"]
    <3>1. SessionOK(r) /\ r.state = "gone" /\ sess[s].src \in Clients
      BY <1>0 DEF SessionOK, Session
    <3>2. sess' = [sess EXCEPT ![s] = r] /\ undialed' \subseteq Clients /\ faults' \in 0..MaxFaults
      BY <1>0, <2>4, <3>1 DEF TypeOK
    <3> HIDE DEF r
    <3>3. QED
      BY <2>2, <3>1, <3>2
  <2>5. QED
    BY <1>12, <2>3, <2>4 DEF Dial
<1>13. ASSUME NEW s \in Sessions, Forward(s) PROVE TypeOK' /\ Counted'
  <2> DEFINE p == Head(sess[s].data)
             r == [sess[s] EXCEPT !.data = Tail(@)]
  <2>1. /\ p \in Packet /\ Tail(sess[s].data) \in Seq(Packet) /\ Len(Tail(sess[s].data)) <= DataCap
        /\ Carry(sess[s].src, p) \in Carried /\ sess[s].state = "serving"
    <3>1. sess[s].data \in Seq(Packet) /\ sess[s].data # <<>> /\ sess[s].src \in Clients
      BY <1>0, <1>13 DEF Forward, Session
    <3>2. p \in Packet /\ Tail(sess[s].data) \in Seq(Packet) /\ Len(Tail(sess[s].data)) = Len(sess[s].data) - 1
      BY <3>1, TailIs
    <3>3. QED
      BY <1>0, <1>13, <3>1, <3>2, CapAssumption DEF Forward, SessionOK, Carry, Carried
  <2>2. SessionOK(r) /\ r.state = "serving"
    BY <1>0, <2>1 DEF SessionOK, Session
  <2>3. sess' = [sess EXCEPT ![s] = r]
    BY <1>13 DEF Forward
  <2>4. toTarget' \subseteq Carried /\ lost' \subseteq Packet /\ faults' \in 0..MaxFaults
    BY <1>0, <1>13, <2>1 DEF Forward, TypeOK
  <2> HIDE DEF r
  <2>5. QED
    BY <1>1, <1>13, <2>2, <2>3, <2>4 DEF Forward, TypeOK
<1>14. ASSUME NEW s \in Sessions, Finish(s) PROVE TypeOK' /\ Counted'
  <2> DEFINE r == [sess[s] EXCEPT !.state = "gone", !.arrived = <<>>]
  <2>1. SessionOK(r) /\ r.state = "gone"
    BY <1>0, NothingIs DEF SessionOK, Session
  <2>2. sess' = [sess EXCEPT ![s] = r]
    BY <1>0, <1>14 DEF Finish
  <2> HIDE DEF r
  <2>3. QED
    BY <1>1, <1>14, <2>1, <2>2 DEF Finish, TypeOK
<1>15. ASSUME NEW s \in Sessions, Listen(s) PROVE TypeOK' /\ Counted'
  <2> DEFINE r == [sess[s] EXCEPT !.listener = "give", !.hold = <<Head(sess[s].arrived)>>, !.arrived = Tail(@)]
  <2>1. /\ sess[s].arrived \in Seq(Packet) /\ sess[s].arrived # <<>>
        /\ sess[s].state \notin {"spawned", "dialing"}
    BY <1>0, <1>15 DEF Listen, Session, Counted
  <2>2. Head(sess[s].arrived) \in Packet /\ Tail(sess[s].arrived) \in Seq(Packet)
    BY <2>1, TailIs
  <2>3. <<Head(sess[s].arrived)>> \in Seq(Packet) /\ Len(<<Head(sess[s].arrived)>>) = 1
    BY <2>2
  <2>4. SessionOK(r) /\ r.state \notin {"spawned", "dialing"}
    BY <1>0, <2>1, <2>2, <2>3 DEF SessionOK, Session
  <2>5. sess' = [sess EXCEPT ![s] = r]
    BY <1>0, <1>15 DEF Listen
  <2> HIDE DEF r
  <2>6. QED
    BY <1>1, <1>15, <2>4, <2>5 DEF Listen, TypeOK
<1>16. ASSUME NEW s \in Sessions, Reply(s) PROVE TypeOK' /\ Counted'
  <2> DEFINE m == Carry(sess[s].src, Head(sess[s].hold))
             r == [sess[s] EXCEPT !.listener = "read", !.hold = <<>>]
  <2>1. CASE ~writing /\ panicked' = TRUE /\ UNCHANGED <<queue, sess>>
    <3>1. TypeOK'
      BY <1>16, <2>1 DEF Reply, TypeOK, Sessions
    <3>2. QED
      BY <1>2, <1>16, <2>1, <3>1 DEF Reply
  <2>2. CASE /\ writing /\ Len(queue) < QueueCap /\ queue' = Append(queue, m) /\ UNCHANGED panicked
             /\ sess' = [sess EXCEPT ![s].listener = "read", ![s].hold = <<>>]
    <3>1. m \in Carried
      <4>1. /\ sess[s].hold \in Seq(Packet) /\ Len(sess[s].hold) = 1 /\ sess[s].src \in Clients
        BY <1>0, <1>16 DEF Reply, SessionOK, Session
      <4>2. Head(sess[s].hold) \in Packet
        BY <4>1
      <4>3. QED
        BY <4>1, <4>2 DEF Carry, Carried
    <3>2. queue' \in Seq(Carried) /\ Len(queue') <= QueueCap
      BY <2>2, <3>1, AppendIs, CapAssumption DEF TypeOK
    <3>3. SessionOK(r) /\ r.state = sess[s].state /\ r.state \notin {"spawned", "dialing"}
      <4>1. /\ sess[s] \in Session /\ SessionOK(sess[s]) /\ <<>> \in Seq(Packet) /\ Len(<<>>) # 1
            /\ sess[s].state \notin {"spawned", "dialing"}
        BY <1>0, <1>16, NothingIs DEF Reply, Counted
      <4>2. /\ r \in Session /\ r.data = sess[s].data /\ r.state = sess[s].state
            /\ r.listener = "read" /\ r.hold = <<>>
        BY <4>1 DEF Session
      <4> HIDE DEF r
      <4>3. QED
        BY <4>1, <4>2 DEF SessionOK
    <3>4. sess' = [sess EXCEPT ![s] = r]
      BY <1>0, <2>2
    <3> HIDE DEF r
    <3>5. QED
      BY <1>1, <1>16, <2>2, <3>2, <3>3, <3>4 DEF Reply, TypeOK
  <2>3. QED
    BY <1>16, <2>1, <2>2 DEF Reply
<1>17. ASSUME NEW s \in Sessions, StopListening(s) PROVE TypeOK' /\ Counted'
  <2> DEFINE r == [sess[s] EXCEPT !.listener = "gone", !.hold = <<>>]
  <2>1. SessionOK(r) /\ r.state = sess[s].state /\ r.state \notin {"spawned", "dialing"}
    <3>1. /\ sess[s] \in Session /\ SessionOK(sess[s]) /\ <<>> \in Seq(Packet) /\ Len(<<>>) # 1
          /\ sess[s].state \notin {"spawned", "dialing"}
      BY <1>0, <1>17, NothingIs DEF StopListening, Counted
    <3>2. /\ r \in Session /\ r.data = sess[s].data /\ r.state = sess[s].state
          /\ r.listener = "gone" /\ r.hold = <<>>
      BY <3>1 DEF Session
    <3> HIDE DEF r
    <3>3. QED
      BY <3>1, <3>2 DEF SessionOK
  <2>2. sess' = [sess EXCEPT ![s] = r]
    BY <1>0, <1>17 DEF StopListening
  <2> HIDE DEF r
  <2>3. QED
    BY <1>1, <1>17, <2>1, <2>2 DEF StopListening, TypeOK
<1>18. ASSUME NEW s \in Sessions, NEW p \in Packet, Answer(s, p) PROVE TypeOK' /\ Counted'
  <2> DEFINE r == [sess[s] EXCEPT !.arrived = Append(@, p)]
  <2>1. Append(sess[s].arrived, p) \in Seq(Packet)
    BY <1>0, AppendIs DEF Session
  <2>2. SessionOK(r) /\ r.state = "serving"
    BY <1>0, <1>18, <2>1 DEF SessionOK, Session, Answer
  <2>3. sess' = [sess EXCEPT ![s] = r]
    BY <1>18 DEF Answer
  <2> HIDE DEF r
  <2>4. QED
    BY <1>1, <1>18, <2>2, <2>3 DEF Answer, TypeOK
<1>19. ASSUME NEW c \in Clients, Expire(c) PROVE TypeOK' /\ Counted'
  <2>1. /\ table \in [Clients -> Nat] /\ table' = [table EXCEPT ![c] = 0] /\ table[c] # 0
        /\ UNCHANGED sess /\ expiries' = expiries + 1 /\ expiries < MaxExpiries
    BY <1>0, <1>19 DEF Expire, TypeOK
  <2>2. Cardinality(Seated') = Cardinality(Seated) - 1 /\ Cardinality(Seated) \in Nat
    BY <2>1, SeatTaken
  <2>3. expiries' \in 0..MaxExpiries
    BY <2>1, BoundsAssumption DEF TypeOK
  <2>4. TypeOK'
    BY <1>19, <2>1, <2>3 DEF Expire, TypeOK, Sessions
  <2>5. Counted'
    <3>1. Len(sess) = Cardinality(Seated) + expiries /\ expiries \in Nat
      BY <1>0 DEF Counted, TypeOK
    <3>2. Len(sess) = Cardinality(Seated') + expiries'
      BY <2>1, <2>2, <3>1
    <3>3. QED
      BY <2>1, <3>2 DEF Counted, Sessions
  <2>6. QED
    BY <2>4, <2>5
<1>20. QED
  BY <1>3, <1>4, <1>5, <1>6, <1>7, <1>8, <1>9, <1>10, <1>11, <1>12, <1>13, <1>14, <1>15, <1>16, <1>17,
     <1>18, <1>19 DEF Next, Outside, ReaderStep, WriterStep, SessionStep, ListenerStep

\* THEOREM: every variable of a UDP forwarding stays in its set: no queue grows
\* over its capacity, and there are no more sessions than clients and expiries.
THEOREM TypeInvariant == Spec => [](TypeOK /\ Counted)
BY TypeInit, TypeStep, PTL DEF Spec

-----------------------------------------------------------------------------
(* Every packet and every answer is with its own client's session.         *)

\* A step of one session, which may write to the target.
LEMMA RoutedOne ==
  ASSUME TypeOK, Routed, NEW s \in Sessions, NEW r, sess' = [sess EXCEPT ![s] = r],
         r.src = sess[s].src, \A p \in Range(r.data) : p.src = r.src,
         \A p \in Range(r.arrived) \cup Range(r.hold) : Carry(r.src, p) \in toTarget',
         toTarget \subseteq toTarget', \A m \in toTarget' : m.client = m.packet.src,
         Range(queue') \cup toClient' \subseteq toTarget',
         table' = table, reader'.pc = "give" => reader' = reader
  PROVE  Routed'
<1>1. /\ Sessions' = Sessions /\ sess'[s] = r
      /\ \A t \in Sessions : (t # s => sess'[t] = sess[t]) /\ sess'[t].src = sess[t].src
  BY DEF TypeOK, Sessions
<1>2. \A c \in Clients : table[c] # 0 => table[c] \in Sessions
  BY DEF TypeOK
<1>3. reader.pc = "give" => reader.to \in Sessions
  BY DEF TypeOK
<1>4. \A t \in Sessions : /\ \A p \in Range(sess'[t].data) : p.src = sess'[t].src
                          /\ \A p \in Range(sess'[t].arrived) \cup Range(sess'[t].hold) :
                               Carry(sess'[t].src, p) \in toTarget'
  <2>1. TAKE t \in Sessions
  <2>2. CASE t = s
    BY <1>1, <2>2
  <2>3. CASE t # s
    BY <1>1, <2>3 DEF Routed
  <2>4. QED
    BY <2>2, <2>3
<1>5. QED
  BY <1>1, <1>2, <1>3, <1>4 DEF Routed

\* A step that leaves the sessions and the target alone.
LEMMA RoutedStill ==
  ASSUME TypeOK, Routed, UNCHANGED <<sess, toTarget>>, Range(queue') \cup toClient' \subseteq toTarget,
         \A c \in Clients : table'[c] # 0 => table'[c] = table[c],
         reader'.pc = "give" => reader' = reader
  PROVE  Routed'
BY DEF Routed, Sessions

\* Every step keeps every packet with its client's session.
LEMMA RoutedStep == TypeOK /\ Counted /\ Routed /\ [Next]_vars => Routed'
<1> SUFFICES ASSUME TypeOK, Counted, Routed, [Next]_vars PROVE Routed'
  OBVIOUS
<1> USE DEF channels, outcomes, bounds
<1>0. /\ sess \in Seq(Session) /\ Len(sess) \in Nat /\ queue \in Seq(Carried) /\ inbox \in Seq(Packet)
      /\ \A s \in Sessions : SessionOK(sess[s]) /\ sess[s] \in Session
      /\ Sessions = 1..Len(sess)
      /\ Range(queue) \subseteq toTarget /\ toClient \subseteq toTarget
      /\ \A m \in toTarget : m.client = m.packet.src
      /\ \A s \in Sessions : /\ \A p \in Range(sess[s].data) : p.src = sess[s].src
                             /\ \A p \in Range(sess[s].arrived) \cup Range(sess[s].hold) :
                                  Carry(sess[s].src, p) \in toTarget
  BY DEF TypeOK, SessionOK, Sessions, Routed
<1>1. ASSUME NEW c \in Clients, Send(c) \/ Expire(c) PROVE Routed'
  <2>1. /\ UNCHANGED <<sess, toTarget, queue, toClient, reader>>
        /\ \A d \in Clients : table'[d] # 0 => table'[d] = table[d]
    BY <1>1 DEF Send, Expire, TypeOK
  <2>2. QED
    BY <1>0, <2>1, RoutedStill
<1>2. CASE RemoveForwarding \/ Poll \/ ReadTimeout \/ ReadFails \/ GiveUp \/ StopWriting \/ UNCHANGED vars
  <2>1. /\ UNCHANGED <<sess, toTarget, queue, toClient, table>>
        /\ reader'.pc = "give" => reader' = reader
    BY <1>2 DEF RemoveForwarding, Poll, ReadTimeout, ReadFails, GiveUp, StopWriting, vars
  <2>2. QED
    BY <1>0, <2>1, RoutedStill
<1>3. CASE Write
  <2>1. Range(queue) = Range(Tail(queue)) \cup {Head(queue)}
    BY <1>0, <1>3, TailIs DEF Write
  <2>2. Range(queue') \cup toClient' \subseteq toTarget
    BY <1>0, <1>3, <2>1 DEF Write
  <2>3. QED
    BY <1>3, <2>2, RoutedStill DEF Write
<1>4. CASE Return
  <2>1. PICK some \in SUBSET Sessions :
          sess' = [s \in Sessions |-> [sess[s] EXCEPT !.cancelled = @ \/ s \in some]]
    BY <1>4 DEF Return
  <2>2. \A s \in Sessions : /\ sess'[s].src = sess[s].src /\ sess'[s].data = sess[s].data
                            /\ sess'[s].arrived = sess[s].arrived /\ sess'[s].hold = sess[s].hold
    BY <1>0, <2>1 DEF Session
  <2>3. Sessions' = Sessions
    BY <1>0, <2>1 DEF Sessions
  <2>4. UNCHANGED <<reader, table, toTarget, toClient, queue>>
    BY <1>4 DEF Return
  <2>5. /\ \A c \in Clients : table'[c] # 0 => sess'[table'[c]].src = c
        /\ reader'.pc = "give" => sess'[reader'.to].src = reader'.packet.src
    BY <2>2, <2>4 DEF Routed, TypeOK
  <2>6. \A s \in Sessions' :
          /\ \A p \in Range(sess'[s].data) : p.src = sess'[s].src
          /\ \A p \in Range(sess'[s].arrived) \cup Range(sess'[s].hold) :
               Carry(sess'[s].src, p) \in toTarget'
    BY <1>0, <2>2, <2>3, <2>4
  <2>7. QED
    BY <2>4, <2>5, <2>6 DEF Routed
<1>5. CASE Receive
  <2> DEFINE p     == Head(inbox)
             found == table[p.src] # 0
             to    == IF found THEN table[p.src] ELSE Len(sess) + 1
  <2>1. p \in Packet /\ p.src \in Clients
    <3>1. p \in Packet
      BY <1>0, <1>5, TailIs DEF Receive
    <3>2. QED
      BY <3>1 DEF Packet
  <2>2. /\ UNCHANGED <<toTarget, toClient, queue>> /\ reader' = [pc |-> "give", to |-> to, packet |-> p]
        /\ table' = [table EXCEPT ![p.src] = to]
        /\ sess' = IF found THEN sess ELSE Append(sess, NewSession(p.src))
    BY <1>5 DEF Receive
  <2>3. CASE found
    <3>1. /\ to \in Sessions /\ sess[to].src = p.src /\ UNCHANGED <<sess, table>>
      BY <2>1, <2>2, <2>3 DEF TypeOK, Routed
    <3>2. QED
      BY <2>2, <3>1 DEF Routed, Sessions
  <2>4. CASE ~found
    <3> DEFINE new == NewSession(p.src)
    <3>1. sess' = Append(sess, new) /\ to = Len(sess) + 1
      BY <2>2, <2>4
    <3>2. /\ new.src = p.src /\ Range(new.data) = {} /\ Range(new.arrived) = {} /\ Range(new.hold) = {}
      BY NothingIs DEF NewSession
    <3>3. /\ Sessions' = 1..(Len(sess) + 1) /\ \A s \in Sessions : sess'[s] = sess[s]
          /\ sess'[Len(sess) + 1] = new
      BY <1>0, <3>1 DEF Sessions
    <3>4. \A s \in Sessions' : s \in Sessions \/ s = Len(sess) + 1
      BY <1>0, <3>3
    <3> HIDE DEF new
    <3>5. \A c \in Clients : table'[c] # 0 => sess'[table'[c]].src = c
      BY <2>1, <2>2, <3>1, <3>2, <3>3 DEF Routed, TypeOK
    <3>6. \A s \in Sessions' : /\ \A q \in Range(sess'[s].data) : q.src = sess'[s].src
                               /\ \A q \in Range(sess'[s].arrived) \cup Range(sess'[s].hold) :
                                    Carry(sess'[s].src, q) \in toTarget'
      <4>1. TAKE s \in Sessions'
      <4>2. CASE s \in Sessions
        <5>1. sess'[s] = sess[s]
          BY <3>3, <4>2
        <5>2. QED
          BY <1>0, <2>2, <4>2, <5>1
      <4>3. CASE s = Len(sess) + 1
        BY <3>2, <3>3, <4>3
      <4>4. QED
        BY <3>4, <4>2, <4>3
    <3>7. sess'[reader'.to].src = reader'.packet.src
      BY <2>2, <3>1, <3>2, <3>3
    <3>8. QED
      BY <1>0, <2>2, <3>5, <3>6, <3>7 DEF Routed
  <2>5. QED
    BY <2>3, <2>4
<1>6. CASE Give
  <2> DEFINE s == reader.to
             r == [sess[s] EXCEPT !.data = Append(@, reader.packet)]
  <2>1. s \in Sessions /\ reader.packet \in Packet /\ reader.packet.src = sess[s].src
    BY <1>6 DEF Give, TypeOK, Routed
  <2>2. sess[s] \in Session /\ Range(Append(sess[s].data, reader.packet)) = Range(sess[s].data) \cup {reader.packet}
    BY <1>0, <2>1, AppendIs, SMTT(30) DEF Session
  <2>3. /\ r.src = sess[s].src /\ r.data = Append(sess[s].data, reader.packet)
        /\ r.arrived = sess[s].arrived /\ r.hold = sess[s].hold
    BY <2>2 DEF Session
  <2>4. sess' = [sess EXCEPT ![s] = r]
    BY <1>6 DEF Give, Put
  <2>5. UNCHANGED <<toTarget, toClient, queue, table>> /\ reader'.pc # "give"
    BY <1>6 DEF Give
  <2> HIDE DEF r
  <2>6. \A p \in Range(r.data) : p.src = r.src
    BY <1>0, <2>1, <2>2, <2>3
  <2>7. QED
    BY <1>0, <2>1, <2>3, <2>4, <2>5, <2>6, RoutedOne
\* The steps of a session that leave its packets where they are.
<1>7. ASSUME NEW s \in Sessions, Arm(s) \/ Dial(s) \/ Finish(s) \/ StopListening(s) PROVE Routed'
  <2> DEFINE Kept(r) == /\ sess' = [sess EXCEPT ![s] = r] /\ r.src = sess[s].src /\ r.data = sess[s].data
                        /\ r.arrived \in {sess[s].arrived, <<>>} /\ r.hold \in {sess[s].hold, <<>>}
  <2>0. sess[s] \in Session
    BY <1>0
  <2>1. PICK r : Kept(r)
    <3>1. CASE Arm(s)
      <4>1. Kept([sess[s] EXCEPT !.state = "dialing"])
        BY <2>0, <3>1 DEF Arm, Session
      <4>2. QED
        BY <4>1
    <3>2. CASE Dial(s)
      <4>1. \/ sess' = [sess EXCEPT ![s].state = "serving", ![s].listener = "read"]
            \/ sess' = [sess EXCEPT ![s].state = "gone"]
        BY <3>2 DEF Dial
      <4>2. \/ Kept([sess[s] EXCEPT !.state = "serving", !.listener = "read"])
            \/ Kept([sess[s] EXCEPT !.state = "gone"])
        BY <1>0, <2>0, <4>1 DEF Session
      <4>3. QED
        BY <4>2
    <3>3. CASE Finish(s)
      <4>1. Kept([sess[s] EXCEPT !.state = "gone", !.arrived = <<>>])
        BY <1>0, <2>0, <3>3 DEF Finish, Session
      <4>2. QED
        BY <4>1
    <3>4. CASE StopListening(s)
      <4>1. Kept([sess[s] EXCEPT !.listener = "gone", !.hold = <<>>])
        BY <1>0, <2>0, <3>4 DEF StopListening, Session
      <4>2. QED
        BY <4>1
    <3>5. QED
      BY <1>7, <3>1, <3>2, <3>3, <3>4
  <2>2. UNCHANGED <<toTarget, toClient, queue, table, reader>>
    BY <1>7 DEF Arm, Dial, Finish, StopListening
  <2>3. Range(r.arrived) \subseteq Range(sess[s].arrived) /\ Range(r.hold) \subseteq Range(sess[s].hold)
    BY <2>1, NothingIs
  <2>4. QED
    BY <1>0, <2>1, <2>2, <2>3, RoutedOne
<1>8. ASSUME NEW s \in Sessions, Forward(s) PROVE Routed'
  <2> DEFINE p == Head(sess[s].data)
             r == [sess[s] EXCEPT !.data = Tail(@)]
  <2>1. /\ sess[s] \in Session /\ Range(sess[s].data) = Range(Tail(sess[s].data)) \cup {p}
    BY <1>0, <1>8, TailIs, SMTT(30) DEF Forward, Session
  <2>2. /\ sess' = [sess EXCEPT ![s] = r] /\ UNCHANGED <<toClient, queue, table, reader>>
        /\ toTarget' = toTarget \/ toTarget' = toTarget \cup {Carry(sess[s].src, p)}
    BY <1>8 DEF Forward
  <2>3. Carry(sess[s].src, p).client = Carry(sess[s].src, p).packet.src
    BY <1>0, <2>1 DEF Carry
  <2>4. /\ r.src = sess[s].src /\ r.data = Tail(sess[s].data)
        /\ r.arrived = sess[s].arrived /\ r.hold = sess[s].hold
    BY <2>1 DEF Session
  <2> HIDE DEF r
  <2>5. \A m \in toTarget' : m.client = m.packet.src
    BY <1>0, <2>2, <2>3
  <2>6. QED
    BY <1>0, <2>1, <2>2, <2>4, <2>5, RoutedOne
<1>9. ASSUME NEW s \in Sessions, Listen(s) PROVE Routed'
  <2> DEFINE p == Head(sess[s].arrived)
             r == [sess[s] EXCEPT !.listener = "give", !.hold = <<p>>, !.arrived = Tail(@)]
  <2>1. /\ sess[s] \in Session /\ Range(sess[s].arrived) = Range(Tail(sess[s].arrived)) \cup {p}
    BY <1>0, <1>9, TailIs, SMTT(30) DEF Listen, Session
  <2>2. Range(<<p>>) = {p}
    BY DEF Range
  <2>3. sess' = [sess EXCEPT ![s] = r] /\ UNCHANGED <<toTarget, toClient, queue, table, reader>>
    BY <1>0, <1>9 DEF Listen
  <2>4. /\ r.src = sess[s].src /\ r.data = sess[s].data
        /\ r.arrived = Tail(sess[s].arrived) /\ r.hold = <<p>>
    BY <2>1 DEF Session
  <2> HIDE DEF r
  <2>5. QED
    BY <1>0, <2>1, <2>2, <2>3, <2>4, RoutedOne
<1>10. ASSUME NEW s \in Sessions, Reply(s) PROVE Routed'
  <2> DEFINE m == Carry(sess[s].src, Head(sess[s].hold))
             r == [sess[s] EXCEPT !.listener = "read", !.hold = <<>>]
  <2>1. CASE UNCHANGED <<queue, sess>>
    BY <1>0, <1>10, <2>1, RoutedStill DEF Reply
  <2>2. CASE /\ queue' = Append(queue, m)
             /\ sess' = [sess EXCEPT ![s].listener = "read", ![s].hold = <<>>]
    <3>1. sess[s] \in Session /\ sess[s].hold \in Seq(Packet) /\ Len(sess[s].hold) = 1
      BY <1>0, <1>10 DEF Reply, SessionOK, Session
    <3>2. Head(sess[s].hold) \in Range(sess[s].hold)
      BY <3>1 DEF Range
    <3>3. m \in toTarget /\ m \in Carried
      BY <1>0, <3>2 DEF TypeOK
    <3>4. Range(queue') = Range(queue) \cup {m}
      BY <1>0, <2>2, <3>3, AppendIs
    <3>5. sess' = [sess EXCEPT ![s] = r] /\ UNCHANGED <<toTarget, toClient, table, reader>>
      BY <1>0, <1>10, <2>2 DEF Reply
    <3>6. r.src = sess[s].src /\ r.data = sess[s].data /\ r.arrived = sess[s].arrived /\ Range(r.hold) = {}
      BY <3>1, NothingIs DEF Session
    <3> HIDE DEF r, m
    <3>7. QED
      BY <1>0, <3>3, <3>4, <3>5, <3>6, RoutedOne
  <2>3. QED
    BY <1>10, <2>1, <2>2 DEF Reply
<1>11. ASSUME NEW s \in Sessions, NEW p \in Packet, Answer(s, p) PROVE Routed'
  <2> DEFINE r == [sess[s] EXCEPT !.arrived = Append(@, p)]
  <2>1. /\ sess[s] \in Session /\ Range(Append(sess[s].arrived, p)) = Range(sess[s].arrived) \cup {p}
        /\ Carry(sess[s].src, p) \in toTarget
    <3>1. sess[s] \in Session /\ Carry(sess[s].src, p) \in toTarget
      BY <1>0, <1>11 DEF Answer
    <3>2. sess[s].arrived \in Seq(Packet)
      BY <3>1 DEF Session
    <3>3. QED
      BY <1>11, <3>1, <3>2, AppendIs
  <2>2. sess' = [sess EXCEPT ![s] = r] /\ UNCHANGED <<toTarget, toClient, queue, table, reader>>
    BY <1>11 DEF Answer
  <2>3. /\ r.src = sess[s].src /\ r.data = sess[s].data /\ r.hold = sess[s].hold
        /\ r.arrived = Append(sess[s].arrived, p)
    BY <2>1 DEF Session
  <2> HIDE DEF r
  <2>4. QED
    BY <1>0, <2>1, <2>2, <2>3, RoutedOne
<1>12. QED
  BY <1>1, <1>2, <1>3, <1>4, <1>5, <1>6, <1>7, <1>8, <1>9, <1>10, <1>11
     DEF Next, Outside, ReaderStep, WriterStep, SessionStep, ListenerStep

-----------------------------------------------------------------------------
(* A packet is in one place.                                               *)

\* Everything that is somewhere is a packet.
LEMMA KnownArePackets == ASSUME TypeOK PROVE Known \subseteq Packet
<1>1. Range(inbox) \subseteq Packet /\ Given \subseteq Packet /\ lost \subseteq Packet
  BY RangeIs DEF TypeOK, Given
<1>2. \A s \in Sessions : Waiting(s) \subseteq Packet
  <2>1. \A s \in Sessions : sess[s].data \in Seq(Packet)
    <3>1. \A s \in Sessions : sess[s] \in Session
      BY DEF TypeOK, Sessions
    <3>2. QED
      BY <3>1 DEF Session
  <2>2. QED
    BY <2>1, RangeIs DEF Waiting
<1>3. Reached \subseteq Packet
  BY DEF Reached, TypeOK, Carried
<1>4. QED
  BY <1>1, <1>2, <1>3 DEF Known, Somewhere, InSessions

\* A step that moves no packet on its way to the target.
LEMMA NothingMoved ==
  ASSUME Apart, Complete, UNCHANGED <<inbox, sent, toTarget>>, Given' = Given, Sessions' = Sessions,
         \A s \in Sessions : sess'[s].data = sess[s].data,
         lost \subseteq lost', lost' \subseteq Known
  PROVE  Apart' /\ Complete'
<1>1. /\ Range(inbox)' = Range(inbox) /\ Reached' = Reached
      /\ \A s \in Sessions : Waiting(s)' = Waiting(s)
  BY DEF Reached, Waiting
<1>2. InSessions' = InSessions
  BY <1>1 DEF InSessions
<1>3. Known' = Known
  BY <1>1, <1>2 DEF Known, Somewhere
<1>4. Complete'
  BY <1>3 DEF Complete
<1>5. Apart'
  BY <1>1 DEF Apart
<1>6. QED
  BY <1>4, <1>5

\* Nothing is anywhere at first.
LEMMA ApartInit == Init => Apart /\ Complete
<1> SUFFICES ASSUME Init PROVE Apart /\ Complete
  OBVIOUS
<1>1. Sessions = {} /\ inbox = <<>> /\ Given = {} /\ Reached = {} /\ lost = {} /\ sent = 0
  BY DEF Init, Sessions, Given, Reached
<1>2. Range(inbox) = {} /\ IsInjective(inbox) /\ InSessions = {} /\ 1..sent = {}
  BY <1>1, NothingIs DEF InSessions
<1>3. QED
  BY <1>1, <1>2 DEF Apart, Complete, Known, Somewhere

\* Every step leaves each packet in one place, or moves one to another.
LEMMA ApartStep ==
  TypeOK /\ Counted /\ Routed /\ Apart /\ Complete /\ [Next]_vars => Apart' /\ Complete'
<1> SUFFICES ASSUME TypeOK, Counted, Routed, Apart, Complete, [Next]_vars PROVE Apart' /\ Complete'
  OBVIOUS
<1> USE DEF channels, outcomes, bounds
<1>0. /\ sess \in Seq(Session) /\ Len(sess) \in Nat /\ inbox \in Seq(Packet) /\ Sessions = 1..Len(sess)
      /\ \A s \in Sessions : sess[s] \in Session /\ sess[s].data \in Seq(Packet)
      /\ Known \subseteq Packet /\ lost \subseteq Known
      /\ Range(queue) \subseteq toTarget
  <2>1. sess \in Seq(Session) /\ Len(sess) \in Nat /\ inbox \in Seq(Packet) /\ Sessions = 1..Len(sess)
    BY DEF TypeOK, Sessions
  <2>2. \A s \in Sessions : sess[s] \in Session
    BY <2>1
  <2>3. \A s \in Sessions : sess[s].data \in Seq(Packet)
    BY <2>2 DEF Session
  <2>4. Known \subseteq Packet /\ lost \subseteq Known /\ Range(queue) \subseteq toTarget
    BY KnownArePackets DEF Known, Routed
  <2>5. QED
    BY <2>1, <2>2, <2>3, <2>4
<1>1. ASSUME NEW c \in Clients, Send(c) PROVE Apart' /\ Complete'
  <2> DEFINE p == [src |-> c, n |-> sent + 1]
  <2>1. /\ sent \in Nat /\ sent + 1 \in 1..MaxPackets /\ inbox' = Append(inbox, p) /\ sent' = sent + 1
        /\ UNCHANGED <<reader, sess, lost, toTarget>>
    BY <1>1, BoundsAssumption DEF Send, TypeOK
  <2>2. p \in Packet /\ p.n = sent + 1
    BY <2>1 DEF Packet
  <2>3. p \notin Known
    BY <2>1, <2>2 DEF Complete
  <2> HIDE DEF p
  <2>4. /\ Range(inbox') = Range(inbox) \cup {p}
        /\ IsInjective(inbox) => IsInjective(inbox')
    BY <1>0, <2>1, <2>2, <2>3, AppendIs DEF Known, Somewhere
  <2>5. /\ Given' = Given /\ Reached' = Reached /\ InSessions' = InSessions /\ Sessions' = Sessions
        /\ \A s \in Sessions : Waiting(s)' = Waiting(s)
    BY <2>1 DEF Given, Reached, InSessions, Waiting, Sessions
  <2>6. Known' = Known \cup {p}
    BY <2>1, <2>4, <2>5 DEF Known, Somewhere
  <2>7. Apart'
    BY <2>1, <2>3, <2>4, <2>5 DEF Apart, Known, Somewhere, InSessions
  <2>8. Complete'
    <3>1. \A q \in Known : q.n \in Nat /\ q.n <= sent
      BY <1>0 DEF Complete, Packet
    <3>2. \A n \in 1..(sent + 1) : n \in 1..sent \/ n = sent + 1
      BY <2>1
    <3>3. QED
      BY <2>1, <2>2, <2>6, <3>1, <3>2 DEF Complete
  <2>9. QED
    BY <2>7, <2>8
<1>2. ASSUME NEW c \in Clients, Expire(c) PROVE Apart' /\ Complete'
  BY <1>0, <1>2, NothingMoved DEF Expire, Given, Sessions
<1>3. CASE RemoveForwarding \/ Poll \/ ReadTimeout \/ ReadFails \/ StopWriting \/ UNCHANGED vars
  <2>1. UNCHANGED <<inbox, sent, toTarget, sess, lost>> /\ Given' = Given
    BY <1>3 DEF RemoveForwarding, Poll, ReadTimeout, ReadFails, StopWriting, vars, Given
  <2>2. QED
    BY <1>0, <2>1, NothingMoved DEF Sessions
<1>4. CASE Write
  <2>1. Head(queue) \in Range(queue)
    BY <1>4, TailIs DEF Write, TypeOK
  <2>2. Head(queue).packet \in Known
    BY <1>0, <2>1 DEF Known, Somewhere, Reached
  <2>3. /\ UNCHANGED <<inbox, sent, toTarget, sess, reader>>
        /\ lost \subseteq lost' /\ lost' \subseteq lost \cup {Head(queue).packet}
    BY <1>4 DEF Write
  <2>4. QED
    BY <1>0, <2>2, <2>3, NothingMoved DEF Given, Sessions
<1>5. CASE Return
  <2>1. PICK some \in SUBSET Sessions :
          sess' = [s \in Sessions |-> [sess[s] EXCEPT !.cancelled = @ \/ s \in some]]
    BY <1>5 DEF Return
  <2>2. \A s \in Sessions : sess'[s].data = sess[s].data
    BY <1>0, <2>1 DEF Session
  <2>3. Sessions' = Sessions
    BY <1>0, <2>1 DEF Sessions
  <2>4. UNCHANGED <<inbox, sent, toTarget, reader, lost>>
    BY <1>5 DEF Return
  <2>5. QED
    BY <1>0, <2>2, <2>3, <2>4, NothingMoved DEF Given
<1>6. CASE Receive
  <2> DEFINE p == Head(inbox)
  <2>1. /\ Given = {} /\ Given' = {p} /\ inbox' = Tail(inbox) /\ UNCHANGED <<sent, toTarget, lost>>
        /\ sess' = sess \/ sess' = Append(sess, NewSession(p.src))
    BY <1>6 DEF Receive, Given
  <2>2. /\ Range(inbox) = Range(inbox') \cup {p}
        /\ IsInjective(inbox) => IsInjective(inbox') /\ p \notin Range(inbox')
    BY <1>0, <1>6, <2>1, TailIs DEF Receive
  <2>3. /\ Sessions \subseteq Sessions' /\ \A s \in Sessions : sess'[s] = sess[s]
        /\ \A s \in Sessions' \ Sessions : sess'[s].data = <<>>
    <3>1. CASE sess' = sess
      BY <3>1 DEF Sessions
    <3>2. CASE sess' = Append(sess, NewSession(p.src))
      <4>1. /\ Sessions' = 1..(Len(sess) + 1) /\ \A s \in Sessions : sess'[s] = sess[s]
            /\ sess'[Len(sess) + 1] = NewSession(p.src)
        BY <1>0, <3>2 DEF Sessions
      <4>2. Sessions \subseteq Sessions' /\ \A s \in Sessions' \ Sessions : s = Len(sess) + 1
        BY <1>0, <4>1
      <4>3. QED
        BY <4>1, <4>2 DEF NewSession
    <3>3. QED
      BY <2>1, <3>1, <3>2
  <2>4. /\ \A s \in Sessions : Waiting(s)' = Waiting(s)
        /\ \A s \in Sessions' \ Sessions : Waiting(s)' = {} /\ IsInjective(sess'[s].data)
    BY <2>3, NothingIs DEF Waiting
  <2>5. Reached' = Reached /\ InSessions' = InSessions
    BY <2>1, <2>3, <2>4 DEF Reached, InSessions
  <2> HIDE DEF p
  <2>6. Known' = Known
    BY <2>1, <2>2, <2>5 DEF Known, Somewhere
  <2>7. Complete'
    BY <2>1, <2>6 DEF Complete
  <2>8. /\ IsInjective(inbox') /\ \A s \in Sessions' : IsInjective(sess'[s].data)
        /\ Range(inbox') \cap Given' = {} /\ Range(inbox') \cap Reached' = {} /\ Given' \cap Reached' = {}
    BY <2>1, <2>2, <2>3, <2>4, <2>5 DEF Apart
  <2>9. \A s \in Sessions' : /\ Waiting(s)' \cap (Range(inbox') \cup Given' \cup Reached') = {}
                             /\ \A t \in Sessions' \ {s} : Waiting(s)' \cap Waiting(t)' = {}
    <3>1. TAKE s \in Sessions'
    <3>2. CASE s \in Sessions
      <4>1. Waiting(s) \cap (Range(inbox) \cup Reached) = {}
        BY <3>2 DEF Apart
      <4>2. \A t \in Sessions' \ {s} : Waiting(s)' \cap Waiting(t)' = {}
        BY <2>4, <3>2 DEF Apart
      <4>3. QED
        BY <2>1, <2>2, <2>4, <2>5, <3>2, <4>1, <4>2
    <3>3. CASE s \notin Sessions
      BY <2>4, <3>1, <3>3
    <3>4. QED
      BY <3>2, <3>3
  <2>10. Apart'
    BY <2>8, <2>9 DEF Apart
  <2>11. QED
    BY <2>7, <2>10
<1>7. CASE Give
  <2>1. PICK s \in Sessions, p \in Packet : reader.to = s /\ reader.packet = p
    BY <1>7 DEF Give, TypeOK
  <2>2. /\ sess' = [sess EXCEPT ![s].data = Append(@, p)] /\ UNCHANGED <<inbox, sent, toTarget, lost>>
        /\ Given = {p} /\ Given' = {}
    BY <1>7, <2>1 DEF Give, Put, Given
  <2>3. /\ Sessions' = Sessions /\ \A t \in Sessions \ {s} : sess'[t] = sess[t]
        /\ sess'[s].data = Append(sess[s].data, p)
    <3>1. sess[s] \in Session /\ s \in 1..Len(sess) /\ sess \in Seq(Session)
      BY <1>0, <2>1 DEF Sessions
    <3>2. [sess[s] EXCEPT !.data = Append(@, p)].data = Append(sess[s].data, p)
      BY <3>1 DEF Session
    <3>3. QED
      BY <2>2, <3>1, <3>2 DEF Sessions
  <2>4. p \notin Waiting(s)
    BY <2>1, <2>2 DEF Apart
  <2>5. IsInjective(sess'[s].data) /\ Waiting(s)' = Waiting(s) \cup {p}
    BY <1>0, <2>1, <2>3, <2>4, AppendIs DEF Apart, Waiting
  <2>6. \A t \in Sessions \ {s} : Waiting(t)' = Waiting(t)
    BY <2>3 DEF Waiting
  <2>7. Reached' = Reached /\ InSessions' = InSessions \cup {p}
    BY <2>1, <2>2, <2>3, <2>5, <2>6 DEF Reached, InSessions
  <2>8. Known' = Known
    BY <2>1, <2>2, <2>7 DEF Known, Somewhere
  <2>9. Complete'
    BY <2>2, <2>8 DEF Complete
  <2>10. Apart'
    BY <2>1, <2>2, <2>3, <2>5, <2>6, <2>7 DEF Apart
  <2>11. QED
    BY <2>9, <2>10
<1>8. CASE GiveUp
  <2>1. /\ Given = {reader.packet} /\ Given' = {} /\ lost' = lost \cup {reader.packet}
        /\ UNCHANGED <<inbox, sent, toTarget, sess>>
    BY <1>8 DEF GiveUp, Given
  <2>2. /\ Reached' = Reached /\ InSessions' = InSessions /\ Sessions' = Sessions
        /\ \A s \in Sessions : Waiting(s)' = Waiting(s)
    BY <2>1 DEF Reached, InSessions, Waiting, Sessions
  <2>3. Known' = Known
    BY <2>1, <2>2 DEF Known, Somewhere
  <2>4. QED
    BY <2>1, <2>2, <2>3 DEF Apart, Complete
<1>9. ASSUME NEW s \in Sessions, Arm(s) \/ Dial(s) \/ Finish(s) \/ Listen(s) \/ Reply(s) \/ StopListening(s)
      PROVE  Apart' /\ Complete'
  <2>1. Sessions' = Sessions /\ \A t \in Sessions : sess'[t].data = sess[t].data
    <3> DEFINE Kept(r) == sess' = [sess EXCEPT ![s] = r] /\ r.data = sess[s].data
    <3>0. sess[s] \in Session
      BY <1>0
    <3>1. ASSUME NEW r, Kept(r) PROVE Sessions' = Sessions /\ \A t \in Sessions : sess'[t].data = sess[t].data
      BY <1>0, <3>1 DEF Sessions
    <3>2. CASE Arm(s)
      <4>1. Kept([sess[s] EXCEPT !.state = "dialing"])
        BY <3>0, <3>2 DEF Arm, Session
      <4>2. QED
        BY <3>1, <4>1
    <3>3. CASE Dial(s)
      <4>1. \/ sess' = [sess EXCEPT ![s].state = "serving", ![s].listener = "read"]
            \/ sess' = [sess EXCEPT ![s].state = "gone"]
        BY <3>3 DEF Dial
      <4>2. \/ Kept([sess[s] EXCEPT !.state = "serving", !.listener = "read"])
            \/ Kept([sess[s] EXCEPT !.state = "gone"])
        BY <1>0, <3>0, <4>1 DEF Session
      <4>3. QED
        BY <3>1, <4>2
    <3>4. CASE Finish(s)
      <4>1. Kept([sess[s] EXCEPT !.state = "gone", !.arrived = <<>>])
        BY <1>0, <3>0, <3>4 DEF Finish, Session
      <4>2. QED
        BY <3>1, <4>1
    <3>5. CASE Listen(s)
      <4>1. Kept([sess[s] EXCEPT !.listener = "give", !.hold = <<Head(sess[s].arrived)>>, !.arrived = Tail(@)])
        BY <1>0, <3>0, <3>5 DEF Listen, Session
      <4>2. QED
        BY <3>1, <4>1
    <3>6. CASE Reply(s)
      <4>1. UNCHANGED sess \/ sess' = [sess EXCEPT ![s].listener = "read", ![s].hold = <<>>]
        BY <3>6 DEF Reply
      <4>2. UNCHANGED sess \/ Kept([sess[s] EXCEPT !.listener = "read", !.hold = <<>>])
        BY <1>0, <3>0, <4>1 DEF Session
      <4>3. QED
        BY <3>1, <4>2 DEF Sessions
    <3>7. CASE StopListening(s)
      <4>1. Kept([sess[s] EXCEPT !.listener = "gone", !.hold = <<>>])
        BY <1>0, <3>0, <3>7 DEF StopListening, Session
      <4>2. QED
        BY <3>1, <4>1
    <3>8. QED
      BY <1>9, <3>2, <3>3, <3>4, <3>5, <3>6, <3>7
  <2>2. UNCHANGED <<inbox, sent, toTarget, reader, lost>>
    BY <1>9 DEF Arm, Dial, Finish, Listen, Reply, StopListening
  <2>3. QED
    BY <1>0, <2>1, <2>2, NothingMoved DEF Given
<1>10. ASSUME NEW s \in Sessions, Forward(s) PROVE Apart' /\ Complete'
  <2> DEFINE p == Head(sess[s].data)
  <2>1. /\ sess' = [sess EXCEPT ![s].data = Tail(@)] /\ sess[s].data # <<>>
        /\ UNCHANGED <<inbox, sent, reader>>
        /\ \/ toTarget' = toTarget \cup {Carry(sess[s].src, p)} /\ UNCHANGED lost
           \/ lost' = lost \cup {p} /\ UNCHANGED toTarget
    BY <1>10 DEF Forward
  <2>2. /\ Sessions' = Sessions /\ \A t \in Sessions \ {s} : sess'[t] = sess[t]
        /\ sess'[s].data = Tail(sess[s].data)
    BY <1>0, <2>1 DEF Sessions, Session
  <2> HIDE DEF p
  <2>3. /\ Waiting(s) = Waiting(s)' \cup {p} /\ p \notin Waiting(s)' /\ IsInjective(sess'[s].data)
    BY <1>0, <2>1, <2>2, TailIs DEF Apart, Waiting, p
  <2>4. Given' = Given /\ \A t \in Sessions \ {s} : Waiting(t)' = Waiting(t)
    BY <2>1, <2>2 DEF Given, Waiting
  <2>5. InSessions = InSessions' \cup {p}
    BY <2>2, <2>3, <2>4 DEF InSessions
  <2>6. /\ Reached \subseteq Reached' /\ Reached' \subseteq Reached \cup {p}
        /\ Reached' \cup lost' = Reached \cup lost \cup {p}
    <3>1. Carry(sess[s].src, p).packet = p
      BY DEF Carry
    <3>2. QED
      BY <2>1, <3>1 DEF Reached
  <2>7. Known' = Known
    BY <2>1, <2>4, <2>5, <2>6 DEF Known, Somewhere
  <2>8. Complete'
    BY <2>1, <2>7 DEF Complete
  <2>9. p \notin Range(inbox) /\ p \notin Given /\ \A t \in Sessions \ {s} : p \notin Waiting(t)
    BY <2>3 DEF Apart
  <2>10. Apart'
    BY <2>1, <2>2, <2>3, <2>4, <2>6, <2>9 DEF Apart
  <2>11. QED
    BY <2>8, <2>10
<1>11. ASSUME NEW s \in Sessions, NEW p \in Packet, Answer(s, p) PROVE Apart' /\ Complete'
  <2>1. Sessions' = Sessions /\ \A t \in Sessions : sess'[t].data = sess[t].data
    BY <1>0, <1>11 DEF Answer, Sessions, Session
  <2>2. UNCHANGED <<inbox, sent, toTarget, reader, lost>>
    BY <1>11 DEF Answer
  <2>3. QED
    BY <1>0, <2>1, <2>2, NothingMoved DEF Given
<1>12. QED
  BY <1>1, <1>2, <1>3, <1>4, <1>5, <1>6, <1>7, <1>8, <1>9, <1>10, <1>11
     DEF Next, Outside, ReaderStep, WriterStep, SessionStep, ListenerStep

-----------------------------------------------------------------------------
(* Counting the places.                                                    *)

\* A set without two elements has one or none.
LEMMA OneAtMost ==
  ASSUME NEW S, \A x, y \in S : x = y
  PROVE  Cardinality(S) = IF S = {} THEN 0 ELSE 1
<1>1. CASE S = {}
  BY <1>1, FS_EmptySet
<1>2. CASE S # {}
  <2>1. PICK x : x \in S
    BY <1>2
  <2>2. S = {x}
    BY <2>1
  <2>3. Cardinality({x}) = 1
    BY FS_Singleton
  <2>4. QED
    BY <1>2, <2>2, <2>3
<1>3. QED
  BY <1>1, <1>2

\* A packet that is somewhere is there once.
LEMMA CopiesAre ==
  ASSUME TypeOK, Routed, Apart, NEW p \in Packet
  PROVE  Copies(p) = IF p \in Somewhere THEN 1 ELSE 0
<1> DEFINE InBuffer == {i \in 1..Len(inbox) : inbox[i] = p}
           AtReader == {s \in Sessions : reader.pc = "give" /\ reader.to = s /\ reader.packet = p}
           AtSession == {x \in Sessions \X (1..DataCap) :
                           LET held == sess[x[1]]
                           IN x[2] <= Len(held.data) /\ held.data[x[2]] = p /\ held.src = p.src}
           AtTarget == {m \in toTarget : m.packet = p}
<1>1. Cardinality(InBuffer) = IF p \in Range(inbox) THEN 1 ELSE 0
  <2>1. /\ DOMAIN inbox = 1..Len(inbox) /\ IsInjective(inbox)
    BY DEF TypeOK, Apart
  <2>2. \A i, j \in InBuffer : i = j
    BY <2>1 DEF IsInjective
  <2>3. InBuffer = {} <=> p \notin Range(inbox)
    BY <2>1 DEF Range
  <2>4. QED
    BY <2>2, <2>3, OneAtMost
<1>2. Cardinality(AtReader) = IF p \in Given THEN 1 ELSE 0
  <2>1. \A s, t \in AtReader : s = t
    OBVIOUS
  <2>2. AtReader = {} <=> p \notin Given
    BY DEF Given, TypeOK
  <2>3. QED
    BY <2>1, <2>2, OneAtMost
<1>3. Cardinality(AtSession) = IF p \in InSessions THEN 1 ELSE 0
  <2>1. \A s \in Sessions : /\ sess[s].data \in Seq(Packet) /\ Len(sess[s].data) <= DataCap
                            /\ p \in Waiting(s) => sess[s].src = p.src
    <3>1. TAKE s \in Sessions
    <3>2. sess[s] \in Session /\ Len(sess[s].data) <= DataCap
      BY DEF TypeOK, Sessions
    <3>3. p \in Waiting(s) => sess[s].src = p.src
      BY DEF Waiting, Routed
    <3>4. QED
      BY <3>2, <3>3 DEF Session
  <2>2. \A s \in Sessions : \A i \in 1..Len(sess[s].data) : i \in 1..DataCap
    BY <2>1, CapAssumption
  <2>3. \A x \in AtSession : /\ x = <<x[1], x[2]>> /\ x[1] \in Sessions /\ x[2] \in 1..Len(sess[x[1]].data)
                             /\ sess[x[1]].data[x[2]] = p /\ p \in Waiting(x[1])
    <3>1. TAKE x \in AtSession
    <3>2. /\ x = <<x[1], x[2]>> /\ x[1] \in Sessions /\ x[2] \in 1..DataCap
          /\ x[2] <= Len(sess[x[1]].data) /\ sess[x[1]].data[x[2]] = p
      OBVIOUS
    <3>3. x[2] \in 1..Len(sess[x[1]].data)
      BY <2>1, <3>2, CapAssumption
    <3>4. QED
      BY <2>1, <3>2, <3>3 DEF Waiting, Range
  <2>4. \A x, y \in AtSession : x = y
    <3>1. TAKE x, y \in AtSession
    <3>2. x[1] = y[1]
      BY <2>3 DEF Apart
    <3>3. IsInjective(sess[x[1]].data) /\ DOMAIN sess[x[1]].data = 1..Len(sess[x[1]].data)
      BY <2>1, <2>3 DEF Apart
    <3>4. x[2] = y[2]
      BY <2>3, <3>2, <3>3 DEF IsInjective
    <3>5. QED
      BY <2>3, <3>2, <3>4
  <2>5. ASSUME p \in InSessions PROVE AtSession # {}
    <3>1. PICK s \in Sessions : p \in Waiting(s)
      BY <2>5 DEF InSessions
    <3>2. PICK i \in 1..Len(sess[s].data) : sess[s].data[i] = p
      BY <2>1, <3>1 DEF Waiting, Range
    <3>3. <<s, i>> \in AtSession
      BY <2>1, <2>2, <3>1, <3>2
    <3>4. QED
      BY <3>3
  <2>6. AtSession = {} <=> p \notin InSessions
    BY <2>3, <2>5 DEF InSessions
  <2> HIDE DEF AtSession
  <2>7. QED
    BY <2>4, <2>6, OneAtMost
<1>4. Cardinality(AtTarget) = IF p \in Reached THEN 1 ELSE 0
  <2>1. \A m \in toTarget : m = [client |-> m.packet.src, packet |-> m.packet]
    BY DEF TypeOK, Carried, Routed
  <2>2. \A m, n \in AtTarget : m = n
    BY <2>1
  <2>3. AtTarget = {} <=> p \notin Reached
    BY DEF Reached
  <2>4. QED
    BY <2>2, <2>3, OneAtMost
<1>5. Copies(p) = Cardinality(InBuffer) + Cardinality(AtReader) + Cardinality(AtSession) + Cardinality(AtTarget)
  BY DEF Copies
<1>6. /\ p \in Range(inbox) => p \notin Given /\ p \notin InSessions /\ p \notin Reached
      /\ p \in Given => p \notin InSessions /\ p \notin Reached
      /\ p \in InSessions => p \notin Reached
  BY DEF Apart, InSessions
<1> HIDE DEF InBuffer, AtReader, AtSession, AtTarget
<1>7. QED
  BY <1>1, <1>2, <1>3, <1>4, <1>5, <1>6 DEF Somewhere

Inv == TypeOK /\ Counted /\ Routed /\ Apart /\ Complete

\* Nothing is anywhere at first.
LEMMA InvInit == Init => Inv
<1>1. Init => Routed
  <2> SUFFICES ASSUME Init PROVE Routed
    OBVIOUS
  <2>1. Sessions = {} /\ queue = <<>> /\ toClient = {} /\ toTarget = {} /\ reader.pc # "give"
    BY DEF Init, Sessions
  <2>2. \A c \in Clients : table[c] = 0
    BY DEF Init
  <2>3. QED
    BY <2>1, <2>2, NothingIs DEF Routed
<1>2. QED
  BY <1>1, TypeInit, ApartInit DEF Inv

\* Every step keeps it.
LEMMA InvStep == Inv /\ [Next]_vars => Inv'
BY TypeStep, RoutedStep, ApartStep DEF Inv

\* Where every packet is in one place, it is there once.
LEMMA InvIsEnough == Inv => EachPacketOnce
<1> SUFFICES ASSUME Inv PROVE EachPacketOnce
  OBVIOUS
<1> USE DEF Inv
<1>1. \A p \in Packet : Copies(p) = IF p \in Somewhere THEN 1 ELSE 0
  BY CopiesAre
<1>2. \A p \in Packet : Copies(p) <= 1
  BY <1>1
<1>3. ASSUME NEW n \in 1..sent
      PROVE  Cardinality({p \in Packet : p.n = n /\ (Copies(p) = 1 \/ p \in lost)}) = 1
  <2> DEFINE N == {p \in Packet : p.n = n /\ (Copies(p) = 1 \/ p \in lost)}
  <2>1. N = {p \in Known : p.n = n}
    BY <1>1, KnownArePackets DEF Known
  <2>2. N # {} /\ \A p, q \in N : p = q
    BY <2>1, <1>3 DEF Complete
  <2> HIDE DEF N
  <2>3. Cardinality(N) = 1
    BY <2>2, OneAtMost
  <2>4. QED
    BY <2>3 DEF N
<1>4. \A m \in toTarget \cup toClient : m.client = m.packet.src
  BY DEF Routed
<1>5. QED
  BY <1>2, <1>3, <1>4 DEF EachPacketOnce

\* THEOREM: a packet that a client sent is in one place only, with its own
\* client's session, until it is lost by a failed write or a removal, for every
\* finite set of clients and every capacity (udp.go 53-85, 153-174).
THEOREM PacketsAreNotDoubled == Spec => []EachPacketOnce
<1>1. Spec => []Inv
  BY InvInit, InvStep, PTL DEF Spec
<1>2. QED
  BY <1>1, InvIsEnough, PTL

-----------------------------------------------------------------------------
(* TCP forwarding.                                                         *)

\* A copier runs only while its connection is piped, and holds what it has read
\* and not yet written.
Copied ==
  \A c \in Conns, d \in T!Dirs :
    /\ conn[c].pc[d] \in {"read", "write"} => conn[c].state = "piping"
    /\ conn[c].pc[d] = "write" => conn[c].put[d] < conn[c].got[d]

TcpInv == T!TcpTypeOK /\ Copied

\* What both say of one connection, when n forwardings were made.
ConnOK(k, n) ==
  /\ k \in T!Connection /\ k.by \in 0..n /\ (k.by = 0 <=> k.state = "new")
  /\ \A d \in T!Dirs :
       /\ k.put[d] <= k.got[d] /\ k.got[d] <= k.sent[d]
       /\ k.pc[d] \in {"read", "write"} => k.state = "piping"
       /\ k.pc[d] = "write" => k.put[d] < k.got[d]

\* The invariant, forwarding by forwarding and connection by connection.
LEMMA TcpInvIs ==
  TcpInv <=> /\ closed \in BOOLEAN /\ listed \in BOOLEAN
             /\ fwd \in Seq(T!Forwarding) /\ Len(fwd) <= MaxOpens
             /\ conn \in [Conns -> T!Connection] /\ \A c \in Conns : ConnOK(conn[c], Len(fwd))
             /\ failed \in Seq(TcpFaults) /\ Len(failed) <= MaxTcpFaults
BY DEF TcpInv, T!TcpTypeOK, Copied, ConnOK

\* A step of one connection.
LEMMA OneConnection ==
  ASSUME TcpInv, NEW c \in Conns, NEW k, ConnOK(k, Len(fwd)), conn' = [conn EXCEPT ![c] = k],
         UNCHANGED <<closed, listed, fwd>>, failed' \in Seq(TcpFaults), Len(failed') <= MaxTcpFaults
  PROVE  TcpInv'
<1>1. conn' \in [Conns -> T!Connection] /\ \A b \in Conns : ConnOK(conn'[b], Len(fwd))
  BY TcpInvIs DEF ConnOK
<1>2. /\ closed' \in BOOLEAN /\ listed' \in BOOLEAN
      /\ fwd' \in Seq(T!Forwarding) /\ Len(fwd') <= MaxOpens
      /\ \A b \in Conns : ConnOK(conn'[b], Len(fwd'))
  BY <1>1, TcpInvIs
<1>3. QED
  BY <1>1, <1>2 DEF TcpInv, T!TcpTypeOK, Copied, ConnOK

\* A step that leaves the connections alone and loses no forwarding.
LEMMA OtherStepOfTcp ==
  ASSUME TcpInv, UNCHANGED conn, closed' \in BOOLEAN, listed' \in BOOLEAN,
         fwd' \in Seq(T!Forwarding), Len(fwd) <= Len(fwd'), Len(fwd') <= MaxOpens,
         failed' \in Seq(TcpFaults), Len(failed') <= MaxTcpFaults
  PROVE  TcpInv'
<1>1. Len(fwd) \in Nat /\ Len(fwd') \in Nat
  BY TcpInvIs
<1>2. \A c \in Conns : ConnOK(conn[c], Len(fwd'))
  BY <1>1, TcpInvIs DEF ConnOK
<1>3. QED
  BY <1>2, TcpInvIs DEF TcpInv, T!TcpTypeOK, Copied, ConnOK

\* TcpForward counts as FiniteSets does.
LEMMA SameCount == \A S : T!Cardinality(S) = Cardinality(S)
BY DEF T!Cardinality, Cardinality

\* At first there is nothing.
LEMMA TcpInvInit == T!TcpInit => TcpInv
<1> SUFFICES ASSUME T!TcpInit PROVE TcpInv
  OBVIOUS
<1>1. T!NewConn \in T!Connection /\ ConnOK(T!NewConn, 0)
  BY TcpBoundsAssumption DEF T!NewConn, T!Connection, ConnOK, T!Ends, T!Dirs
<1>2. /\ closed = FALSE /\ listed = FALSE /\ fwd = <<>> /\ failed = <<>>
      /\ conn = [c \in Conns |-> T!NewConn]
  BY DEF T!TcpInit
<1>3. Len(fwd) = 0 /\ Len(failed) = 0 /\ fwd \in Seq(T!Forwarding) /\ failed \in Seq(TcpFaults)
  BY <1>2
<1>4. conn \in [Conns -> T!Connection] /\ \A c \in Conns : ConnOK(conn[c], Len(fwd))
  BY <1>1, <1>2, <1>3
<1>5. 0 <= MaxOpens /\ 0 <= MaxTcpFaults
  BY TcpBoundsAssumption
<1>6. closed \in BOOLEAN /\ listed \in BOOLEAN /\ Len(fwd) <= MaxOpens /\ Len(failed) <= MaxTcpFaults
  <2>1. closed \in BOOLEAN /\ listed \in BOOLEAN
    BY <1>2
  <2>2. Len(fwd) <= MaxOpens /\ Len(failed) <= MaxTcpFaults
    BY <1>3, <1>5
  <2>3. QED
    BY <2>1, <2>2
<1>7. QED
  BY <1>3, <1>4, <1>6, TcpInvIs

\* Both connections closed: what was read and not written is forgotten.
LEMMA OverIs ==
  ASSUME NEW n \in Nat, NEW k, ConnOK(k, n), k.state # "new" PROVE ConnOK(T!Over(k), n)
<1> DEFINE over == T!Over(k)
<1>1. /\ over \in T!Connection /\ over.by = k.by /\ over.state = "closed"
      /\ over.put = k.put /\ over.got = k.put /\ over.sent = k.sent
      /\ \A d \in T!Dirs : over.pc[d] = "ended"
  BY DEF T!Over, T!Connection, ConnOK
<1>2. \A d \in T!Dirs : k.put[d] \in Nat /\ k.got[d] \in Nat /\ k.sent[d] \in Nat
  BY TcpBoundsAssumption DEF T!Connection, ConnOK
<1> HIDE DEF over
<1>3. ConnOK(over, n)
  BY <1>1, <1>2 DEF ConnOK
<1>4. QED
  BY <1>3 DEF over

\* A connection that is handed on before it is piped.
LEMMA NewState ==
  ASSUME NEW n \in Nat, NEW k, ConnOK(k, n), k.state \in {"queued", "held"}, NEW state \in {"held", "dialing"}
  PROVE  ConnOK([k EXCEPT !.state = state], n)
<1> DEFINE next == [k EXCEPT !.state = state]
<1>1. /\ next \in T!Connection /\ next.state = state
      /\ next.by = k.by /\ next.pc = k.pc /\ next.sent = k.sent /\ next.got = k.got /\ next.put = k.put
  BY DEF T!Connection, ConnOK
<1> HIDE DEF next
<1>2. ConnOK(next, n)
  BY <1>1 DEF ConnOK
<1>3. QED
  BY <1>2 DEF next

\* Every step of the TCP port keeps the invariant.
LEMMA TcpInvStep == TcpInv /\ T!TcpNext => TcpInv'
<1> SUFFICES ASSUME TcpInv, T!TcpNext PROVE TcpInv'
  OBVIOUS
<1>0. /\ closed \in BOOLEAN /\ listed \in BOOLEAN
      /\ fwd \in Seq(T!Forwarding) /\ Len(fwd) \in Nat /\ Len(fwd) <= MaxOpens
      /\ T!Forwards = 1..Len(fwd) /\ \A g \in T!Forwards : fwd[g] \in T!Forwarding
      /\ conn \in [Conns -> T!Connection] /\ \A c \in Conns : ConnOK(conn[c], Len(fwd))
      /\ \A c \in Conns : conn[c] \in T!Connection
      /\ failed \in Seq(TcpFaults) /\ Len(failed) <= MaxTcpFaults
  BY TcpInvIs DEF T!Forwards
<1>1. \A kind : T!TcpFail(kind) => failed' \in Seq(TcpFaults) /\ Len(failed') <= MaxTcpFaults
  <2>1. ASSUME NEW kind, T!TcpFail(kind) PROVE failed' \in Seq(TcpFaults) /\ Len(failed') <= MaxTcpFaults
    BY <1>0, <2>1, AppendIs, TcpBoundsAssumption DEF T!TcpFail
  <2>2. QED
    BY <2>1
<1>2. T!MayOpen => Len(fwd) + 1 <= MaxOpens
  <2>1. Cardinality({c \in Conns : conn[c].state # "new"}) \in Nat
    BY ConnsAssumption, FS_Subset, FS_CardinalityType
  <2>2. T!Cardinality({c \in Conns : conn[c].state # "new"}) \in Nat
    BY <2>1, SameCount
  <2>3. QED
    BY <1>0, <2>2, TcpBoundsAssumption DEF T!MayOpen
\* Who made a connection's forwarding says whether it is removed.
<1>3. \A c \in Conns : conn[c].state # "new" => T!Removed(c) \in BOOLEAN /\ T!Loop(c) \in {"read", "ended"}
  <2>1. \A c \in Conns : conn[c].state # "new" => conn[c].by \in T!Forwards
    BY <1>0 DEF ConnOK
  <2>2. QED
    BY <1>0, <2>1 DEF T!Removed, T!Loop, T!Forwarding
\* A step of one forwarding, which may change several of its connections.
<1>4. ASSUME NEW g \in T!Forwards, NEW f \in T!Forwarding, fwd' = [fwd EXCEPT ![g] = f],
             conn' \in [Conns -> T!Connection], \A c \in Conns : ConnOK(conn'[c], Len(fwd)),
             UNCHANGED <<closed, listed>>, failed' \in Seq(TcpFaults), Len(failed') <= MaxTcpFaults
      PROVE  TcpInv'
  <2>1. fwd' \in Seq(T!Forwarding) /\ Len(fwd') = Len(fwd)
    BY <1>0, <1>4
  <2>2. QED
    BY <1>0, <1>4, <2>1 DEF TcpInv, T!TcpTypeOK, Copied, ConnOK
<1>5. CASE T!TcpAdd
  <2> DEFINE f == [cancelled |-> closed, listening |-> TRUE, dispatching |-> TRUE, acceptor |-> "accept"]
  <2>1. f \in T!Forwarding
    BY <1>0 DEF T!Forwarding
  <2>2. fwd' = Append(fwd, f) /\ UNCHANGED <<closed, conn, failed>> /\ listed' = TRUE /\ Len(fwd) + 1 <= MaxOpens
    BY <1>2, <1>5 DEF T!TcpAdd
  <2> HIDE DEF f
  <2>3. fwd' \in Seq(T!Forwarding) /\ Len(fwd') = Len(fwd) + 1
    BY <1>0, <2>1, <2>2
  <2>4. QED
    BY <1>0, <2>2, <2>3, OtherStepOfTcp
<1>6. CASE T!TcpRemove
  <2>1. /\ fwd' = [fwd EXCEPT ![Len(fwd)] = [fwd[Len(fwd)] EXCEPT !.cancelled = TRUE]]
        /\ UNCHANGED <<closed, conn, failed>> /\ listed' \in BOOLEAN
    BY <1>6 DEF T!TcpRemove
  <2>2. \A g \in T!Forwards : [fwd[g] EXCEPT !.cancelled = TRUE] \in T!Forwarding
    BY <1>0 DEF T!Forwarding
  <2>3. fwd' \in Seq(T!Forwarding) /\ Len(fwd') = Len(fwd)
    <3>1. CASE Len(fwd) = 0
      <4>1. fwd = <<>> /\ fwd' = <<>>
        BY <1>0, <2>1, <3>1
      <4>2. QED
        BY <4>1
    <3>2. CASE Len(fwd) # 0
      <4>1. Len(fwd) \in T!Forwards
        BY <1>0, <3>2
      <4>2. QED
        BY <1>0, <2>1, <2>2, <4>1
    <3>3. QED
      BY <3>1, <3>2
  <2>4. QED
    BY <1>0, <2>1, <2>3, OtherStepOfTcp
<1>7. CASE T!TcpClose
  <2>1. /\ fwd' = [g \in T!Forwards |-> [fwd[g] EXCEPT !.cancelled = TRUE]] /\ closed' = TRUE
        /\ UNCHANGED <<listed, conn, failed>>
    BY <1>7 DEF T!TcpClose
  <2>2. fwd' \in [1..Len(fwd) -> T!Forwarding]
    BY <1>0, <2>1 DEF T!Forwarding
  <2>3. fwd' \in Seq(T!Forwarding) /\ Len(fwd') = Len(fwd)
    BY <1>0, <2>2
  <2>4. QED
    BY <1>0, <2>1, <2>3, OtherStepOfTcp
<1>8. ASSUME NEW g \in T!Forwards, T!Accept(g) PROVE TcpInv'
  <2>1. PICK c \in Conns : conn[c].state = "queued" /\ conn' = [conn EXCEPT ![c].state = "held"]
    BY <1>8 DEF T!Accept
  <2>2. ConnOK([conn[c] EXCEPT !.state = "held"], Len(fwd))
    BY <1>0, <2>1, NewState
  <2>3. conn' \in [Conns -> T!Connection] /\ \A b \in Conns : ConnOK(conn'[b], Len(fwd))
    BY <1>0, <2>1, <2>2 DEF ConnOK
  <2>4. fwd' = [fwd EXCEPT ![g] = [fwd[g] EXCEPT !.acceptor = "hand"]] /\ UNCHANGED <<closed, listed, failed>>
    BY <1>8 DEF T!Accept
  <2>5. [fwd[g] EXCEPT !.acceptor = "hand"] \in T!Forwarding
    BY <1>0 DEF T!Forwarding
  <2>6. QED
    BY <1>0, <1>4, <2>3, <2>4, <2>5
<1>9. ASSUME NEW g \in T!Forwards, T!AcceptEnds(g) \/ T!AcceptFails(g) PROVE TcpInv'
  <2>1. /\ fwd' = [fwd EXCEPT ![g] = [fwd[g] EXCEPT !.acceptor = "gone"]] /\ UNCHANGED <<closed, listed, conn>>
        /\ failed' \in Seq(TcpFaults) /\ Len(failed') <= MaxTcpFaults
    BY <1>0, <1>1, <1>9 DEF T!AcceptEnds, T!AcceptFails
  <2>2. [fwd[g] EXCEPT !.acceptor = "gone"] \in T!Forwarding
    BY <1>0 DEF T!Forwarding
  <2>3. QED
    BY <1>0, <1>4, <2>1, <2>2
<1>10. ASSUME NEW g \in T!Forwards, T!Dispatch(g) PROVE TcpInv'
  <2>1. /\ fwd' = [fwd EXCEPT ![g] = [fwd[g] EXCEPT !.acceptor = "accept"]] /\ UNCHANGED <<closed, listed, failed>>
        /\ conn' = [c \in Conns |-> IF conn[c].state = "held" /\ conn[c].by = g
                                      THEN [conn[c] EXCEPT !.state = "dialing"] ELSE conn[c]]
    BY <1>10 DEF T!Dispatch
  <2>2. [fwd[g] EXCEPT !.acceptor = "accept"] \in T!Forwarding
    BY <1>0 DEF T!Forwarding
  <2>3. \A c \in Conns : conn[c].state = "held" => ConnOK([conn[c] EXCEPT !.state = "dialing"], Len(fwd))
    BY <1>0, NewState
  <2>4. \A c \in Conns : ConnOK(conn'[c], Len(fwd))
    BY <1>0, <2>1, <2>3
  <2>5. conn' \in [Conns -> T!Connection]
    BY <2>1, <2>4 DEF ConnOK
  <2>6. QED
    BY <1>0, <1>4, <2>1, <2>2, <2>4, <2>5
<1>11. ASSUME NEW g \in T!Forwards, T!StopDispatching(g) PROVE TcpInv'
  <2> DEFINE f == [fwd[g] EXCEPT !.dispatching = FALSE, !.listening = FALSE]
  <2>1. /\ fwd' = [fwd EXCEPT ![g] = f] /\ UNCHANGED <<closed, listed, failed>>
        /\ conn' = [c \in Conns |-> IF conn[c].state = "queued" /\ conn[c].by = g
                                      THEN T!Over(conn[c]) ELSE conn[c]]
    BY <1>0, <1>11 DEF T!StopDispatching
  <2>2. f \in T!Forwarding
    BY <1>0 DEF T!Forwarding
  <2>3. \A c \in Conns : ConnOK(conn'[c], Len(fwd))
    BY <1>0, <2>1, OverIs
  <2>4. conn' \in [Conns -> T!Connection]
    BY <2>1, <2>3 DEF ConnOK
  <2> HIDE DEF f
  <2>5. QED
    BY <1>0, <1>4, <2>1, <2>2, <2>3, <2>4
<1>12. ASSUME NEW c \in Conns, T!Dial(c) PROVE TcpInv'
  <2> DEFINE loop == [d \in T!Dirs |-> T!Loop(c)]
             ends == [conn[c].end EXCEPT !["target"] = "open"]
             k    == [conn[c] EXCEPT !.state = "piping", !.end = ends, !.pc = loop]
  <2>1. conn[c].state = "dialing" /\ T!Loop(c) \in {"read", "ended"} /\ UNCHANGED <<closed, listed, fwd>>
    BY <1>3, <1>12 DEF T!Dial
  <2>2. CASE /\ conn' = [conn EXCEPT ![c].state = "piping", ![c].end.target = "open",
                                     ![c].pc = [d \in T!Dirs |-> T!Loop(c)]]
             /\ UNCHANGED failed
    <3>1. conn' = [conn EXCEPT ![c] = k]
      BY <1>0, <2>2
    <3>2. /\ loop \in [T!Dirs -> {"off", "read", "write", "ended"}]
          /\ \A d \in T!Dirs : loop[d] \in {"read", "ended"}
      BY <2>1
    <3>3. ends \in [T!Ends -> {"off", "open", "shut", "closed"}]
      BY <1>0 DEF T!Connection, T!Ends
    <3> HIDE DEF ends, loop
    <3>4. /\ k \in T!Connection /\ k.by = conn[c].by /\ k.state = "piping" /\ k.put = conn[c].put
          /\ k.got = conn[c].got /\ k.sent = conn[c].sent /\ k.pc = loop
      <4>1. conn[c] \in T!Connection
        BY <1>0
      <4>2. QED
        BY <3>2, <3>3, <4>1 DEF T!Connection
    <3> HIDE DEF k
    <3>5. ConnOK(k, Len(fwd))
      BY <1>0, <2>1, <3>2, <3>4 DEF ConnOK
    <3>6. QED
      BY <1>0, <2>1, <2>2, <3>1, <3>5, OneConnection
  <2>3. CASE T!TcpFail("dial") /\ conn' = [conn EXCEPT ![c] = T!Over(@)]
    <3>1. ConnOK(T!Over(conn[c]), Len(fwd))
      BY <1>0, <2>1, OverIs
    <3>2. QED
      BY <1>1, <2>1, <2>3, <3>1, OneConnection
  <2>4. QED
    BY <1>12, <2>2, <2>3 DEF T!Dial
<1>13. ASSUME NEW c \in Conns, T!Finish(c) PROVE TcpInv'
  <2>1. ConnOK(T!Over(conn[c]), Len(fwd))
    BY <1>0, <1>13, OverIs DEF T!Finish
  <2>2. QED
    BY <1>0, <1>13, <2>1, OneConnection DEF T!Finish
\* A copier's step: its place and what it has read and written change.
<1>14. ASSUME NEW c \in Conns, NEW d \in T!Dirs, T!Copying(c, d) PROVE TcpInv'
  <2>1. /\ UNCHANGED <<closed, listed, fwd, failed>> /\ conn[c].state = "piping"
        /\ T!Removed(c) \in BOOLEAN /\ T!Loop(c) \in {"read", "ended"}
    BY <1>0, <1>3, <1>14 DEF T!Copying, T!ReadSegment, T!ReadEnd, T!Write, ConnOK
  <2>2. /\ conn[c] \in T!Connection /\ ConnOK(conn[c], Len(fwd))
        /\ conn[c].pc \in [T!Dirs -> {"off", "read", "write", "ended"}]
        /\ conn[c].got \in [T!Dirs -> Nat] /\ conn[c].put \in [T!Dirs -> Nat]
        /\ conn[c].late \in [T!Dirs -> BOOLEAN] /\ conn[c].sent[d] \in 0..MaxData
        /\ conn[c].put[d] <= conn[c].got[d] /\ conn[c].got[d] <= conn[c].sent[d]
        /\ conn[c].pc[d] = "write" => conn[c].put[d] < conn[c].got[d]
    <3>1. conn[c] \in T!Connection /\ ConnOK(conn[c], Len(fwd))
      BY <1>0
    <3>2. QED
      BY <3>1 DEF T!Connection, ConnOK
  <2>3. ASSUME NEW k \in T!Connection, conn' = [conn EXCEPT ![c] = k],
               k.by = conn[c].by, k.state = "piping", k.sent = conn[c].sent,
               \A b \in T!Dirs \ {d} : /\ k.pc[b] = conn[c].pc[b] /\ k.got[b] = conn[c].got[b]
                                       /\ k.put[b] = conn[c].put[b],
               k.put[d] <= k.got[d], k.got[d] <= conn[c].sent[d], k.pc[d] = "write" => k.put[d] < k.got[d]
        PROVE  TcpInv'
    <3>1. ConnOK(k, Len(fwd))
      BY <2>1, <2>2, <2>3 DEF ConnOK
    <3>2. QED
      BY <1>0, <2>1, <2>3, <3>1, OneConnection
  <2>4. CASE T!ReadSegment(c, d)
    <3> DEFINE pc   == [conn[c].pc EXCEPT ![d] = "write"]
               got  == [conn[c].got EXCEPT ![d] = @ + 1]
               late == [conn[c].late EXCEPT ![d] = T!Removed(c)]
               k    == [conn[c] EXCEPT !.pc = pc, !.got = got, !.late = late]
    <3>1. conn' = [conn EXCEPT ![c] = k] /\ conn[c].got[d] < conn[c].sent[d]
      BY <1>0, <2>4 DEF T!ReadSegment
    <3>2. /\ pc \in [T!Dirs -> {"off", "read", "write", "ended"}] /\ got \in [T!Dirs -> Nat]
          /\ pc[d] = "write" /\ got[d] = conn[c].got[d] + 1
          /\ \A b \in T!Dirs \ {d} : pc[b] = conn[c].pc[b] /\ got[b] = conn[c].got[b]
      BY <2>2
    <3>3. late \in [T!Dirs -> BOOLEAN]
      BY <2>1, <2>2
    <3> HIDE DEF pc, got, late
    <3>4. /\ k \in T!Connection /\ k.by = conn[c].by /\ k.state = "piping" /\ k.sent = conn[c].sent
          /\ k.pc = pc /\ k.got = got /\ k.put = conn[c].put
      BY <2>1, <2>2, <3>2, <3>3 DEF T!Connection
    <3> HIDE DEF k
    <3>5. k.put[d] < k.got[d] /\ k.put[d] <= k.got[d] /\ k.got[d] <= conn[c].sent[d]
      BY <2>2, <3>1, <3>2, <3>4
    <3>6. QED
      BY <2>3, <3>1, <3>2, <3>4, <3>5
  <2>5. CASE T!ReadEnd(c, d)
    <3> DEFINE pc == [conn[c].pc EXCEPT ![d] = "ended"]
               k  == [conn[c] EXCEPT !.pc = pc]
    <3>1. conn' = [conn EXCEPT ![c] = k]
      BY <1>0, <2>5 DEF T!ReadEnd
    <3>2. /\ pc \in [T!Dirs -> {"off", "read", "write", "ended"}] /\ pc[d] = "ended"
          /\ \A b \in T!Dirs \ {d} : pc[b] = conn[c].pc[b]
      BY <2>2
    <3> HIDE DEF pc
    <3>3. /\ k \in T!Connection /\ k.by = conn[c].by /\ k.state = "piping" /\ k.sent = conn[c].sent
          /\ k.pc = pc /\ k.got = conn[c].got /\ k.put = conn[c].put
      BY <2>1, <2>2, <3>2 DEF T!Connection
    <3> HIDE DEF k
    <3>4. QED
      BY <2>2, <2>3, <3>1, <3>2, <3>3
  <2>6. CASE T!Write(c, d)
    <3>1. conn[c].put[d] < conn[c].got[d]
      BY <2>2, <2>6 DEF T!Write
    <3>2. CASE conn' = [conn EXCEPT ![c].pc[d] = T!Loop(c), ![c].put[d] = @ + 1]
      <4> DEFINE pc  == [conn[c].pc EXCEPT ![d] = T!Loop(c)]
                 put == [conn[c].put EXCEPT ![d] = @ + 1]
                 k   == [conn[c] EXCEPT !.pc = pc, !.put = put]
      <4>1. conn' = [conn EXCEPT ![c] = k]
        BY <1>0, <3>2
      <4>2. /\ pc \in [T!Dirs -> {"off", "read", "write", "ended"}] /\ pc[d] \in {"read", "ended"}
            /\ put \in [T!Dirs -> Nat] /\ put[d] = conn[c].put[d] + 1
            /\ \A b \in T!Dirs \ {d} : pc[b] = conn[c].pc[b] /\ put[b] = conn[c].put[b]
        BY <2>1, <2>2
      <4> HIDE DEF pc, put
      <4>3. /\ k \in T!Connection /\ k.by = conn[c].by /\ k.state = "piping" /\ k.sent = conn[c].sent
            /\ k.pc = pc /\ k.got = conn[c].got /\ k.put = put
        BY <2>1, <2>2, <4>2 DEF T!Connection
      <4> HIDE DEF k
      <4>4. k.put[d] <= k.got[d] /\ k.got[d] <= conn[c].sent[d] /\ k.pc[d] # "write"
        BY <2>2, <3>1, <4>2, <4>3
      <4>5. QED
        BY <2>3, <4>1, <4>2, <4>3, <4>4
    <3>3. ASSUME NEW next \in {T!Loop(c), "ended"}, conn' = [conn EXCEPT ![c].pc[d] = next] PROVE TcpInv'
      <4> DEFINE pc == [conn[c].pc EXCEPT ![d] = next]
                 k  == [conn[c] EXCEPT !.pc = pc]
      <4>1. conn' = [conn EXCEPT ![c] = k]
        BY <1>0, <3>3
      <4>2. /\ pc \in [T!Dirs -> {"off", "read", "write", "ended"}] /\ pc[d] \in {"read", "ended"}
            /\ \A b \in T!Dirs \ {d} : pc[b] = conn[c].pc[b]
        BY <2>1, <2>2, <3>3
      <4> HIDE DEF pc
      <4>3. /\ k \in T!Connection /\ k.by = conn[c].by /\ k.state = "piping" /\ k.sent = conn[c].sent
            /\ k.pc = pc /\ k.got = conn[c].got /\ k.put = conn[c].put
        BY <2>1, <2>2, <4>2 DEF T!Connection
      <4> HIDE DEF k
      <4>4. k.put[d] <= k.got[d] /\ k.got[d] <= conn[c].sent[d] /\ k.pc[d] # "write"
        BY <2>2, <4>2, <4>3
      <4>5. QED
        BY <2>3, <4>1, <4>2, <4>3, <4>4
    <3>4. QED
      BY <2>6, <3>2, <3>3 DEF T!Write
  <2>7. QED
    BY <1>14, <2>4, <2>5, <2>6 DEF T!Copying
<1>15. ASSUME NEW c \in Conns, T!Connect(c) PROVE TcpInv'
  <2>1. PICK g \in T!Forwards : conn' = [conn EXCEPT ![c].state = "queued", ![c].by = g, ![c].end.client = "open"]
    BY <1>15 DEF T!Connect
  <2> DEFINE ends == [conn[c].end EXCEPT !["client"] = "open"]
             k    == [conn[c] EXCEPT !.state = "queued", !.by = g, !.end = ends]
  <2>2. conn[c].state = "new" /\ UNCHANGED <<closed, listed, fwd, failed>>
    BY <1>15 DEF T!Connect
  <2>3. conn' = [conn EXCEPT ![c] = k]
    BY <1>0, <2>1
  <2>4. ends \in [T!Ends -> {"off", "open", "shut", "closed"}] /\ g \in Nat /\ g # 0 /\ g \in 0..Len(fwd)
    BY <1>0 DEF T!Connection, T!Ends
  <2> HIDE DEF ends
  <2>5. /\ k \in T!Connection /\ k.by = g /\ k.state = "queued" /\ k.sent = conn[c].sent
        /\ k.pc = conn[c].pc /\ k.got = conn[c].got /\ k.put = conn[c].put
    <3>1. conn[c] \in T!Connection
      BY <1>0
    <3>2. QED
      BY <2>4, <3>1 DEF T!Connection
  <2> HIDE DEF k
  <2>6. ConnOK(k, Len(fwd))
    BY <1>0, <2>2, <2>4, <2>5 DEF ConnOK
  <2>7. QED
    BY <1>0, <2>2, <2>3, <2>6, OneConnection
<1>16. ASSUME NEW c \in Conns, NEW d \in T!Dirs, T!SendSegment(c, d) PROVE TcpInv'
  <2> DEFINE more == [conn[c].sent EXCEPT ![d] = @ + 1]
             k    == [conn[c] EXCEPT !.sent = more]
  <2>1. conn[c].sent[d] < MaxData /\ UNCHANGED <<closed, listed, fwd, failed>>
    BY <1>16 DEF T!SendSegment
  <2>2. conn' = [conn EXCEPT ![c] = k]
    BY <1>0, <1>16 DEF T!SendSegment
  <2>3. /\ conn[c].sent \in [T!Dirs -> 0..MaxData]
        /\ \A b \in T!Dirs : conn[c].got[b] \in Nat
    BY <1>0 DEF T!Connection
  <2>4. conn[c].sent[d] + 1 \in 0..MaxData
    BY <2>1, <2>3, TcpBoundsAssumption
  <2>5. more \in [T!Dirs -> 0..MaxData] /\ \A b \in T!Dirs : conn[c].sent[b] <= more[b]
    BY <2>3, <2>4, TcpBoundsAssumption
  <2> HIDE DEF more
  <2>6. /\ k \in T!Connection /\ k.by = conn[c].by /\ k.state = conn[c].state /\ k.pc = conn[c].pc
        /\ k.got = conn[c].got /\ k.put = conn[c].put /\ k.sent = more
    <3>1. conn[c] \in T!Connection
      BY <1>0
    <3>2. /\ k.state = conn[c].state /\ k.by = conn[c].by /\ k.end = conn[c].end /\ k.pc = conn[c].pc
          /\ k.got = conn[c].got /\ k.put = conn[c].put /\ k.late = conn[c].late /\ k.sent = more
      BY <3>1 DEF T!Connection
    <3>3. k \in T!Connection
      BY <2>5, <3>1 DEF T!Connection
    <3>4. QED
      BY <3>2, <3>3
  <2> HIDE DEF k
  <2>7. \A b \in T!Dirs : k.got[b] <= k.sent[b]
    BY <1>0, <2>3, <2>5, <2>6, TcpBoundsAssumption DEF ConnOK
  <2>8. ConnOK(k, Len(fwd))
    BY <1>0, <2>6, <2>7 DEF ConnOK
  <2>9. QED
    BY <1>0, <2>1, <2>2, <2>8, OneConnection
<1>17. ASSUME NEW c \in Conns, NEW e \in T!Ends, T!Hangup(c, e) PROVE TcpInv'
  <2>1. PICK how \in {"shut", "closed"} : conn' = [conn EXCEPT ![c].end[e] = how]
    BY <1>17 DEF T!Hangup
  <2> DEFINE ends == [conn[c].end EXCEPT ![e] = how]
             k    == [conn[c] EXCEPT !.end = ends]
  <2>2. conn' = [conn EXCEPT ![c] = k] /\ UNCHANGED <<closed, listed, fwd, failed>>
    BY <1>0, <1>17, <2>1 DEF T!Hangup
  <2>3. ends \in [T!Ends -> {"off", "open", "shut", "closed"}]
    BY <1>0 DEF T!Connection
  <2> HIDE DEF ends
  <2>4. /\ k \in T!Connection /\ k.by = conn[c].by /\ k.state = conn[c].state /\ k.sent = conn[c].sent
        /\ k.pc = conn[c].pc /\ k.got = conn[c].got /\ k.put = conn[c].put
    <3>1. conn[c] \in T!Connection
      BY <1>0
    <3>2. QED
      BY <2>3, <3>1 DEF T!Connection
  <2> HIDE DEF k
  <2>5. ConnOK(k, Len(fwd))
    BY <1>0, <2>4 DEF ConnOK
  <2>6. QED
    BY <1>0, <2>2, <2>5, OneConnection
<1>18. QED
  BY <1>5, <1>6, <1>7, <1>8, <1>9, <1>10, <1>11, <1>12, <1>13, <1>14, <1>15, <1>16, <1>17
     DEF T!TcpNext, T!Backend, T!Goroutine, T!Accepting, T!Dispatching, T!Peers

-----------------------------------------------------------------------------
(* Both protocols.                                                         *)

PureGoInv == proto \in {"tcp", "udp"} /\ Inv /\ TcpInv

\* A forwarding that was not called has no packet anywhere.
LEMMA IdleIs == UdpIdle => Inv
<1> SUFFICES ASSUME UdpIdle PROVE Inv
  OBVIOUS
<1>1. /\ Sessions = {} /\ inbox = <<>> /\ Given = {} /\ Reached = {} /\ lost = {} /\ sent = 0
      /\ queue = <<>> /\ toClient = {} /\ toTarget = {} /\ sess = <<>> /\ Len(sess) = 0
      /\ reader = [pc |-> "closed"]
  BY DEF UdpIdle, Sessions, Given, Reached
<1>2. Apart /\ Complete
  <2>1. Range(inbox) = {} /\ IsInjective(inbox) /\ InSessions = {} /\ 1..sent = {}
    BY <1>1, NothingIs DEF InSessions
  <2>2. QED
    BY <1>1, <2>1 DEF Apart, Complete, Known, Somewhere
<1>3. Routed
  <2>1. \A c \in Clients : table[c] = 0
    BY DEF UdpIdle
  <2>2. QED
    BY <1>1, <2>1, NothingIs DEF Routed
<1>4. TypeOK
  <2>1. Cardinality(Clients) \in Nat
    BY ClientsAssumption, FS_CardinalityType
  <2>2. Len(sess) <= Cardinality(Clients) + MaxExpiries
    BY <1>1, <2>1, BoundsAssumption
  <2>3. /\ queue \in Seq(Carried) /\ Len(queue) <= QueueCap /\ inbox \in Seq(Packet) /\ sess \in Seq(Session)
        /\ reader \in [pc : {"poll", "read", "closed"}]
    BY <1>1, CapAssumption
  <2>4. sent \in 0..MaxPackets /\ expiries \in 0..MaxExpiries /\ faults \in 0..MaxFaults
    BY BoundsAssumption DEF UdpIdle
  <2>5. /\ done \in BOOLEAN /\ returned \in BOOLEAN /\ writing \in BOOLEAN /\ panicked \in BOOLEAN
        /\ toTarget \subseteq Carried /\ toClient \subseteq Carried /\ lost \subseteq Packet
        /\ undialed \subseteq Clients /\ table \in [Clients -> {0} \cup Sessions]
    BY DEF UdpIdle
  <2>6. QED
    BY <1>1, <2>2, <2>3, <2>4, <2>5 DEF TypeOK
<1>5. Counted
  <2>1. Seated = {} /\ expiries = 0
    BY DEF UdpIdle, Seated
  <2>2. QED
    BY <1>1, <2>1, FS_EmptySet DEF Counted
<1>6. QED
  BY <1>2, <1>3, <1>4, <1>5 DEF Inv

\* A step of one protocol leaves the other alone.
LEMMA PureGoStep == PureGoInv /\ [PureGoNext]_pureGoVars => PureGoInv'
<1> SUFFICES ASSUME PureGoInv, [PureGoNext]_pureGoVars PROVE PureGoInv'
  OBVIOUS
<1>1. UNCHANGED tcpPart => TcpInv'
  BY DEF PureGoInv, tcpPart, TcpInv, T!TcpTypeOK, Copied
<1>2. [Next]_vars => Inv'
  BY InvStep DEF PureGoInv
<1>3. CASE proto = "udp" /\ Next /\ UNCHANGED <<proto, tcpPart>>
  BY <1>1, <1>2, <1>3 DEF PureGoInv
<1>4. CASE proto = "tcp" /\ T!TcpNext /\ UNCHANGED <<proto, vars>>
  BY <1>2, <1>4, TcpInvStep DEF PureGoInv
<1>5. CASE UNCHANGED pureGoVars
  BY <1>1, <1>2, <1>5 DEF PureGoInv, pureGoVars
<1>6. QED
  BY <1>3, <1>4, <1>5 DEF PureGoNext

\* The invariant holds of the backend.
LEMMA PureGoInvariant == PureGoSpec => []PureGoInv
<1>1. PureGoInit => PureGoInv
  BY InvInit, IdleIs, TcpInvInit DEF PureGoInit, PureGoInv
<1>2. QED
  BY <1>1, PureGoStep, PTL DEF PureGoSpec

\* THEOREM: both parts have their types: no channel or queue grows over its
\* capacity, and no direction of a TCP connection delivers a segment that was
\* not read, or reads one that was not sent (udp.go 36-85, tcp.go 57-96).
THEOREM PureGoTypeInvariant == PureGoSpec => []PureGoTypeOK
<1>1. PureGoInv => PureGoTypeOK
  BY DEF PureGoInv, PureGoTypeOK, Inv, TcpInv
<1>2. QED
  BY <1>1, PureGoInvariant, PTL

\* THEOREM: in the backend, too, a packet that a client sent is in one place
\* only, with its own client's session, until it is lost by a failed write or a
\* removal (udp.go 53-85, 153-174).
THEOREM PureGoPacketsOnce == PureGoSpec => []EachPacketOnce
<1>1. PureGoInv => EachPacketOnce
  BY InvIsEnough DEF PureGoInv
<1>2. QED
  BY <1>1, PureGoInvariant, PTL
=============================================================================
