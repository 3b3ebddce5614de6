-------------------------- MODULE AuditRelayProofs --------------------------
(* What the outboxes of AuditRelay guarantee, for any tenants, audits, relays,
   batch size and number of faults. *)
EXTENDS AuditRelay, SumTheorems

-----------------------------------------------------------------------------
(* Events and their numbers *)

(* The places of a stream's events are those of which it has an event. *)
LEMMA NumberOf ==
  ASSUME NEW events, events \subseteq Events, NEW t, NEW s, NEW n
  PROVE  n \in Numbers(events, t, s) <=> <<t, s, n>> \in events
  BY DEF Numbers, Events

(* Numbers are natural, and those of part of the events are some of them. *)
LEMMA NumbersType ==
  ASSUME NEW events, events \subseteq Events, NEW t, NEW s
  PROVE  Numbers(events, t, s) \subseteq Nat
  BY DEF Numbers, Events

(* A batch without its first row skips no pending one. *)
LEMMA BatchIsPrefix ==
  ASSUME TypeOK, NEW t, NEW s, IsFiniteSet(Pending(t, s)), BatchSize \in Nat,
         NEW n \in Batch(t, s), NEW m \in Pending(t, s), m <= n
  PROVE  m \in Batch(t, s)
<1> DEFINE Below(i) == {j \in Pending(t, s) : j <= i}
<1>1. Pending(t, s) \subseteq Nat
  BY NumbersType DEF TypeOK, Pending
<1>2. n \in Pending(t, s) /\ Cardinality(Below(n)) <= BatchSize
  BY DEF Batch
<1>3. Below(m) \subseteq Below(n)
  BY <1>1, <1>2
<1>4. IsFiniteSet(Below(n)) /\ IsFiniteSet(Below(m))
  BY FS_Subset
<1>5. /\ Cardinality(Below(m)) <= Cardinality(Below(n))
      /\ Cardinality(Below(m)) \in Nat /\ Cardinality(Below(n)) \in Nat
  BY <1>3, <1>4, FS_Subset, FS_CardinalityType
<1> QED
  BY <1>2, <1>5 DEF Batch

-----------------------------------------------------------------------------
(* Types *)

(* A drain handles events. *)
LEMMA EventType ==
  ASSUME TypeOK, DrainsConsistent, NEW r \in Relays, NEW n \in rows[r]
  PROVE  Event(r, n) \in Events /\ Event(r, n) \in written
  BY DEF TypeOK, DrainsConsistent, DrainConsistent

(* The number of a new state. *)
LEMMA NextRevision ==
  ASSUME RevisionsContiguous, NEW t \in Tenants
  PROVE  /\ IsFiniteSet(Revisions(t))
         /\ Cardinality(Revisions(t)) \in Nat
         /\ Revisions(t) = 1..Cardinality(Revisions(t))
<1>1. PICK k \in 0..MaxRevision[t] : Revisions(t) = 1..k
  BY DEF RevisionsContiguous
<1>2. k \in Nat
  BY EventsAssumption
<1>3. IsFiniteSet(1..k) /\ Cardinality(1..k) = k
  BY <1>2, FS_Interval
<1> QED
  BY <1>1, <1>2, <1>3

LEMMA TypeInit == Init => TypeOK
  BY TenantsAssumption, RelayAssumption DEF Init, TypeOK, Streams, AuditStreams

LEMMA LeaveType ==
  ASSUME TypeOK, NEW r \in Relays, Leave(r)
  PROVE  /\ pc' \in [Relays -> {"listed", "turn", "read", "deliver", "mark"}]
         /\ tenant' \in [Relays -> Hosted \cup {NoTenant}]
         /\ stream' \in [Relays -> Streams]
         /\ rows' \in [Relays -> SUBSET Nat]
         /\ marks' \in [Relays -> SUBSET Events]
  BY DEF Leave, TypeOK, Streams, AuditStreams

LEMMA BackOffType ==
  ASSUME TypeOK, NEW r \in Relays, BackOff(r), faults' \in 0..MaxFaults
  PROVE  TypeOK'
  BY LeaveType DEF BackOff, TypeOK, outboxes

LEMMA TypeStep ==
  TypeOK /\ DrainsConsistent /\ RevisionsContiguous /\ [Next]_vars => TypeOK'
<1> SUFFICES ASSUME TypeOK, DrainsConsistent, RevisionsContiguous, [Next]_vars
             PROVE  TypeOK'
  OBVIOUS
<1> USE DEF outboxes, drain
<1>1. ASSUME NEW e \in Audits, WriteAudit(e) PROVE TypeOK'
  <2>1. e \in Events
    BY EventsAssumption, TenantsAssumption DEF Events, Streams
  <2> QED
    BY <1>1, <2>1 DEF WriteAudit, TypeOK
<1>2. ASSUME NEW t \in Tenants, PublishState(t) PROVE TypeOK'
  <2> DEFINE n == Cardinality(Revisions(t)) + 1
  <2>1. n \in Nat /\ <<t, "states", n>> \in Events
    BY NextRevision DEF Events, Streams
  <2>2. leads' \in [Tenants -> Nat]
    BY <1>2, <2>1 DEF PublishState, TypeOK
  <2> QED
    BY <1>2, <2>1, <2>2 DEF PublishState, TypeOK
<1>3. ASSUME NEW r \in Relays, ListTenants(r) PROVE TypeOK'
  BY <1>3 DEF ListTenants, TypeOK
<1>4. ASSUME NEW r \in Relays, CheckRoutes(r) PROVE TypeOK'
  BY <1>4 DEF CheckRoutes, TypeOK
<1>5. ASSUME NEW r \in Relays, Turn(r) PROVE TypeOK'
  BY <1>5 DEF Turn, TypeOK
<1>6. ASSUME NEW r \in Relays, ReadBatch(r) PROVE TypeOK'
  <2>1. Batch(tenant[r], stream[r]) \subseteq Nat
    BY NumbersType DEF Batch, Pending, TypeOK
  <2> QED
    BY <1>6, <2>1 DEF ReadBatch, TypeOK
<1>7. ASSUME NEW r \in Relays, Deliver(r) PROVE TypeOK'
  BY <1>7, EventType DEF Deliver, TypeOK
<1>8. ASSUME NEW r \in Relays, Mark(r) PROVE TypeOK'
  <2>1. PICK n \in rows[r] :
          /\ \/ marked' = marked \cup {Event(r, n)} /\ UNCHANGED marks
             \/ /\ marks' = [marks EXCEPT ![r] = marks[r] \cup ({Event(r, n)} \ marked)]
                /\ UNCHANGED marked
          /\ rows' = [rows EXCEPT ![r] = rows[r] \ {n}]
          /\ pc' = [pc EXCEPT ![r] = "deliver"]
          /\ UNCHANGED <<outboxes, arrived, known, todo, due, tenant, stream, faults>>
    BY <1>8 DEF Mark
  <2>2. marked' \subseteq Events /\ marks' \in [Relays -> SUBSET Events]
    BY <2>1, EventType DEF TypeOK
  <2> QED
    BY <2>1, <2>2 DEF TypeOK
<1>9. ASSUME NEW r \in Relays, Commit(r) PROVE TypeOK'
  BY <1>9 DEF Commit, TypeOK, Streams, AuditStreams
<1>10. ASSUME NEW r \in Relays, EndTurn(r) PROVE TypeOK'
  BY <1>10, LeaveType DEF EndTurn, TypeOK
<1>11. ASSUME NEW r \in Relays, Refuse(r) PROVE TypeOK'
  BY <1>11, BackOffType DEF Refuse, TypeOK
<1>12. ASSUME NEW r \in Relays, QueryFails(r) PROVE TypeOK'
  BY <1>12, BackOffType, RelayAssumption DEF QueryFails, Fault, TypeOK
<1>13. ASSUME NEW r \in Relays, DiscoveryFails(r) PROVE TypeOK'
  BY <1>13, RelayAssumption DEF DiscoveryFails, Fault, TypeOK
<1>14. ASSUME NEW r \in Relays, Restart(r) PROVE TypeOK'
  BY <1>14, RelayAssumption, TenantsAssumption DEF Restart, Fault, TypeOK, Streams, AuditStreams
<1>15. ASSUME NEW r \in Relays, NEW t \in Tenants, BecomeDue(r, t) PROVE TypeOK'
  BY <1>15 DEF BecomeDue, TypeOK
<1>16. CASE UNCHANGED vars
  BY <1>16 DEF vars, TypeOK
<1> QED
  BY <1>1, <1>2, <1>3, <1>4, <1>5, <1>6, <1>7, <1>8, <1>9, <1>10, <1>11, <1>12, <1>13,
     <1>14, <1>15, <1>16 DEF Next, RelayStep

-----------------------------------------------------------------------------
(* Drains *)

(* Nothing that happens elsewhere disturbs a drain: rows, arrivals and marks
   only become more. *)
LEMMA QuietDrain ==
  ASSUME NEW q \in Relays, DrainConsistent(q),
         pc'[q] = pc[q], tenant'[q] = tenant[q], stream'[q] = stream[q],
         rows'[q] = rows[q], marks'[q] = marks[q],
         written \subseteq written', arrived \subseteq arrived', marked \subseteq marked'
  PROVE  DrainConsistent(q)'
<1>1. \A n : Event(q, n)' = Event(q, n) /\ (First(q, n)' <=> First(q, n))
  BY DEF Event, First
<1> QED
  BY <1>1 DEF DrainConsistent

LEMMA LeftDrain ==
  ASSUME TypeOK, NEW r \in Relays, Leave(r)
  PROVE  /\ DrainConsistent(r)'
         /\ \A q \in Relays \ {r} :
              /\ pc'[q] = pc[q] /\ tenant'[q] = tenant[q] /\ stream'[q] = stream[q]
              /\ rows'[q] = rows[q] /\ marks'[q] = marks[q]
<1>1. pc'[r] = "turn" /\ rows'[r] = {} /\ marks'[r] = {} /\ stream'[r] = "finance"
  BY DEF Leave, TypeOK
<1>2. DrainConsistent(r)'
  BY <1>1 DEF DrainConsistent
<1> QED
  BY <1>2 DEF Leave, TypeOK

(* There is one first row. *)
LEMMA FirstIsUnique ==
  ASSUME TypeOK, NEW r \in Relays, NEW n, NEW m, First(r, n), First(r, m)
  PROVE  n = m
<1>1. n \in Nat /\ m \in Nat /\ n <= m /\ m <= n
  BY DEF First, TypeOK
<1> QED
  BY <1>1

(* What a drain is about to mark is in the other database. *)
LEMMA MarksWhatArrived ==
  ASSUME TypeOK, DrainsConsistent, NEW r \in Relays, NEW n, First(r, n), pc[r] = "mark"
  PROVE  Event(r, n) \in arrived
<1>1. PICK m \in rows[r] : First(r, m) /\ Event(r, m) \in arrived
  BY DEF DrainsConsistent, DrainConsistent
<1> QED
  BY <1>1, FirstIsUnique

LEMMA BackOffKeepsDrains ==
  ASSUME TypeOK, DrainsConsistent, NEW r \in Relays, BackOff(r)
  PROVE  DrainsConsistent'
<1>1. written' = written /\ arrived' = arrived /\ marked' = marked
  BY DEF BackOff, outboxes
<1>2. ASSUME NEW q \in Relays PROVE DrainConsistent(q)'
  BY <1>1, LeftDrain, QuietDrain DEF BackOff, DrainsConsistent
<1> QED
  BY <1>2 DEF DrainsConsistent

(* Steps that take a relay between its drains leave all drains as they are. *)
LEMMA BetweenDrains ==
  ASSUME TypeOK, DrainsConsistent, NEW r \in Relays,
         pc[r] \notin {"deliver", "mark"}, pc'[r] \notin {"deliver", "mark"},
         pc'[r] = "read" => tenant'[r] \in Hosted,
         \A q \in Relays \ {r} : pc'[q] = pc[q] /\ tenant'[q] = tenant[q],
         UNCHANGED <<stream, rows, marks, written, arrived, marked>>
  PROVE  DrainsConsistent'
<1>1. DrainConsistent(r)'
  BY DEF DrainsConsistent, DrainConsistent
<1>2. ASSUME NEW q \in Relays \ {r} PROVE DrainConsistent(q)'
  BY QuietDrain DEF DrainsConsistent
<1> QED
  BY <1>1, <1>2 DEF DrainsConsistent

LEMMA ReadBatchDrain ==
  ASSUME TypeOK, DrainsConsistent, RevisionsContiguous, NEW r \in Relays, ReadBatch(r)
  PROVE  DrainConsistent(r)'
<1> DEFINE t == tenant[r]
<1>1. /\ pc[r] = "read" /\ marks[r] = {} /\ t \in Hosted
      /\ pc'[r] = "deliver" /\ rows'[r] = Batch(t, stream[r])
      /\ tenant' = tenant /\ stream' = stream /\ marks' = marks
      /\ written' = written /\ arrived' = arrived /\ marked' = marked
  BY DEF ReadBatch, TypeOK, DrainsConsistent, DrainConsistent, outboxes
<1>2. \A n : Event(r, n)' = Event(r, n)
  BY <1>1 DEF Event
<1>3. \A n \in Batch(t, stream[r]) : Event(r, n) \in written
  BY NumberOf DEF Batch, Pending, Event, TypeOK
<1>4. ASSUME stream[r] = "states", NEW n \in Batch(t, "states"), NEW m \in 1..n
      PROVE  m \in Batch(t, "states") \/ Event(r, m) \in marked
  <2>1. IsFiniteSet(Revisions(t)) /\ Revisions(t) = 1..Cardinality(Revisions(t))
        /\ Cardinality(Revisions(t)) \in Nat
    BY <1>1, NextRevision, TenantsAssumption
  <2>2. Pending(t, "states") \subseteq Revisions(t)
    BY DEF Pending, Revisions, Numbers
  <2>3. IsFiniteSet(Pending(t, "states"))
    BY <2>1, <2>2, FS_Subset
  <2>4. n \in Pending(t, "states") /\ n \in Revisions(t)
    BY <2>2 DEF Batch
  <2>5. m \in Revisions(t) /\ m <= n
    BY <2>1, <2>4
  <2>6. <<t, "states", m>> \in written
    BY <2>5, NumberOf DEF Revisions, TypeOK
  <2>7. CASE <<t, "states", m>> \in marked
    BY <2>7, <1>4 DEF Event
  <2>8. CASE <<t, "states", m>> \notin marked
    <3>1. m \in Pending(t, "states")
      BY <2>6, <2>8, NumberOf DEF Pending, TypeOK
    <3> QED
      BY <3>1, <2>3, <2>4, <2>5, BatchIsPrefix, RelayAssumption
  <2> QED
    BY <2>7, <2>8
<1> QED
  BY <1>1, <1>2, <1>3, <1>4 DEF DrainConsistent

LEMMA MarkDrain ==
  ASSUME TypeOK, DrainsConsistent, NEW r \in Relays, Mark(r)
  PROVE  DrainConsistent(r)'
<1>1. PICK n \in rows[r] :
        /\ pc[r] = "mark" /\ First(r, n)
        /\ \/ /\ stream[r] = "states"
              /\ marked' = marked \cup {Event(r, n)}
              /\ UNCHANGED marks
           \/ /\ stream[r] \in AuditStreams
              /\ marks' = [marks EXCEPT ![r] = marks[r] \cup ({Event(r, n)} \ marked)]
              /\ UNCHANGED marked
        /\ rows' = [rows EXCEPT ![r] = rows[r] \ {n}]
        /\ pc' = [pc EXCEPT ![r] = "deliver"]
        /\ UNCHANGED <<outboxes, arrived, known, todo, due, tenant, stream, faults>>
  BY DEF Mark
<1>2. Event(r, n) \in arrived
  BY <1>1, MarksWhatArrived
<1>3. /\ pc'[r] = "deliver" /\ rows'[r] = rows[r] \ {n}
      /\ tenant' = tenant /\ stream' = stream
      /\ written' = written /\ arrived' = arrived /\ marked \subseteq marked'
  BY <1>1 DEF TypeOK, outboxes
<1>4. \A m : Event(r, m)' = Event(r, m)
  BY <1>3 DEF Event
<1>5. DrainConsistent(r)
  BY DEF DrainsConsistent
<1>6. marks'[r] \subseteq marks[r] \cup {Event(r, n)}
  BY <1>1 DEF TypeOK
<1>7. ASSUME NEW e \in marks'[r]
      PROVE  /\ e \in arrived
             /\ e[1] = tenant[r] /\ e[2] = stream[r] /\ stream[r] \in AuditStreams
             /\ \A m \in rows[r] \ {n} : e[3] < m
  <2>1. CASE e \in marks[r]
    BY <1>5, <2>1 DEF DrainConsistent
  <2>2. CASE e \notin marks[r]
    <3>1. e = Event(r, n) /\ stream[r] \in AuditStreams
      BY <1>1, <1>6, <1>7, <2>2 DEF AuditStreams
    <3>2. \A m \in rows[r] \ {n} : n < m
      BY <1>1 DEF First, TypeOK
    <3> QED
      BY <1>2, <3>1, <3>2 DEF Event
  <2> QED
    BY <2>1, <2>2
<1>8. ASSUME stream[r] = "states", NEW i \in rows[r] \ {n}, NEW m \in 1..i
      PROVE  m \in rows[r] \ {n} \/ Event(r, m) \in marked'
  BY <1>1, <1>3, <1>5, <1>8 DEF DrainConsistent, AuditStreams
<1> QED
  BY <1>1, <1>3, <1>4, <1>5, <1>7, <1>8 DEF DrainConsistent

LEMMA DrainsStep ==
  TypeOK /\ DrainsConsistent /\ RevisionsContiguous /\ [Next]_vars => DrainsConsistent'
<1> SUFFICES ASSUME TypeOK, DrainsConsistent, RevisionsContiguous, [Next]_vars
             PROVE  DrainsConsistent'
  OBVIOUS
<1> USE DEF outboxes, drain
<1>1. ASSUME NEW e \in Audits, WriteAudit(e) PROVE DrainsConsistent'
  BY <1>1, QuietDrain DEF WriteAudit, DrainsConsistent
<1>2. ASSUME NEW t \in Tenants, PublishState(t) PROVE DrainsConsistent'
  BY <1>2, QuietDrain DEF PublishState, DrainsConsistent
<1>3. ASSUME NEW r \in Relays, ListTenants(r) PROVE DrainsConsistent'
  BY <1>3, BetweenDrains DEF ListTenants, TypeOK
<1>4. ASSUME NEW r \in Relays, CheckRoutes(r) PROVE DrainsConsistent'
  BY <1>4, BetweenDrains DEF CheckRoutes, TypeOK
<1>5. ASSUME NEW r \in Relays, Turn(r) PROVE DrainsConsistent'
  BY <1>5, BetweenDrains DEF Turn, TypeOK
<1>6. ASSUME NEW r \in Relays, ReadBatch(r) PROVE DrainsConsistent'
  BY <1>6, ReadBatchDrain, QuietDrain DEF ReadBatch, DrainsConsistent, TypeOK
<1>7. ASSUME NEW r \in Relays, Deliver(r) PROVE DrainsConsistent'
  <2>1. PICK n \in rows[r] :
          /\ First(r, n)
          /\ arrived' = arrived \cup {Event(r, n)}
          /\ pc[r] = "deliver" /\ pc' = [pc EXCEPT ![r] = "mark"]
          /\ UNCHANGED <<outboxes, marked, known, todo, due, drain, marks, faults>>
    BY <1>7 DEF Deliver
  <2>2. pc'[r] = "mark" /\ \A i : Event(r, i)' = Event(r, i) /\ (First(r, i)' <=> First(r, i))
    BY <2>1 DEF TypeOK, Event, First
  <2>3. DrainConsistent(r)'
    BY <2>1, <2>2 DEF DrainsConsistent, DrainConsistent
  <2>4. ASSUME NEW q \in Relays \ {r} PROVE DrainConsistent(q)'
    BY <2>1, QuietDrain DEF DrainsConsistent, TypeOK
  <2> QED
    BY <2>3, <2>4 DEF DrainsConsistent
<1>8. ASSUME NEW r \in Relays, Mark(r) PROVE DrainsConsistent'
  <2>1. DrainConsistent(r)'
    BY <1>8, MarkDrain
  <2>2. ASSUME NEW q \in Relays \ {r} PROVE DrainConsistent(q)'
    BY <1>8, QuietDrain DEF Mark, DrainsConsistent, TypeOK
  <2> QED
    BY <2>1, <2>2 DEF DrainsConsistent
<1>9. ASSUME NEW r \in Relays, Commit(r) PROVE DrainsConsistent'
  <2>1. /\ pc'[r] = "read" /\ rows'[r] = {} /\ marks'[r] = {} /\ pc[r] = "deliver"
        /\ tenant' = tenant /\ marked \subseteq marked'
    BY <1>9 DEF Commit, TypeOK
  <2>2. DrainConsistent(r)'
    BY <2>1 DEF DrainsConsistent, DrainConsistent
  <2>3. ASSUME NEW q \in Relays \ {r} PROVE DrainConsistent(q)'
    BY <1>9, <2>1, QuietDrain DEF Commit, DrainsConsistent, TypeOK
  <2> QED
    BY <2>2, <2>3 DEF DrainsConsistent
<1>10. ASSUME NEW r \in Relays, EndTurn(r) PROVE DrainsConsistent'
  BY <1>10, LeftDrain, QuietDrain DEF EndTurn, DrainsConsistent
<1>11. ASSUME NEW r \in Relays, Refuse(r) PROVE DrainsConsistent'
  BY <1>11, BackOffKeepsDrains DEF Refuse
<1>12. ASSUME NEW r \in Relays, QueryFails(r) PROVE DrainsConsistent'
  BY <1>12, BackOffKeepsDrains DEF QueryFails
<1>13. ASSUME NEW r \in Relays, DiscoveryFails(r) PROVE DrainsConsistent'
  BY <1>13, BetweenDrains DEF DiscoveryFails, TypeOK
<1>14. ASSUME NEW r \in Relays, Restart(r) PROVE DrainsConsistent'
  <2>1. Leave(r) /\ UNCHANGED <<written, arrived, marked>>
    BY <1>14 DEF Restart, Leave
  <2> QED
    BY <2>1, LeftDrain, QuietDrain DEF DrainsConsistent
<1>15. ASSUME NEW r \in Relays, NEW t \in Tenants, BecomeDue(r, t) PROVE DrainsConsistent'
  BY <1>15, QuietDrain DEF BecomeDue, DrainsConsistent
<1>16. CASE UNCHANGED vars
  BY <1>16, QuietDrain DEF vars, DrainsConsistent
<1> QED
  BY <1>1, <1>2, <1>3, <1>4, <1>5, <1>6, <1>7, <1>8, <1>9, <1>10, <1>11, <1>12, <1>13,
     <1>14, <1>15, <1>16 DEF Next, RelayStep

-----------------------------------------------------------------------------
(* What is written, what has arrived and what is marked *)

LEMMA RevisionsStep ==
  ASSUME TypeOK, RevisionsContiguous, [Next]_vars, TypeOK'
  PROVE  RevisionsContiguous'
<1> SUFFICES ASSUME NEW t \in Tenants
             PROVE  \E k \in 0..MaxRevision[t] : Revisions(t)' = 1..k
  BY DEF RevisionsContiguous
<1> DEFINE old == Cardinality(Revisions(t))
<1>1. old \in Nat /\ Revisions(t) = 1..old
  BY NextRevision
<1>2. \E k \in 0..MaxRevision[t] : Revisions(t) = 1..k
  BY DEF RevisionsContiguous
<1>3. CASE PublishState(t)
  <2>1. old + 1 <= MaxRevision[t] /\ written' = written \cup {<<t, "states", old + 1>>}
    BY <1>3 DEF PublishState
  <2>2. \A n : n \in Revisions(t)' <=> n \in Revisions(t) \/ n = old + 1
    <3>1. \A n : n \in Revisions(t)' <=> <<t, "states", n>> \in written'
      BY NumberOf DEF Revisions, TypeOK
    <3>2. \A n : n \in Revisions(t) <=> <<t, "states", n>> \in written
      BY NumberOf DEF Revisions, TypeOK
    <3> QED
      BY <2>1, <3>1, <3>2
  <2>3. Revisions(t)' = 1..(old + 1)
    <3>1. \A n : n \in 1..(old + 1) <=> n \in 1..old \/ n = old + 1
      BY <1>1
    <3> QED
      BY <1>1, <2>2, <3>1
  <2> QED
    BY <1>1, <2>1, <2>3, EventsAssumption
<1>4. CASE ~PublishState(t)
  <2>1. \A n : <<t, "states", n>> \in written' <=> <<t, "states", n>> \in written
    <3>1. ASSUME NEW e \in Audits, WriteAudit(e)
          PROVE  \A n : <<t, "states", n>> \in written' <=> <<t, "states", n>> \in written
      <4>1. e[2] # "states" /\ written' = written \cup {e}
        BY <3>1, EventsAssumption DEF WriteAudit, AuditStreams
      <4> QED
        BY <4>1
    <3>2. ASSUME NEW u \in Tenants \ {t}, PublishState(u)
          PROVE  \A n : <<t, "states", n>> \in written' <=> <<t, "states", n>> \in written
      <4>1. \E n : written' = written \cup {<<u, "states", n>>}
        BY <3>2 DEF PublishState
      <4> QED
        BY <4>1
    <3>3. CASE UNCHANGED written
      BY <3>3
    <3>4. \/ \E e \in Audits : WriteAudit(e)
          \/ \E u \in Tenants \ {t} : PublishState(u)
          \/ UNCHANGED written
      BY <1>4 DEF Next, RelayStep, ListTenants, CheckRoutes, Turn, BecomeDue, ReadBatch,
         Deliver, Mark, Commit, EndTurn, Refuse, BackOff, QueryFails, DiscoveryFails,
         Restart, vars, outboxes
    <3> QED
      BY <3>1, <3>2, <3>3, <3>4
  <2>2. \A n : n \in Revisions(t)' <=> n \in Revisions(t)
    BY <2>1, NumberOf DEF Revisions, TypeOK
  <2>3. Revisions(t)' = Revisions(t)
    BY <2>2
  <2> QED
    BY <1>2, <2>3
<1> QED
  BY <1>3, <1>4

(* When a state is delivered, all before it have arrived. *)
LEMMA EarlierStatesArrived ==
  ASSUME TypeOK, DrainsConsistent, MarkedHasArrived, NEW r \in Relays,
         stream[r] = "states", NEW n \in Nat, First(r, n), NEW m \in 1..n, m # n
  PROVE  Event(r, m) \in arrived
<1>1. n \in rows[r] /\ m \notin rows[r]
  BY DEF First
<1>2. Event(r, m) \in marked
  BY <1>1 DEF DrainsConsistent, DrainConsistent
<1> QED
  BY <1>2 DEF MarkedHasArrived

(* What a step may do to the outboxes and to what has arrived: write, let the
   first row of a drain arrive, mark what has arrived, or nothing. *)
LEMMA StepShape ==
  ASSUME TypeOK, DrainsConsistent, [Next]_vars
  PROVE  \/ written \subseteq written' /\ arrived' = arrived /\ marked' = marked
         \/ \E r \in Relays : \E n \in rows[r] :
              /\ First(r, n)
              /\ written' = written /\ marked' = marked
              /\ arrived' = arrived \cup {Event(r, n)}
         \/ \E r \in Relays : \E n \in rows[r] :
              /\ pc[r] = "mark" /\ First(r, n) /\ stream[r] = "states"
              /\ written' = written /\ arrived' = arrived /\ marks' = marks
              /\ marked' = marked \cup {Event(r, n)}
         \/ \E r \in Relays :
              /\ written' = written /\ arrived' = arrived
              /\ marks' = [marks EXCEPT ![r] = {}]
              /\ marked' = marked \cup marks[r]
<1> USE DEF outboxes, drain
<1>1. ASSUME NEW r \in Relays, Deliver(r)
      PROVE  \E n \in rows[r] : /\ First(r, n)
                                /\ written' = written /\ marked' = marked
                                /\ arrived' = arrived \cup {Event(r, n)}
  BY <1>1 DEF Deliver
<1>2. ASSUME NEW r \in Relays, Mark(r)
      PROVE  \/ written' = written /\ arrived' = arrived /\ marked' = marked
             \/ \E n \in rows[r] :
                  /\ pc[r] = "mark" /\ First(r, n) /\ stream[r] = "states"
                  /\ written' = written /\ arrived' = arrived /\ marks' = marks
                  /\ marked' = marked \cup {Event(r, n)}
  BY <1>2 DEF Mark
<1>3. ASSUME NEW r \in Relays, Commit(r)
      PROVE  /\ written' = written /\ arrived' = arrived
             /\ marks' = [marks EXCEPT ![r] = {}]
             /\ marked' = marked \cup marks[r]
  BY <1>3 DEF Commit
<1>4. ASSUME ~\E r \in Relays : Deliver(r) \/ Mark(r) \/ Commit(r)
      PROVE  written \subseteq written' /\ arrived' = arrived /\ marked' = marked
  BY <1>4 DEF Next, RelayStep, WriteAudit, PublishState, ListTenants, CheckRoutes, Turn,
     BecomeDue, ReadBatch, EndTurn, Refuse, BackOff, QueryFails, DiscoveryFails, Restart, vars
<1> QED
  BY <1>1, <1>2, <1>3, <1>4

LEMMA MarkedStep ==
  ASSUME TypeOK, DrainsConsistent, MarkedHasArrived, [Next]_vars
  PROVE  MarkedHasArrived'
<1>1. ASSUME NEW r \in Relays, NEW n \in rows[r], First(r, n), pc[r] = "mark"
      PROVE  Event(r, n) \in arrived
  BY <1>1, MarksWhatArrived
<1>2. \A r \in Relays : marks[r] \subseteq arrived
  BY DEF DrainsConsistent, DrainConsistent
<1> QED
  BY <1>1, <1>2, StepShape DEF MarkedHasArrived

LEMMA OrderStep ==
  ASSUME TypeOK, DrainsConsistent, MarkedHasArrived, StatesInOrder, [Next]_vars, TypeOK'
  PROVE  StatesInOrder'
<1>1. CASE arrived' = arrived
  BY <1>1 DEF StatesInOrder, Recorded, Numbers
<1>2. ASSUME NEW r \in Relays, NEW n \in rows[r], First(r, n),
             arrived' = arrived \cup {Event(r, n)}
      PROVE  StatesInOrder'
  <2> SUFFICES ASSUME NEW t \in Tenants, NEW k \in Recorded(t)', NEW m \in 1..k
               PROVE  m \in Recorded(t)'
    BY DEF StatesInOrder
  <2>1. <<t, "states", k>> \in arrived' /\ k \in Nat
    BY NumberOf, NumbersType DEF Recorded, TypeOK
  <2>2. \A i : i \in Recorded(t)' <=> <<t, "states", i>> \in arrived'
    BY NumberOf DEF Recorded, TypeOK
  <2>3. CASE <<t, "states", k>> \in arrived
    <3>1. k \in Recorded(t)
      BY <2>3, NumberOf DEF Recorded, TypeOK
    <3>2. m \in Recorded(t)
      BY <3>1 DEF StatesInOrder
    <3>3. <<t, "states", m>> \in arrived
      BY <3>2, NumberOf DEF Recorded, TypeOK
    <3> QED
      BY <1>2, <2>2, <3>3
  <2>4. CASE <<t, "states", k>> = Event(r, n)
    <3>1. t = tenant[r] /\ stream[r] = "states" /\ k = n
      BY <2>4 DEF Event
    <3>2. m # n => Event(r, m) \in arrived
      BY <1>2, <2>1, <3>1, EarlierStatesArrived
    <3>3. <<t, "states", m>> \in arrived'
      BY <1>2, <2>1, <3>1, <3>2 DEF Event
    <3> QED
      BY <2>2, <3>3
  <2> QED
    BY <1>2, <2>1, <2>3, <2>4
<1> QED
  BY <1>1, <1>2, StepShape

LEMMA MarkedOnceStep ==
  ASSUME TypeOK, DrainsConsistent, MarkedOnce, [Next]_vars
  PROVE  MarkedOnce'
<1> USE DEF outboxes, drain
<1>1. ASSUME NEW r \in Relays, Leave(r), marked' = marked PROVE MarkedOnce'
  <2>1. marks' = [marks EXCEPT ![r] = {}]
    BY <1>1 DEF Leave
  <2> QED
    BY <1>1, <2>1 DEF MarkedOnce, TypeOK
<1>2. ASSUME NEW r \in Relays, Mark(r) PROVE MarkedOnce'
  <2>1. PICK n \in rows[r] :
          \/ /\ stream[r] = "states"
             /\ marked' = marked \cup {Event(r, n)}
             /\ UNCHANGED marks
          \/ /\ \A q \in Relays \ {r} : Event(r, n) \notin marks[q]
             /\ marks' = [marks EXCEPT ![r] = marks[r] \cup ({Event(r, n)} \ marked)]
             /\ UNCHANGED marked
    BY <1>2 DEF Mark
  <2>2. CASE /\ stream[r] = "states"
             /\ marked' = marked \cup {Event(r, n)}
             /\ UNCHANGED marks
    <3>1. \A q \in Relays : Event(r, n) \notin marks[q]
      BY <2>2 DEF DrainsConsistent, DrainConsistent, Event, AuditStreams
    <3> QED
      BY <2>2, <3>1 DEF MarkedOnce
  <2>3. CASE /\ \A q \in Relays \ {r} : Event(r, n) \notin marks[q]
             /\ marks' = [marks EXCEPT ![r] = marks[r] \cup ({Event(r, n)} \ marked)]
             /\ UNCHANGED marked
    BY <2>3 DEF MarkedOnce, TypeOK
  <2> QED
    BY <2>1, <2>2, <2>3
<1>3. ASSUME NEW r \in Relays, Commit(r) PROVE MarkedOnce'
  <2>1. marks' = [marks EXCEPT ![r] = {}] /\ marked' = marked \cup marks[r]
    BY <1>3 DEF Commit
  <2> QED
    BY <2>1 DEF MarkedOnce, TypeOK
<1>4. ASSUME NEW r \in Relays, EndTurn(r) \/ Refuse(r) \/ QueryFails(r) \/ Restart(r)
      PROVE  MarkedOnce'
  <2>1. Leave(r) /\ marked' = marked
    BY <1>4 DEF EndTurn, Refuse, QueryFails, Restart, BackOff, Leave
  <2> QED
    BY <1>1, <2>1
<1>5. CASE UNCHANGED <<marked, marks>>
  BY <1>5 DEF MarkedOnce
<1>6. \/ \E r \in Relays : \/ Mark(r) \/ Commit(r) \/ EndTurn(r) \/ Refuse(r)
                           \/ QueryFails(r) \/ Restart(r)
      \/ UNCHANGED <<marked, marks>>
  BY DEF Next, RelayStep, WriteAudit, PublishState, ListTenants, CheckRoutes, Turn,
     BecomeDue, ReadBatch, Deliver, DiscoveryFails, vars
<1> QED
  BY <1>2, <1>3, <1>4, <1>5, <1>6

-----------------------------------------------------------------------------
(* Relays that wait for each other's rows *)

(* The row that r marks next. *)
Place(r) == CHOOSE n \in rows[r] : First(r, n)

(* Who waits is in the outbox that the other drains, but not so far in it. *)
LEMMA WaitingIsBehind ==
  ASSUME TypeOK, DrainsConsistent, NEW r \in Relays, NEW q \in Relays, NEW x,
         WaitsFor(r, q), WaitsFor(q, x)
  PROVE  Place(r) \in Nat /\ Place(q) \in Nat /\ Place(r) < Place(q)
<1>1. PICK n \in rows[r] : First(r, n) /\ Event(r, n) \in marks[q]
  BY DEF WaitsFor
<1>2. PICK m \in rows[q] : First(q, m)
  BY DEF WaitsFor
<1>3. Place(r) = n /\ Place(q) = m
  BY <1>1, <1>2, FirstIsUnique DEF Place
<1>4. n < m
  BY <1>1, <1>2 DEF DrainsConsistent, DrainConsistent, Event
<1> QED
  BY <1>3, <1>4 DEF TypeOK

(* Among relays that all wait for one of them, some would be furthest. *)
LEMMA OneWaitsForNone ==
  TypeOK /\ DrainsConsistent => NoCircularWait
<1> SUFFICES ASSUME TypeOK, DrainsConsistent, NEW S \in SUBSET Relays, S # {},
                    \A r \in S : \E q \in S : WaitsFor(r, q)
             PROVE  FALSE
  BY DEF NoCircularWait
<1> DEFINE Ahead(r) == {q \in S : Place(q) > Place(r)}
           All == {Ahead(r) : r \in S}
<1>1. IsFiniteSet(S)
  BY FS_Subset, RelayAssumption
<1>2. All \subseteq SUBSET S /\ All # {}
  OBVIOUS
<1>3. PICK s \in All : \A t \in All : t \subseteq s => t = s
  <2> HIDE DEF All
  <2> QED BY <1>1, <1>2, SmallestSubset
<1>4. PICK r \in S : s = Ahead(r)
  BY <1>3
<1>5. PICK q \in S : WaitsFor(r, q)
  OBVIOUS
<1>6. \A p \in S : Place(p) \in Nat
  BY WaitingIsBehind
<1>7. Place(r) < Place(q)
  BY <1>5, WaitingIsBehind
<1>8. Ahead(q) \subseteq Ahead(r) /\ q \in Ahead(r) /\ q \notin Ahead(q)
  BY <1>6, <1>7
<1>9. Ahead(q) = s
  BY <1>3, <1>4, <1>8
<1> QED
  BY <1>4, <1>8, <1>9

-----------------------------------------------------------------------------
(* Theorems *)

LEMMA DeliveryInit == Init => DeliveryInvariant
<1> SUFFICES ASSUME Init PROVE DeliveryInvariant
  OBVIOUS
<1>1. \A t \in Tenants : Revisions(t) = 1..0 /\ 0 \in 0..MaxRevision[t]
  BY EventsAssumption DEF Init, Revisions, Numbers
<1>2. RevisionsContiguous
  BY <1>1 DEF RevisionsContiguous
<1>3. DrainsConsistent
  BY DEF Init, DrainsConsistent, DrainConsistent
<1>4. MarkedHasArrived /\ StatesInOrder /\ MarkedOnce
  BY DEF Init, MarkedHasArrived, StatesInOrder, MarkedOnce, Recorded, Numbers
<1> QED
  BY <1>2, <1>3, <1>4 DEF DeliveryInvariant

(* Whatever other relays and rollbacks do between two calls of a drain, it
   delivers the next state and marks only what it delivered. *)
THEOREM Delivery == Spec => [](TypeOK /\ DeliveryInvariant)
<1>1. Init => TypeOK /\ DeliveryInvariant
  BY TypeInit, DeliveryInit
<1>2. TypeOK /\ DeliveryInvariant /\ [Next]_vars => (TypeOK /\ DeliveryInvariant)'
  <2> SUFFICES ASSUME TypeOK, DeliveryInvariant, [Next]_vars
               PROVE  (TypeOK /\ DeliveryInvariant)'
    OBVIOUS
  <2> USE DEF DeliveryInvariant
  <2>1. TypeOK'
    BY TypeStep
  <2>2. DrainsConsistent'
    BY DrainsStep
  <2>3. RevisionsContiguous'
    BY <2>1, RevisionsStep
  <2>4. MarkedHasArrived' /\ MarkedOnce'
    BY MarkedStep, MarkedOnceStep
  <2>5. StatesInOrder'
    BY <2>1, OrderStep
  <2> QED
    BY <2>1, <2>2, <2>3, <2>4, <2>5
<1> QED
  BY <1>1, <1>2, PTL DEF Spec

(* Every variable keeps its type, with any number of relays. *)
THEOREM TypeCorrect == Spec => []TypeOK
  BY Delivery, PTL

(* What an outbox no longer shows as pending is in the other database. *)
THEOREM MarkedIsDelivered == Spec => []MarkedHasArrived
<1>1. DeliveryInvariant => MarkedHasArrived
  BY DEF DeliveryInvariant
<1> QED
  BY <1>1, Delivery, PTL

(* A tenant's database has the first states of its subscription, none left out. *)
THEOREM StatesAreInOrder == Spec => []StatesInOrder
<1>1. DeliveryInvariant => StatesInOrder
  BY DEF DeliveryInvariant
<1> QED
  BY <1>1, Delivery, PTL

(* No two relays hold the same mark, and none marks what is marked. *)
THEOREM MarksAreExclusive == Spec => []MarkedOnce
<1>1. DeliveryInvariant => MarkedOnce
  BY DEF DeliveryInvariant
<1> QED
  BY <1>1, Delivery, PTL

(* No relays ever wait for each other in a circle: the updates of two drains that
   overlap cannot deadlock. *)
THEOREM RelaysNeverDeadlock == Spec => []NoCircularWait
<1>1. TypeOK /\ DeliveryInvariant => NoCircularWait
  BY OneWaitsForNone DEF DeliveryInvariant
<1> QED
  BY <1>1, Delivery, PTL

-----------------------------------------------------------------------------
(* The refinement *)

LEMMA OutboxStep ==
  TypeOK /\ DeliveryInvariant /\ DeliveryInvariant' /\ [Next]_vars
    => [Outbox!Next]_(Outbox!vars)
<1> SUFFICES ASSUME TypeOK, DeliveryInvariant, DeliveryInvariant', [Next]_vars
             PROVE  [Outbox!Next]_(Outbox!vars)
  OBVIOUS
<1> USE DEF Outbox!Next, Outbox!vars
<1>1. CASE written \subseteq written' /\ arrived' = arrived /\ marked' = marked
  BY <1>1 DEF Outbox!Write
<1>2. ASSUME NEW r \in Relays, NEW n \in rows[r], First(r, n),
             written' = written, marked' = marked, arrived' = arrived \cup {Event(r, n)}
      PROVE  Outbox!Arrive
  <2>1. Event(r, n) \in written /\ n \in Nat
    BY DEF DeliveryInvariant, DrainsConsistent, DrainConsistent, TypeOK
  <2>2. Outbox!InOrder(Event(r, n))
    <3> SUFFICES ASSUME stream[r] = "states", n > 1
                 PROVE  <<tenant[r], stream[r], n - 1>> \in arrived
      BY DEF Outbox!InOrder, Event
    <3>1. n - 1 \in 1..n /\ n - 1 # n
      BY <2>1
    <3>2. Event(r, n - 1) \in arrived
      BY <1>2, <2>1, <3>1, EarlierStatesArrived DEF DeliveryInvariant
    <3> QED
      BY <3>2 DEF Event
  <2> QED
    BY <1>2, <2>1, <2>2 DEF Outbox!Arrive
<1>3. CASE written' = written /\ arrived' = arrived /\ marked \subseteq marked'
  BY <1>3 DEF Outbox!Acknowledge, DeliveryInvariant, MarkedHasArrived
<1>4. DrainsConsistent
  BY DEF DeliveryInvariant
<1> QED
  BY <1>1, <1>2, <1>3, <1>4, StepShape

(* The three streams of every tenant implement an outbox: at least once, states
   in order, acknowledged only after arrival. *)
THEOREM RelayImplementsOutbox == Spec => DeliversOutbox
<1>1. Init => Outbox!Init
  BY DEF Init, Outbox!Init
<1>2. TypeOK /\ DeliveryInvariant /\ DeliveryInvariant' /\ [Next]_vars
        => [Outbox!Next]_(Outbox!vars)
  BY OutboxStep
<1> QED
  BY <1>1, <1>2, Delivery, PTL DEF Spec, DeliversOutbox, Outbox!Spec
=============================================================================
