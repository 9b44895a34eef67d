----------------------------- MODULE Federation -----------------------------
(***************************************************************************)
(* Cross-instance correlation of anomalies: the alert buffer that local    *)
(* anomalies go to (anomaly/usecase/alert_buffer.go), the publisher that   *)
(* sends summaries of them to the peers, the handler that takes such       *)
(* batches in, and the correlator with its garbage collector               *)
(* (federation/usecase, federation/adapter).                               *)
(*                                                                         *)
(* A subject is what a summary is about: a tenant and a mark, the mark     *)
(* standing for the fingerprint of an identity and the kind of anomaly.    *)
(* A ticker holds one tick at most, and the time of a tick is the time it  *)
(* was due, however late it is taken.  A send to a peer can time out while *)
(* the request is still on its way.  A request that is lost, or whose      *)
(* signature does not verify, is one that is never served.                 *)
(***************************************************************************)
EXTENDS Naturals, Sequences, FiniteSets, FiniteSetsExt, SequencesExt, TLC

CONSTANTS Instances, Tenants, Marks,
          Deployments,   \* the deployments considered
          Capacity,      \* of the alert buffer
          MinInstances, CorrelationWindow,
          PublishInterval, GCInterval, MaxBatchAge,
          None,
          MaxTime        \* bound

ASSUME FederationAssumption ==
  /\ \A d \in Deployments : /\ d.peers \in [Instances -> Seq(Instances)]
                            /\ d.serves \in [Instances -> SUBSET Tenants]
                            /\ {d.maxRaised, d.maxLag, d.maxRestarts} \subseteq Nat
  /\ \A n \in {Capacity, MinInstances, CorrelationWindow, PublishInterval, GCInterval,
               MaxBatchAge, MaxTime} : n \in Nat \ {0}

VARIABLES clock,
          setup,         \* the peers file of each instance, the tenants it serves, and bounds
          buf, nextID,   \* the alert buffer of each instance
          cursor,        \* the publisher's lastReadID
          due,           \* the tick waiting in the publisher's ticker, 0 if none
          pub,           \* the publisher: what it is sending, and to whom
          net,           \* the requests on their way
          state,         \* the correlator's map
          alerts,        \* the correlated alerts it emitted
          raised,        \* history: the anomalies raised, and what became of them
          sightings,     \* history: what each correlator took in since its start
          restarts

vars == <<clock, setup, buf, nextID, cursor, due, pub, net, state, alerts, raised,
          sightings, restarts>>

Times    == 0..MaxTime                       \* 0 is the zero time
Subjects == [tenant : Tenants, mark : Marks]
IdlePub  == [pc |-> "idle", peer |-> None, todo |-> <<>>, subs |-> {}, end |-> 0]

Publishers ==
  [pc : {"idle", "sending"}, peer : Instances \union {None},
   todo : Seq(Instances), subs : SUBSET Subjects, end : Times]
Requests == [from : Instances, to : Instances, subs : SUBSET Subjects, end : Times]
Alerts   == [sub : Subjects, at : Times, ids : SUBSET Instances]
Anomalies ==
  [id : Nat, sub : Subjects, ts : Times,
   batches : Nat,         \* how many batches counted it
   readAt : Times,        \* the tick whose publish read it, 0 before
   lost : BOOLEAN]        \* left the buffer unread: pushed out, or the process ended
FingerprintStates ==
  {[instances |-> f, flaggedAt |-> t] :
     f \in UNION {[S -> Times] : S \in SUBSET Instances}, t \in Times}

\* Every history and every map is made of values the code can produce.
TypeOK ==
  /\ clock \in 1..MaxTime /\ setup \in Deployments
  /\ buf \in [Instances -> Seq(1..setup.maxRaised)] /\ \A i \in Instances : Len(buf[i]) <= Capacity
  /\ nextID \in [Instances -> Nat] /\ cursor \in [Instances -> Nat]
  /\ due \in [Instances -> Times]
  /\ pub \in [Instances -> Publishers] /\ net \subseteq Requests
  /\ \A i \in Instances : Range(state[i]) \subseteq FingerprintStates
  /\ alerts \in [Instances -> SUBSET Alerts]
  /\ raised \in [Instances -> Seq(Anomalies)]
  /\ sightings \in [Instances -> SUBSET [from : Instances, sub : Subjects, at : Times]]
  /\ restarts \in 0..setup.maxRestarts

Init ==
  /\ clock = 1 /\ setup \in Deployments
  /\ buf = [i \in Instances |-> <<>>] /\ nextID = [i \in Instances |-> 0]
  /\ cursor = [i \in Instances |-> 0]
  /\ due = [i \in Instances |-> 0]
  /\ pub = [i \in Instances |-> IdlePub] /\ net = {}
  /\ state = [i \in Instances |-> <<>>]
  /\ alerts = [i \in Instances |-> {}]
  /\ raised = [i \in Instances |-> <<>>] /\ sightings = [i \in Instances |-> {}] /\ restarts = 0
-----------------------------------------------------------------------------
(* The alert buffer.  Its entries point into raised.                       *)

RaisedSoFar == FoldSet(LAMBDA i, sum : sum + Len(raised[i]), 0, Instances)

\* A full buffer drops its oldest entry.
MakeRoom(entries) == IF Len(entries) >= Capacity THEN Tail(entries) ELSE entries

\* AlertBuffer.Add: the detector emits an anomaly, whose time it read under its lock some
\* time before.
Raise(i, s, ts) ==
  LET kept == MakeRoom(buf[i])
      new  == [id |-> nextID[i] + 1, sub |-> s, ts |-> ts, batches |-> 0,
               readAt |-> 0, lost |-> FALSE]
      Lost(n) == n \in Range(buf[i]) \ Range(kept) /\ raised[i][n].readAt = 0
  IN  /\ ts <= clock /\ clock <= ts + setup.maxLag
      /\ RaisedSoFar < setup.maxRaised /\ s.tenant \in setup.serves[i]
      /\ nextID' = [nextID EXCEPT ![i] = @ + 1]
      /\ buf' = [buf EXCEPT ![i] = Append(kept, Len(raised[i]) + 1)]
      /\ raised' = [raised EXCEPT ![i] =
           Append([n \in DOMAIN @ |-> [@[n] EXCEPT !.lost = @ \/ Lost(n)]], new)]
      /\ UNCHANGED <<clock, setup, cursor, due, pub, net, state, alerts, sightings, restarts>>

Since(i, afterID) ==
  LET after == IF afterID > nextID[i] THEN 0 ELSE afterID
  IN  {n \in Range(buf[i]) : raised[i][n].id > after}
-----------------------------------------------------------------------------
(* The correlator.                                                         *)

\* Mutated form of StateKey: the fingerprint alone.
KeyWithoutTenant(s) == <<"", s.mark>>

StateKey(s) == <<s.tenant, s.mark>>

\* Mutated form of Rearmed: every sighting past the threshold is reported.
AlwaysArmed(st, now) == TRUE

\* A window has passed since the alert.
Rearmed(st, now) == st.flaggedAt = 0 \/ now >= st.flaggedAt + CorrelationWindow

\* recordAndCheck for one summary, on an accumulator of the correlator's state and alerts.
RecordAndCheck(acc, from, s, now) ==
  LET key  == StateKey(s)
      old  == IF key \in DOMAIN acc.state THEN acc.state[key]
              ELSE [instances |-> <<>>, flaggedAt |-> 0]
      seen == (from :> now) @@ old.instances
      distinct == {j \in DOMAIN seen : seen[j] + CorrelationWindow > now}
      alert == Rearmed(old, now) /\ Cardinality(distinct) >= MinInstances
      st   == [instances |-> seen, flaggedAt |-> IF alert THEN now ELSE old.flaggedAt]
  IN  [state  |-> (key :> st) @@ acc.state,
       alerts |-> acc.alerts \union {a \in {[sub |-> s, at |-> now, ids |-> distinct]} : alert}]

\* Ingest of every summary of a batch, in turn.
IngestAll(i, from, subs) ==
  LET Step(s, acc) == RecordAndCheck(acc, from, s, clock)
      end == FoldSet(Step, [state |-> state[i], alerts |-> alerts[i]], subs)
  IN  /\ state' = [state EXCEPT ![i] = end.state]
      /\ alerts' = [alerts EXCEPT ![i] = end.alerts]
      /\ sightings' = [sightings EXCEPT
           ![i] = @ \union {[from |-> from, sub |-> s, at |-> clock] : s \in subs}]

\* Mutated form of Silent: one silent instance is enough.
AnySilent(st, now) == \E j \in DOMAIN st.instances : st.instances[j] + 2 * GCInterval <= now

\* No instance has reported it for two intervals.
Silent(st, now) == \A j \in DOMAIN st.instances : st.instances[j] + 2 * GCInterval <= now

\* GCCorrelatorOnce with the time of its tick, which may be late; the phase of its ticker is
\* arbitrary, and a tick that finds nothing to drop changes nothing.
GCCorrelatorOnce(i, now) ==
  /\ \E key \in DOMAIN state[i] : Silent(state[i][key], now)
  /\ state' = [state EXCEPT ![i] = Restrict(@, {key \in DOMAIN @ : ~ Silent(@[key], now)})]
  /\ UNCHANGED <<clock, setup, buf, nextID, cursor, due, pub, net, alerts, raised, sightings,
                 restarts>>
-----------------------------------------------------------------------------
(* The publisher.                                                          *)

\* Mutated form of WindowStart: a window of fixed width.
FixedWindow(i, read, now) == IF now > PublishInterval THEN now - PublishInterval ELSE 0

\* One interval back, or further to the earliest anomaly read.
WindowStart(i, read, now) ==
  Min({IF now > PublishInterval THEN now - PublishInterval ELSE 0}
        \union {raised[i][n].ts : n \in read})

\* Aggregate keeps what lies in [start, end).
Aggregate(i, read, start, end) ==
  {n \in read : start <= raised[i][n].ts /\ raised[i][n].ts < end}

NewCursor(i, read) == Max({raised[i][n].id : n \in read})

\* Reads what was raised since the last time and sums it up; an empty sum ends the tick.
PublishOnce(i) ==
  LET now   == due[i]
      read  == Since(i, cursor[i])
      batch == Aggregate(i, read, WindowStart(i, read, now), now)
  IN  /\ due[i] # 0 /\ pub[i].pc = "idle"
      /\ due' = [due EXCEPT ![i] = 0]
      /\ cursor' = [cursor EXCEPT ![i] = IF read = {} THEN @ ELSE NewCursor(i, read)]
      /\ raised' = [raised EXCEPT ![i] = [n \in DOMAIN @ |->
           [@[n] EXCEPT !.readAt = IF n \in read THEN now ELSE @,
                        !.batches = IF n \in batch THEN @ + 1 ELSE @]]]
      /\ pub' = IF batch = {} THEN pub
                ELSE [pub EXCEPT ![i] = [pc |-> "sending", peer |-> None, todo |-> setup.peers[i],
                                         subs |-> {raised[i][n].sub : n \in batch}, end |-> now]]
      /\ UNCHANGED <<clock, setup, buf, nextID, net, state, alerts, sightings, restarts>>

\* Mutated form of Returned: no timeout, so the answer, or an error, must come first.
AnsweredOrFailed(i) ==
  ~ \E m \in net : m.from = i /\ m.to = pub[i].peer /\ m.end = pub[i].end

\* The send before has returned: with an answer, an error or the client's timeout, which are
\* all passed over.
Returned(i) == TRUE

\* The POST to the next peer goes out.
Send(i) ==
  /\ pub[i].pc = "sending" /\ pub[i].todo # <<>> /\ Returned(i)
  /\ pub' = [pub EXCEPT ![i] = [@ EXCEPT !.peer = Head(pub[i].todo), !.todo = Tail(@)]]
  /\ net' = net \union
       {[from |-> i, to |-> Head(pub[i].todo), subs |-> pub[i].subs, end |-> pub[i].end]}
  /\ UNCHANGED <<clock, setup, buf, nextID, cursor, due, state, alerts, raised, sightings,
                 restarts>>

\* Every peer was tried: onSummaries feeds the instance's own correlator.
OnSummaries(i) ==
  /\ pub[i].pc = "sending" /\ pub[i].todo = <<>> /\ Returned(i)
  /\ IngestAll(i, i, pub[i].subs)
  /\ pub' = [pub EXCEPT ![i] = IdlePub]
  /\ UNCHANGED <<clock, setup, buf, nextID, cursor, due, net, raised, restarts>>
-----------------------------------------------------------------------------
(* The handler of POST /federation/summaries.                              *)

IsStale(m) == clock > m.end + MaxBatchAge

ServeHTTP(m) ==
  /\ m \in net
  /\ net' = net \ {m}
  /\ IF m.from \notin Range(setup.peers[m.to]) \/ IsStale(m)
     THEN UNCHANGED <<state, alerts, sightings>>
     ELSE IngestAll(m.to, m.from, m.subs)
  /\ UNCHANGED <<clock, setup, buf, nextID, cursor, due, pub, raised, restarts>>
-----------------------------------------------------------------------------
(* Time and the end of a process.                                          *)

\* A tick is dropped when the one before it has not been taken.
Tick ==
  /\ clock < MaxTime
  /\ clock' = clock + 1
  /\ due' = [i \in Instances |->
       IF due[i] = 0 /\ clock' % PublishInterval = 0 THEN clock' ELSE due[i]]
  /\ UNCHANGED <<setup, buf, nextID, cursor, pub, net, state, alerts, raised, sightings, restarts>>

\* Nothing of the feature is persisted.
Restart(i) ==
  /\ restarts < setup.maxRestarts
  /\ restarts' = restarts + 1
  /\ buf' = [buf EXCEPT ![i] = <<>>] /\ nextID' = [nextID EXCEPT ![i] = 0]
  /\ cursor' = [cursor EXCEPT ![i] = 0]
  /\ due' = [due EXCEPT ![i] = 0]
  /\ pub' = [pub EXCEPT ![i] = IdlePub]
  /\ state' = [state EXCEPT ![i] = <<>>] /\ alerts' = [alerts EXCEPT ![i] = {}]
  /\ sightings' = [sightings EXCEPT ![i] = {}]
  /\ raised' = [raised EXCEPT ![i] =
       [n \in DOMAIN @ |-> [@[n] EXCEPT !.lost = @ \/ raised[i][n].readAt = 0]]]
  /\ UNCHANGED <<clock, setup, net>>

Next ==
  \/ Tick
  \/ \E i \in Instances :
       \/ \E s \in Subjects, ts \in 1..clock : Raise(i, s, ts)
       \/ PublishOnce(i)
       \/ Send(i)
       \/ OnSummaries(i)
       \/ \E now \in 1..clock : GCCorrelatorOnce(i, now)
       \/ Restart(i)
  \/ \E m \in net : ServeHTTP(m)

\* The publisher's goroutine runs and every send ends, by its timeout at the latest.
Fairness ==
  \A i \in Instances : WF_pub(Send(i) \/ OnSummaries(i))

Spec == Init /\ [][Next]_vars /\ Fairness
-----------------------------------------------------------------------------
(* Properties.                                                             *)

\* recordAndCheck with its garbage collector: within one run of a process no two alerts for
\* the same tenant, fingerprint and kind lie less than a correlation window apart, although
\* the state that remembers the last alert may be collected in between.
OneAlertPerWindow ==
  \A i \in Instances : \A a, b \in alerts[i] :
    a.sub = b.sub /\ a # b => a.at + CorrelationWindow <= b.at \/ b.at + CorrelationWindow <= a.at

\* recordAndCheck: whenever a sighting arrives that makes enough distinct instances report a
\* subject within one window, an alert for it has been raised in that window, whatever the
\* collector dropped and however the alert before it was latched.
NoCorrelationMissed ==
  \A i \in Instances : \A x \in sightings[i] :
    LET window == {y \in sightings[i] : /\ y.sub = x.sub /\ y.at <= x.at
                                        /\ x.at < y.at + CorrelationWindow}
    IN  Cardinality({y.from : y \in window}) >= MinInstances =>
          \E a \in alerts[i] : a.sub = x.sub /\ a.at <= clock /\ x.at < a.at + CorrelationWindow

\* Aggregate, Handler and recordAndCheck together: every instance an alert names is this one
\* or one of its peers, and itself raised and published that very subject, a peer not longer
\* ago than a correlation window and the age a batch may have.
SightingsAreReal ==
  \A i \in Instances : \A a \in alerts[i] : \A j \in a.ids :
    /\ j \in Range(setup.peers[i]) \union {i}
    /\ \E x \in Range(raised[j]) :
         /\ x.sub = a.sub /\ x.batches > 0
         /\ j # i => a.at < x.readAt + MaxBatchAge + CorrelationWindow

\* AlertBuffer and PublishOnce: an anomaly is counted in one batch, never in two, although
\* sends fail and time out and the process restarts with its IDs from one.  One that is in no
\* batch is still unread in the buffer, left it unread, or was raised no earlier than the tick
\* that read it was due.
CountedOnce ==
  \A i \in Instances : \A n \in DOMAIN raised[i] :
    LET x == raised[i][n]
    IN  \/ x.batches = 1
        \/ x.batches = 0 /\ \/ x.lost
                            \/ x.readAt = 0 /\ n \in Since(i, cursor[i])
                            \/ x.readAt > 0 /\ x.ts >= x.readAt

\* StartPublisher: a publish under way ends, and the instance's own anomalies reach its
\* correlator, although peers never answer.
PublishEnds == \A i \in Instances : pub[i].pc # "idle" ~> pub[i].pc = "idle"
=============================================================================
