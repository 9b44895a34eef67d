-------------------------------- MODULE Taint -------------------------------
(***************************************************************************)
(* Taint tracking: Engine (taint/usecase/engine.go) over its in-memory     *)
(* store, fed by the audit entries of the proxy's calls.                   *)
(*                                                                         *)
(* A call fixes its timestamp when it arrives, reads its session's label   *)
(* when policy decides it, and publishes one audit entry when it ends: at  *)
(* once if a gate refuses it, before its response is relayed if it went    *)
(* upstream.  Entries carry the arrival time and are published in any      *)
(* order.  An entry of an untrusted tool sets the label of its session to  *)
(* that time, an entry of a declassifying tool clears it.                  *)
(***************************************************************************)
EXTENDS Naturals, FiniteSets

CONSTANTS Calls,
          Identities,   \* (tenant, identity) pairs
          Headers,      \* values of the session header calls may carry
          NoHeader,
          Tools, UntrustedSources, DeclassifySources,
          Refusals,     \* the decisions of calls a gate refuses after policy
          TTL, Window,  \* TaintConfig.TTL(), TaintConfig.Window()
          MaxTime       \* bound on the clock

ASSUME TaintAssumption ==
  /\ TTL \in Nat \ {0} /\ Window \in Nat \ {0} /\ MaxTime \in Nat
  /\ UntrustedSources \subseteq Tools /\ DeclassifySources \subseteq Tools
  /\ Refusals \subseteq {"deny", "throttled", "needs_approval",
                       "job_budget_exceeded", "cost_budget_exceeded"}
  /\ Identities # {} /\ Headers # {} /\ Tools # {}

VARIABLES clock,
          label,    \* the store: at most one [key, setAt] per key
          entries,  \* number of audit entries published
          call

vars == <<clock, label, entries, call>>

SessionID(header, now) ==
  IF header # NoHeader THEN <<"header", header>> ELSE <<"window", now \div Window>>

TaintKey(who, header, now) == <<who, SessionID(header, now)>>

Sessions == ({"header"} \X Headers) \union ({"window"} \X Nat)
Keys     == Identities \X Sessions

Decisions == Refusals \union {"blocked", "allow", "error"}

Requests == [who : Identities, header : Headers, tool : Tools, start : Nat]

CallRecords ==
  [pc : {"idle", "arrived", "decided", "upstream", "ended"}, req : Requests,
   arrivedAt : Nat, decidedAt : Nat,   \* value of entries at these points
   tainted : BOOLEAN,                  \* what policy was told
   decision : Decisions, entry : Nat]  \* its audit entry and its number

TypeOK ==
  /\ clock \in Nat /\ entries \in Nat
  /\ label \in SUBSET [key : Keys, setAt : Nat]
  /\ call \in [Calls -> CallRecords]

NoRequest == [who |-> CHOOSE w \in Identities : TRUE, header |-> CHOOSE h \in Headers : TRUE,
              tool |-> CHOOSE t \in Tools : TRUE, start |-> 0]

\* A call that has not published an entry, or none that says anything.
Silent(pc, req, arrivedAt) ==
  [pc |-> pc, req |-> req, arrivedAt |-> arrivedAt, decidedAt |-> 0, tainted |-> FALSE,
   decision |-> "error", entry |-> 0]

Init == /\ clock = 0 /\ label = {} /\ entries = 0
        /\ call = [c \in Calls |-> Silent("idle", NoRequest, 0)]

-----------------------------------------------------------------------------
ReqKey(q) == TaintKey(q.who, q.header, q.start)
KeyOf(c)  == ReqKey(call[c].req)

Arrive(c, who, header, tool) ==
  /\ call[c].pc = "idle"
  /\ call' = [call EXCEPT ![c] = Silent("arrived",
       [who |-> who, header |-> header, tool |-> tool, start |-> clock], entries)]
  /\ UNCHANGED <<clock, label, entries>>

\* Mutated form of Current: labels never expire.
NeverExpires(key, now) == \E l \in label : l.key = key

Current(key, now) == \E l \in label : l.key = key /\ now <= l.setAt + TTL

Decide(c) ==
  /\ call[c].pc = "arrived"
  /\ call' = [call EXCEPT ![c] =
       [pc |-> "decided", req |-> call[c].req, arrivedAt |-> call[c].arrivedAt,
        decidedAt |-> entries, tainted |-> Current(KeyOf(c), call[c].req.start),
        decision |-> "error", entry |-> 0]]
  /\ UNCHANGED <<clock, label, entries>>

Set(key, at) == label' = {l \in label : l.key # key} \union {[key |-> key, setAt |-> at]}
Clear(key)   == label' = {l \in label : l.key # key}

\* Mutated form of Publish: the label remembers when it was first set.
KeepsFirstLabel(c, decision) ==
  /\ IF decision \in {"deny", "blocked", "throttled"} THEN UNCHANGED label
     ELSE IF call[c].req.tool \in DeclassifySources THEN Clear(KeyOf(c))
     ELSE IF /\ call[c].req.tool \in UntrustedSources
             /\ ~ \E l \in label : l.key = KeyOf(c)
          THEN Set(KeyOf(c), call[c].req.start) ELSE UNCHANGED label
  /\ entries' = entries + 1

Publish(c, decision) ==
  /\ IF decision \in {"deny", "blocked", "throttled"} THEN UNCHANGED label
     ELSE IF call[c].req.tool \in DeclassifySources THEN Clear(KeyOf(c))
     ELSE IF call[c].req.tool \in UntrustedSources THEN Set(KeyOf(c), call[c].req.start)
     ELSE UNCHANGED label
  /\ entries' = entries + 1

\* Only the entry outlives the call.  An entry that says nothing about taint,
\* because the call was turned away or its tool is no source, is forgotten.
Ended(q, decision) ==
  IF \/ decision \in {"deny", "blocked", "throttled"}
     \/ q.tool \notin UntrustedSources \union DeclassifySources
  THEN Silent("ended", NoRequest, 0)
  ELSE [pc |-> "ended", req |-> q, arrivedAt |-> 0, decidedAt |-> 0, tainted |-> FALSE,
        decision |-> decision, entry |-> entries + 1]

End(c, decision) ==
  /\ Publish(c, decision)
  /\ call' = [call EXCEPT ![c] = Ended(call[c].req, decision)]
  /\ UNCHANGED clock

\* The auto-block gate refuses before policy.
Block(c) == call[c].pc = "arrived" /\ End(c, "blocked")

Refuse(c) == call[c].pc = "decided" /\ \E decision \in Refusals : End(c, decision)

Forward(c) ==
  /\ call[c].pc = "decided"
  /\ call' = [call EXCEPT ![c].pc = "upstream"]
  /\ UNCHANGED <<clock, label, entries>>

Respond(c) == call[c].pc = "upstream" /\ \E decision \in {"allow", "error"} : End(c, decision)

Tick == clock < MaxTime /\ clock' = clock + 1 /\ UNCHANGED <<label, entries, call>>

Next ==
  \/ \E c \in Calls :
       \/ \E who \in Identities, header \in Headers, tool \in Tools :
            Arrive(c, who, header, tool)
       \/ Decide(c) \/ Block(c) \/ Refuse(c) \/ Forward(c) \/ Respond(c)
  \/ Tick

Spec == Init /\ [][Next]_vars

-----------------------------------------------------------------------------
Published(c) == call[c].pc = "ended"
Decided(c)   == call[c].pc \in {"decided", "upstream"}

\* The entries of sources, other than of denied, blocked and throttled calls.
Counts(c) == Published(c) /\ call[c].entry # 0
Clears(c) == Counts(c) /\ call[c].req.tool \in DeclassifySources
Taints(c) == Counts(c) /\ call[c].req.tool \in UntrustedSources \ DeclassifySources

\* Whether x's entry came after u's and before policy decided w.
Between(u, x, w) == call[u].entry < call[x].entry /\ call[x].entry <= call[w].decidedAt

WithinTTL(u, w) == call[w].req.start <= call[u].req.start + TTL

(* No taint without a cause: a call that policy saw as tainted has, in its *)
(* own session, an earlier entry of an untrusted source at most TTL older  *)
(* than the call, and no declassifying entry since.                        *)
TaintHasCause ==
  \A w \in Calls : call[w].tainted =>
    \E u \in Calls :
      /\ Taints(u) /\ call[u].entry <= call[w].decidedAt
      /\ KeyOf(u) = KeyOf(w) /\ WithinTTL(u, w)
      /\ ~ \E x \in Calls : Clears(x) /\ KeyOf(x) = KeyOf(w) /\ Between(u, x, w)

(* No untrusted read is missed: a call decided after the entry of an       *)
(* untrusted read of its session, and at most TTL later, is seen as        *)
(* tainted, unless a declassifying entry, or the entry of an untrusted     *)
(* read that arrived earlier, was published in between.                    *)
ReadTaintsLaterCalls ==
  \A u, w \in Calls :
    ( /\ Taints(u) /\ Decided(w) /\ call[u].entry <= call[w].decidedAt
      /\ KeyOf(u) = KeyOf(w) /\ WithinTTL(u, w)
      /\ \A x \in Calls : (KeyOf(x) = KeyOf(w) /\ Between(u, x, w)) =>
           ~Clears(x) /\ (Taints(x) => call[x].req.start >= call[u].req.start) )
    => call[w].tainted

(* A step that changes a label is the end of a call that was not denied,   *)
(* and the call's own session is the only one it changes: calls of other   *)
(* identities or sessions never taint or clear it.                         *)
OwnSessionOnly ==
  [][\A l \in (label \ label') \union (label' \ label) :
       \E c \in Calls : ~Published(c) /\ Counts(c)' /\ KeyOf(c) = l.key]_vars
=============================================================================
