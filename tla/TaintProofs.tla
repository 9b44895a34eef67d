---------------------------- MODULE TaintProofs -----------------------------
(***************************************************************************)
(* Proofs about taint tracking, for any calls, sources, sessions, TTL and  *)
(* window.  The inductive invariant ties the store to the history of       *)
(* entries: a label stands for an untrusted entry that no declassifying    *)
(* entry of its session followed, and an untrusted entry that none         *)
(* followed has left a label at least as recent in that history.           *)
(***************************************************************************)
EXTENDS Taint, TLAPS

Numbered ==
  /\ \A c \in Calls : call[c].entry <= entries /\ call[c].decidedAt <= entries
  /\ \A c, d \in Calls : Counts(c) /\ Counts(d) /\ call[c].entry = call[d].entry => c = d

LabelHasEntry ==
  \A l \in label : \E u \in Calls :
    /\ Taints(u) /\ KeyOf(u) = l.key /\ call[u].req.start = l.setAt
    /\ \A x \in Calls : Clears(x) /\ KeyOf(x) = l.key => call[x].entry < call[u].entry

EntryHasLabel ==
  \A u \in Calls :
    ( /\ Taints(u)
      /\ \A x \in Calls : Clears(x) /\ KeyOf(x) = KeyOf(u) => call[x].entry < call[u].entry )
    => \E l \in label, x \in Calls :
         /\ Taints(x) /\ KeyOf(x) = KeyOf(u) /\ l.key = KeyOf(u)
         /\ call[x].req.start = l.setAt /\ call[x].entry >= call[u].entry

IInv == /\ TypeOK /\ Numbered /\ LabelHasEntry /\ EntryHasLabel
        /\ TaintHasCause /\ ReadTaintsLaterCalls

USE TaintAssumption DEF Decisions, CallRecords

LEMMA NoRequestType == NoRequest \in Requests
BY Zenon DEF NoRequest, Requests

LEMMA KeyType ==
  ASSUME TypeOK, NEW c \in Calls
  PROVE  KeyOf(c) \in Keys
BY DEF TypeOK, KeyOf, ReqKey, Requests, TaintKey, SessionID, Keys, Sessions

LEMMA CurrentType == ASSUME NEW key, NEW now PROVE Current(key, now) \in BOOLEAN
BY Zenon DEF Current

LEMMA EndedRecord ==
  ASSUME TypeOK, NEW q \in Requests, NEW decision \in Decisions
  PROVE  Ended(q, decision) \in CallRecords
BY NoRequestType DEF Ended, Silent, TypeOK

LEMMA PublishType ==
  ASSUME TypeOK, NEW c \in Calls, NEW decision \in Decisions, Publish(c, decision)
  PROVE  label' \in SUBSET [key : Keys, setAt : Nat] /\ entries' = entries + 1
BY KeyType DEF Requests, Publish, Set, Clear, TypeOK

LEMMA TypeStep == TypeOK /\ [Next]_vars => TypeOK'
<1> SUFFICES ASSUME TypeOK, [Next]_vars PROVE TypeOK'
  OBVIOUS
<1> USE DEF TypeOK
<1>1. ASSUME NEW c \in Calls, NEW who \in Identities, NEW header \in Headers,
             NEW tool \in Tools, Arrive(c, who, header, tool)
      PROVE  TypeOK'
  BY <1>1, Zenon DEF Arrive, Silent, Requests
<1>2. ASSUME NEW c \in Calls, Decide(c) PROVE TypeOK'
  <2> DEFINE t == Current(KeyOf(c), call[c].req.start)
  <2>1. t \in BOOLEAN
    BY CurrentType, Zenon
  <2>2. /\ UNCHANGED <<clock, label, entries>>
        /\ call' = [call EXCEPT ![c] =
             [pc |-> "decided", req |-> call[c].req, arrivedAt |-> call[c].arrivedAt,
              decidedAt |-> entries, tainted |-> t, decision |-> "error", entry |-> 0]]
    BY <1>2, Zenon DEF Decide
  <2> HIDE DEF t
  <2> QED
    BY <2>1, <2>2, Zenon
<1>3. ASSUME NEW c \in Calls, NEW decision \in Decisions, End(c, decision) PROVE TypeOK'
  <2>1. label' \in SUBSET [key : Keys, setAt : Nat] /\ entries' = entries + 1
    BY <1>3, PublishType, Zenon DEF End
  <2>2. Ended(call[c].req, decision) \in CallRecords
    BY EndedRecord, ZenonT(30)
  <2> QED
    BY <1>3, <2>1, <2>2 DEF End
<1>4. ASSUME NEW c \in Calls, Forward(c) PROVE TypeOK'
  BY <1>4 DEF Forward
<1>5. CASE Tick
  BY <1>5 DEF Tick
<1>6. CASE UNCHANGED vars
  BY <1>6, Zenon DEF vars
<1> QED
  BY <1>1, <1>2, <1>3, <1>4, <1>5, <1>6, Zenon DEF Next, Block, Refuse, Respond

LEMMA InitInv == Init => IInv
<1> SUFFICES ASSUME Init PROVE IInv
  OBVIOUS
<1>1. TypeOK
  BY NoRequestType, Zenon DEF Init, Silent, TypeOK
<1>2. \A c \in Calls : call[c] = Silent("idle", NoRequest, 0)
  BY Zenon DEF Init
<1> QED
  BY <1>1, <1>2
     DEF Init, IInv, Numbered, LabelHasEntry, EntryHasLabel, TaintHasCause, Silent,
         ReadTaintsLaterCalls, Counts, Clears, Taints, Published, Decided

(* The type invariant, for all constants.                                  *)
THEOREM TypeCorrect == Spec => []TypeOK
<1>1. Init => TypeOK
  BY InitInv, Zenon DEF IInv
<1> QED
  BY <1>1, TypeStep, PTL DEF Spec

-----------------------------------------------------------------------------
\* What a step that publishes nothing about c leaves of c in the history.
Same(c) ==
  /\ Counts(c)' <=> Counts(c)
  /\ Clears(c)' <=> Clears(c)
  /\ Taints(c)' <=> Taints(c)
  /\ Counts(c) => call'[c].req = call[c].req /\ call'[c].entry = call[c].entry

LEMMA SameUnlessEnded ==
  ASSUME TypeOK, NEW c \in Calls, call[c].pc # "ended", call'[c].pc # "ended" \/ call'[c].entry = 0
  PROVE  Same(c)
BY Zenon DEF Same, Counts, Clears, Taints, Published

LEMMA SameIfUnchanged ==
  ASSUME NEW c \in Calls, call'[c] = call[c]
  PROVE  Same(c)
BY Zenon DEF Same, Counts, Clears, Taints, Published

LEMMA QuietLabels ==
  ASSUME IInv, label' = label, \A c \in Calls : Same(c)
  PROVE  LabelHasEntry' /\ EntryHasLabel'
<1>1. \A c \in Calls : Clears(c) \/ Taints(c) => Counts(c)
  BY Zenon DEF Clears, Taints
<1>2. LabelHasEntry'
  BY <1>1 DEF IInv, LabelHasEntry, Same, KeyOf
<1>3. EntryHasLabel'
  BY <1>1 DEF IInv, EntryHasLabel, Same, KeyOf
<1> QED
  BY <1>2, <1>3, Zenon

(* What policy was told of a call stays justified by the history as long   *)
(* as the call's record and the entries before its decision stay.          *)
LEMMA DecidedStays ==
  ASSUME IInv, TypeOK', NEW c \in Calls,
         \A d \in Calls \ {c} : call'[d] = call[d],
         call'[c].tainted = FALSE, ~Decided(c)',
         \/ Same(c)
         \/ ~Counts(c) /\ call'[c].entry > entries
  PROVE  TaintHasCause' /\ ReadTaintsLaterCalls'
<1> USE DEF IInv, TypeOK, Numbered
<1>0. \A d \in Calls \ {c} :
        /\ (Counts(d)' <=> Counts(d)) /\ (Clears(d)' <=> Clears(d)) /\ (Taints(d)' <=> Taints(d))
        /\ (Decided(d)' <=> Decided(d)) /\ KeyOf(d)' = KeyOf(d)
  BY Zenon DEF Counts, Clears, Taints, Published, Decided, KeyOf
<1>1. \A x \in Calls, w \in Calls \ {c} :
        call'[x].entry <= call[w].decidedAt /\ (Clears(x)' \/ Taints(x)')
          => Same(x)
  BY SameIfUnchanged
<1>2. TaintHasCause'
  <2> SUFFICES ASSUME NEW w \in Calls, call'[w].tainted
               PROVE  (\E u \in Calls :
                         /\ Taints(u) /\ call[u].entry <= call[w].decidedAt
                         /\ KeyOf(u) = KeyOf(w) /\ WithinTTL(u, w)
                         /\ ~ \E x \in Calls : Clears(x) /\ KeyOf(x) = KeyOf(w) /\ Between(u, x, w))'
    BY Zenon DEF TaintHasCause
  <2>1. w # c /\ call'[w] = call[w] /\ KeyOf(w)' = KeyOf(w)
    BY <1>0, Zenon
  <2>2. PICK u \in Calls :
          /\ Taints(u) /\ call[u].entry <= call[w].decidedAt
          /\ KeyOf(u) = KeyOf(w) /\ WithinTTL(u, w)
          /\ ~ \E x \in Calls : Clears(x) /\ KeyOf(x) = KeyOf(w) /\ Between(u, x, w)
    BY <2>1, Zenon DEF TaintHasCause
  <2>3. Same(u) /\ Taints(u)' /\ call'[u].entry = call[u].entry /\ call'[u].req = call[u].req
    BY <2>2, <1>0, SameIfUnchanged, ZenonT(30) DEF Same, Taints
  <2>4. ASSUME NEW x \in Calls, Clears(x)', KeyOf(x)' = KeyOf(w), Between(u, x, w)'
        PROVE  FALSE
    <3>1. Same(x)
      BY <1>1, <2>1, <2>4, Zenon DEF Between
    <3>2. Clears(x) /\ KeyOf(x) = KeyOf(w) /\ Between(u, x, w)
      BY <3>1, <2>1, <2>3, <2>4, Zenon DEF Same, Clears, KeyOf, Between
    <3> QED
      BY <2>2, <3>2, Zenon
  <2> QED
    BY <2>1, <2>2, <2>3, <2>4, Zenon DEF WithinTTL, KeyOf
<1>3. ReadTaintsLaterCalls'
  <2> SUFFICES ASSUME NEW u \in Calls, NEW w \in Calls,
                      (/\ Taints(u) /\ Decided(w) /\ call[u].entry <= call[w].decidedAt
                       /\ KeyOf(u) = KeyOf(w) /\ WithinTTL(u, w)
                       /\ \A x \in Calls : (KeyOf(x) = KeyOf(w) /\ Between(u, x, w)) =>
                            ~Clears(x) /\ (Taints(x) => call[x].req.start >= call[u].req.start))'
               PROVE  call'[w].tainted
    BY Zenon DEF ReadTaintsLaterCalls
  <2>1. w # c /\ call'[w] = call[w] /\ KeyOf(w)' = KeyOf(w) /\ Decided(w)
    BY <1>0, Zenon
  <2>2. Same(u)
    BY <1>1, <2>1, Zenon
  <2>3. Taints(u) /\ call'[u].entry = call[u].entry /\ call'[u].req = call[u].req
    BY <2>2, Zenon DEF Same, Taints
  <2>4. ASSUME NEW x \in Calls, KeyOf(x) = KeyOf(w), Between(u, x, w)
        PROVE  ~Clears(x) /\ (Taints(x) => call[x].req.start >= call[u].req.start)
    <3>1. CASE ~Counts(x)
      BY <3>1, Zenon DEF Clears, Taints
    <3>2. CASE Counts(x)
      <4>1. Same(x)
        BY <3>2, SameIfUnchanged, Zenon
      <4>2. KeyOf(x)' = KeyOf(w)' /\ Between(u, x, w)'
        BY <3>2, <4>1, <2>1, <2>3, <2>4, Zenon DEF Same, KeyOf, Between
      <4> QED
        BY <3>2, <4>1, <4>2, <2>3, Zenon DEF Same
    <3> QED
      BY <3>1, <3>2, Zenon
  <2> QED
    BY <2>1, <2>3, <2>4, Zenon DEF ReadTaintsLaterCalls, WithinTTL, KeyOf
<1> QED
  BY <1>2, <1>3, Zenon

LEMMA DecideStep ==
  ASSUME IInv, TypeOK', NEW c \in Calls, Decide(c)
  PROVE  IInv'
<1> USE DEF IInv, TypeOK
<1>1. /\ call[c].pc = "arrived" /\ label' = label /\ entries' = entries
      /\ \A d \in Calls \ {c} : call'[d] = call[d]
  BY Zenon DEF Decide
<1>2. /\ call'[c].pc = "decided" /\ call'[c].req = call[c].req /\ call'[c].entry = 0
      /\ call'[c].decidedAt = entries
  BY Zenon DEF Decide
<1>3. call'[c].tainted <=> Current(KeyOf(c), call[c].req.start)
  BY CurrentType, Zenon DEF Decide
<1>4. \A d \in Calls : Same(d)
  BY <1>1, <1>2, SameUnlessEnded, SameIfUnchanged, Zenon
<1>5. \A d \in Calls : KeyOf(d)' = KeyOf(d) /\ call'[d].req = call[d].req
  BY <1>1, <1>2, Zenon DEF KeyOf
<1>6. \A d \in Calls : Clears(d) \/ Taints(d) => call'[d] = call[d] /\ call[d].entry \in 1..entries
  BY <1>1 DEF Clears, Taints, Counts, Published, Numbered
<1>7. Numbered'
  BY <1>1, <1>2, <1>4 DEF Numbered, Same
<1>8. TaintHasCause'
  <2> SUFFICES ASSUME NEW w \in Calls, call'[w].tainted
               PROVE  (\E u \in Calls :
                         /\ Taints(u) /\ call[u].entry <= call[w].decidedAt
                         /\ KeyOf(u) = KeyOf(w) /\ WithinTTL(u, w)
                         /\ ~ \E x \in Calls : Clears(x) /\ KeyOf(x) = KeyOf(w) /\ Between(u, x, w))'
    BY Zenon DEF TaintHasCause
  <2>1. \E u \in Calls :
          /\ Taints(u) /\ call[u].entry <= call'[w].decidedAt
          /\ KeyOf(u) = KeyOf(w) /\ WithinTTL(u, w)
          /\ \A x \in Calls : Clears(x) /\ KeyOf(x) = KeyOf(w)
               => ~(call[u].entry < call[x].entry /\ call[x].entry <= call'[w].decidedAt)
    <3>1. CASE w # c
      BY <1>1, <3>1, Zenon DEF TaintHasCause, Between
    <3>2. CASE w = c
      <4>1. PICK l \in label : l.key = KeyOf(c) /\ call[c].req.start <= l.setAt + TTL
        BY <1>3, <3>2, Zenon DEF Current
      <4>2. PICK u \in Calls :
              /\ Taints(u) /\ KeyOf(u) = l.key /\ call[u].req.start = l.setAt
              /\ \A x \in Calls : Clears(x) /\ KeyOf(x) = l.key => call[x].entry < call[u].entry
        BY <4>1, Zenon DEF LabelHasEntry
      <4> QED
        BY <1>2, <1>6, <3>2, <4>1, <4>2 DEF WithinTTL
    <3> QED
      BY <3>1, <3>2, Zenon
  <2> QED
    BY <2>1, <1>4, <1>5, <1>6 DEF Same, WithinTTL, Between
<1>9. ReadTaintsLaterCalls'
  <2> SUFFICES ASSUME NEW u \in Calls, NEW w \in Calls,
                      (/\ Taints(u) /\ Decided(w) /\ call[u].entry <= call[w].decidedAt
                       /\ KeyOf(u) = KeyOf(w) /\ WithinTTL(u, w)
                       /\ \A x \in Calls : (KeyOf(x) = KeyOf(w) /\ Between(u, x, w)) =>
                            ~Clears(x) /\ (Taints(x) => call[x].req.start >= call[u].req.start))'
               PROVE  call'[w].tainted
    BY Zenon DEF ReadTaintsLaterCalls
  <2>1. Taints(u) /\ call'[u] = call[u] /\ KeyOf(u) = KeyOf(w)
    BY <1>4, <1>5, <1>6, Zenon DEF Same
  <2>2. call[w].req.start <= call[u].req.start + TTL
    BY <1>5, Zenon DEF WithinTTL
  <2>3. \A x \in Calls :
          (/\ KeyOf(x) = KeyOf(w) /\ (Clears(x) \/ Taints(x))
           /\ call[u].entry < call[x].entry /\ call[x].entry <= call'[w].decidedAt)
          => ~Clears(x) /\ (Taints(x) => call[x].req.start >= call[u].req.start)
    BY <1>4, <1>5, <1>6, <2>1 DEF Same, Between
  <2>4. CASE w # c
    <3>1. call'[w] = call[w] /\ Decided(w)
      BY <1>1, <2>4, Zenon DEF Decided
    <3> QED
      BY <2>1, <2>2, <2>3, <3>1, Zenon DEF ReadTaintsLaterCalls, Between, WithinTTL
  <2>5. CASE w = c
    <3>0. \A x \in Calls : call[x].entry \in Nat /\ call[x].entry <= call'[w].decidedAt
      BY <1>2, <2>5, Zenon DEF Numbered
    <3>1. \A x \in Calls : Clears(x) /\ KeyOf(x) = KeyOf(u) => call[x].entry < call[u].entry
      <4> SUFFICES ASSUME NEW x \in Calls, Clears(x), KeyOf(x) = KeyOf(u),
                          call[x].entry >= call[u].entry
                   PROVE  FALSE
        BY <1>6, <2>1
      <4>1. call[x].entry # call[u].entry
        BY <2>1, Zenon DEF Numbered, Clears, Taints
      <4>2. call[u].entry < call[x].entry /\ call[x].entry <= call'[w].decidedAt
        <5> HIDE DEF IInv, TypeOK
        <5>1. call[x].entry \in Nat /\ call[u].entry \in Nat
          BY <3>0, Zenon
        <5> QED
          BY <3>0, <4>1, <5>1
      <4> QED
        BY <4>2, <2>1, <2>3, Zenon
    <3>2. PICK l \in label, x \in Calls :
            /\ Taints(x) /\ KeyOf(x) = KeyOf(u) /\ l.key = KeyOf(u)
            /\ call[x].req.start = l.setAt /\ call[x].entry >= call[u].entry
      BY <2>1, <3>1, Zenon DEF EntryHasLabel
    <3>3. call[x].req.start >= call[u].req.start
      <4>1. CASE call[x].entry = call[u].entry
        BY <4>1, <2>1, <3>2 DEF Numbered, Taints, Requests
      <4>2. CASE call[x].entry # call[u].entry
        <5>1. call[u].entry < call[x].entry /\ call[x].entry <= call'[w].decidedAt
          <6> HIDE DEF IInv, TypeOK
          <6>1. call[x].entry \in Nat /\ call[u].entry \in Nat
            BY <3>0, Zenon
          <6>2. call[x].entry >= call[u].entry
            BY <3>2, Zenon
          <6> QED
            BY <3>0, <4>2, <6>1, <6>2
        <5> QED
          BY <5>1, <2>1, <2>3, <3>2, Zenon
      <4> QED
        BY <4>1, <4>2, Zenon
    <3>4. call[w].req.start \in Nat /\ call[u].req.start \in Nat /\ call[x].req.start \in Nat
      BY Zenon DEF Requests
    <3> QED
      BY <1>3, <2>1, <2>2, <2>5, <3>2, <3>3, <3>4 DEF Current
  <2> QED
    BY <2>4, <2>5, Zenon
<1> QED
  BY <1>1, <1>4, <1>7, <1>8, <1>9, QuietLabels, Zenon

LEMMA EndStep ==
  ASSUME IInv, TypeOK', NEW c \in Calls, NEW decision \in Decisions,
         call[c].pc # "ended", End(c, decision)
  PROVE  IInv'
<1> USE DEF IInv, TypeOK
<1> DEFINE q == call[c].req
           k == KeyOf(c)
           silent == \/ decision \in {"deny", "blocked", "throttled"}
                     \/ q.tool \notin UntrustedSources \union DeclassifySources
<1>1. /\ \A d \in Calls \ {c} : call'[d] = call[d] /\ Same(d) /\ KeyOf(d)' = KeyOf(d)
      /\ call'[c] = Ended(q, decision)
      /\ entries' = entries + 1 /\ ~Counts(c)
  BY SameIfUnchanged, Zenon DEF End, Publish, Counts, Published, KeyOf
<1>2. /\ call'[c].pc = "ended" /\ call'[c].tainted = FALSE /\ call'[c].decidedAt = 0
      /\ silent => call'[c].entry = 0
      /\ ~silent => call'[c].entry = entries + 1 /\ call'[c].req = q
  BY <1>1 DEF Ended, Silent
<1>3. Numbered'
  BY <1>1, <1>2 DEF Numbered, Counts, Published
<1>4. TaintHasCause' /\ ReadTaintsLaterCalls'
  <2>1. ~Decided(c)'
    BY <1>2, Zenon DEF Decided
  <2>2. Same(c) \/ (~Counts(c) /\ call'[c].entry > entries)
    BY <1>1, <1>2, SameUnlessEnded
  <2> QED
    BY <1>1, <1>2, <2>1, <2>2, DecidedStays, Zenon
<1>5. CASE silent
  <2>1. label' = label
    BY <1>5, Zenon DEF End, Publish
  <2>2. \A d \in Calls : Same(d)
    BY <1>1, <1>2, <1>5, SameUnlessEnded, Zenon
  <2> QED
    BY <1>3, <1>4, <2>1, <2>2, QuietLabels, Zenon
<1>6. CASE ~silent
  <2>1. /\ Counts(c)' /\ KeyOf(c)' = k /\ call'[c].entry = entries + 1
        /\ Clears(c)' <=> q.tool \in DeclassifySources
        /\ Taints(c)' <=> q.tool \notin DeclassifySources
    BY <1>2, <1>6 DEF Counts, Published, Clears, Taints, KeyOf
  <2>2. \A d \in Calls : Counts(d) => d # c /\ call[d].entry <= entries
    BY <1>1, Zenon DEF Numbered
  <2>3. \A d \in Calls : Clears(d) \/ Taints(d) => Counts(d)
    BY Zenon DEF Clears, Taints
  <2>4. CASE q.tool \in DeclassifySources
    <3>1. label' = {l \in label : l.key # k}
      BY <1>6, <2>4, Zenon DEF End, Publish, Clear
    <3>2. LabelHasEntry'
      <4> SUFFICES ASSUME NEW l \in label, l.key # k
                   PROVE  (\E u \in Calls :
                             /\ Taints(u) /\ KeyOf(u) = l.key /\ call[u].req.start = l.setAt
                             /\ \A x \in Calls : Clears(x) /\ KeyOf(x) = l.key
                                  => call[x].entry < call[u].entry)'
        BY <3>1, Zenon DEF LabelHasEntry
      <4>1. PICK u \in Calls :
              /\ Taints(u) /\ KeyOf(u) = l.key /\ call[u].req.start = l.setAt
              /\ \A x \in Calls : Clears(x) /\ KeyOf(x) = l.key => call[x].entry < call[u].entry
        BY Zenon DEF LabelHasEntry
      <4>2. u # c
        BY <4>1, <2>2, <2>3, Zenon
      <4> QED
        BY <1>1, <2>1, <4>1, <4>2, ZenonT(30) DEF Same
    <3>3. EntryHasLabel'
      <4> SUFFICES ASSUME NEW u \in Calls, Taints(u)',
                          \A x \in Calls : Clears(x)' /\ KeyOf(x)' = KeyOf(u)'
                            => call'[x].entry < call'[u].entry
                   PROVE  (\E l \in label, x \in Calls :
                             /\ Taints(x) /\ KeyOf(x) = KeyOf(u) /\ l.key = KeyOf(u)
                             /\ call[x].req.start = l.setAt /\ call[x].entry >= call[u].entry)'
        BY Zenon DEF EntryHasLabel
      <4>1. u # c /\ Taints(u) /\ call'[u] = call[u] /\ KeyOf(u)' = KeyOf(u)
        BY <1>1, <2>1, <2>4, Zenon DEF Same
      <4>2. KeyOf(u) # k
        BY <2>1, <2>2, <2>3, <2>4, <4>1
      <4>3. \A x \in Calls : Clears(x) /\ KeyOf(x) = KeyOf(u) => call[x].entry < call[u].entry
        BY <1>1, <2>2, <2>3, <4>1, Zenon DEF Same
      <4>4. PICK l \in label, x \in Calls :
              /\ Taints(x) /\ KeyOf(x) = KeyOf(u) /\ l.key = KeyOf(u)
              /\ call[x].req.start = l.setAt /\ call[x].entry >= call[u].entry
        BY <4>1, <4>3, Zenon DEF EntryHasLabel
      <4>5. l \in label' /\ x # c
        BY <3>1, <4>2, <4>4, <2>2, <2>3, Zenon
      <4> QED
        BY <1>1, <4>1, <4>4, <4>5 DEF Same
    <3> QED
      BY <1>3, <1>4, <3>2, <3>3, Zenon
  <2>5. CASE q.tool \notin DeclassifySources
    <3>1. label' = {l \in label : l.key # k} \union {[key |-> k, setAt |-> q.start]}
      BY <1>6, <2>5, Zenon DEF End, Publish, Set
    <3>2. LabelHasEntry'
      <4> SUFFICES ASSUME NEW l \in label'
                   PROVE  (\E u \in Calls :
                             /\ Taints(u) /\ KeyOf(u) = l.key /\ call[u].req.start = l.setAt
                             /\ \A x \in Calls : Clears(x) /\ KeyOf(x) = l.key
                                  => call[x].entry < call[u].entry)'
        BY Zenon DEF LabelHasEntry
      <4>1. CASE l = [key |-> k, setAt |-> q.start]
        <5>1. \A x \in Calls : Clears(x)' => Clears(x) /\ call'[x].entry <= entries
          BY <1>1, <2>1, <2>2, <2>3, <2>5, Zenon DEF Same
        <5> QED
          BY <1>2, <1>6, <2>1, <2>5, <4>1, <5>1, SMTT(30)
      <4>2. CASE l \in label /\ l.key # k
        <5>1. PICK u \in Calls :
                /\ Taints(u) /\ KeyOf(u) = l.key /\ call[u].req.start = l.setAt
                /\ \A x \in Calls : Clears(x) /\ KeyOf(x) = l.key => call[x].entry < call[u].entry
          BY <4>2, Zenon DEF LabelHasEntry
        <5>2. u # c
          BY <5>1, <2>2, <2>3, Zenon
        <5> QED
          BY <1>1, <2>1, <4>2, <5>1, <5>2, ZenonT(30) DEF Same
      <4> QED
        BY <3>1, <4>1, <4>2, Zenon
    <3>3. EntryHasLabel'
      <4> SUFFICES ASSUME NEW u \in Calls, Taints(u)',
                          \A x \in Calls : Clears(x)' /\ KeyOf(x)' = KeyOf(u)'
                            => call'[x].entry < call'[u].entry
                   PROVE  (\E l \in label, x \in Calls :
                             /\ Taints(x) /\ KeyOf(x) = KeyOf(u) /\ l.key = KeyOf(u)
                             /\ call[x].req.start = l.setAt /\ call[x].entry >= call[u].entry)'
        BY Zenon DEF EntryHasLabel
      <4>1. CASE KeyOf(u)' = k
        <5> DEFINE l == [key |-> k, setAt |-> q.start]
        <5>1. l \in label' /\ l.key = k /\ l.setAt = q.start
          BY <3>1, Zenon
        <5>2. call'[c].entry >= call'[u].entry
          BY <1>1, <1>3, <2>1, ZenonT(30) DEF Numbered
        <5>3. call'[c].req.start = q.start
          BY <1>2, <1>6, Zenon
        <5> HIDE DEF l
        <5> QED
          BY <2>1, <2>5, <4>1, <5>1, <5>2, <5>3, Zenon
      <4>2. CASE KeyOf(u)' # k
        <5>1. u # c /\ Taints(u) /\ call'[u] = call[u] /\ KeyOf(u)' = KeyOf(u)
          BY <1>1, <2>1, <4>2, Zenon DEF Same
        <5>2. \A x \in Calls : Clears(x) /\ KeyOf(x) = KeyOf(u) => call[x].entry < call[u].entry
          BY <1>1, <2>2, <2>3, <5>1, ZenonT(30) DEF Same
        <5>3. PICK l \in label, x \in Calls :
                /\ Taints(x) /\ KeyOf(x) = KeyOf(u) /\ l.key = KeyOf(u)
                /\ call[x].req.start = l.setAt /\ call[x].entry >= call[u].entry
          BY <5>1, <5>2, Zenon DEF EntryHasLabel
        <5>4. l \in label' /\ x # c
          BY <3>1, <4>2, <5>1, <5>3, <2>2, <2>3, Zenon
        <5> QED
          BY <1>1, <5>1, <5>3, <5>4 DEF Same
      <4> QED
        BY <4>1, <4>2, Zenon
    <3> QED
      BY <1>3, <1>4, <3>2, <3>3, Zenon
  <2> QED
    BY <2>4, <2>5, Zenon
<1> QED
  BY <1>5, <1>6, Zenon

LEMMA InvStep == IInv /\ [Next]_vars => IInv'
<1> SUFFICES ASSUME IInv, [Next]_vars PROVE IInv'
  OBVIOUS
<1>0. TypeOK'
  BY TypeStep, Zenon DEF IInv
<1>1. ASSUME NEW c \in Calls, NEW who \in Identities, NEW header \in Headers,
             NEW tool \in Tools, Arrive(c, who, header, tool)
      PROVE  IInv'
  <2> USE DEF IInv, TypeOK
  <2>1. /\ label' = label /\ entries' = entries /\ call[c].pc = "idle"
        /\ \A d \in Calls \ {c} : call'[d] = call[d]
        /\ call'[c].pc = "arrived" /\ call'[c].entry = 0 /\ call'[c].decidedAt = 0
        /\ call'[c].tainted = FALSE
    BY <1>1, Zenon DEF Arrive, Silent
  <2>2. \A d \in Calls : Same(d)
    BY <2>1, SameUnlessEnded, SameIfUnchanged, Zenon
  <2>3. Numbered'
    <3>1. \A d \in Calls : Counts(d)' => Counts(d) /\ call'[d].entry = call[d].entry
      BY <2>2, Zenon DEF Same
    <3> QED
      BY <2>1, <3>1 DEF Numbered
  <2>4. ~Decided(c)'
    BY <2>1, Zenon DEF Decided
  <2> HIDE DEF IInv, TypeOK
  <2>5. LabelHasEntry' /\ EntryHasLabel'
    BY <2>1, <2>2, QuietLabels, Zenon
  <2>6. TaintHasCause' /\ ReadTaintsLaterCalls'
    BY <1>0, <2>1, <2>2, <2>4, DecidedStays, Zenon
  <2> QED
    BY <1>0, <2>3, <2>5, <2>6, Zenon DEF IInv
<1>2. ASSUME NEW c \in Calls, Decide(c) PROVE IInv'
  BY <1>0, <1>2, DecideStep, Zenon
<1>3. ASSUME NEW c \in Calls, NEW decision \in Decisions, call[c].pc # "ended", End(c, decision)
      PROVE  IInv'
  BY <1>0, <1>3, EndStep, Zenon
<1>4. ASSUME NEW c \in Calls, Forward(c) PROVE IInv'
  <2> USE DEF IInv, TypeOK
  <2>1. /\ label' = label /\ entries' = entries /\ call[c].pc = "decided"
        /\ \A d \in Calls \ {c} : call'[d] = call[d]
        /\ call'[c].pc = "upstream" /\ call'[c].entry = call[c].entry
        /\ call'[c].decidedAt = call[c].decidedAt /\ call'[c].req = call[c].req
        /\ call'[c].tainted = call[c].tainted
    BY <1>4, ZenonT(30) DEF Forward
  <2>2. \A d \in Calls : Same(d)
    BY <2>1, SameUnlessEnded, SameIfUnchanged, Zenon
  <2>3. Numbered'
    BY <2>1, <2>2, ZenonT(30) DEF Numbered, Same
  <2>4. \A d \in Calls : /\ KeyOf(d)' = KeyOf(d) /\ call'[d].entry = call[d].entry
                         /\ call'[d].req = call[d].req /\ call'[d].tainted = call[d].tainted
                         /\ call'[d].decidedAt = call[d].decidedAt
                         /\ (Decided(d)' <=> Decided(d))
    BY <2>1, Zenon DEF KeyOf, Decided
  <2>5. \A u, x, w \in Calls : /\ Between(u, x, w)' <=> Between(u, x, w)
                               /\ WithinTTL(u, w)' <=> WithinTTL(u, w)
                               /\ Taints(u)' <=> Taints(u)
                               /\ Clears(u)' <=> Clears(u)
    BY <2>2, <2>4, ZenonT(30) DEF Between, WithinTTL, Same
  <2> HIDE DEF TypeOK
  <2>6. TaintHasCause'
    BY <2>4, <2>5, ZenonT(30) DEF TaintHasCause
  <2>7. ReadTaintsLaterCalls'
    <3> SUFFICES ASSUME NEW u \in Calls, NEW w \in Calls,
                        Taints(u)', Decided(w)', call'[u].entry <= call'[w].decidedAt,
                        KeyOf(u)' = KeyOf(w)', WithinTTL(u, w)',
                        \A x \in Calls : (KeyOf(x)' = KeyOf(w)' /\ Between(u, x, w)') =>
                          ~Clears(x)' /\ (Taints(x)' => call'[x].req.start >= call'[u].req.start)
                 PROVE  call'[w].tainted
      BY Zenon DEF ReadTaintsLaterCalls
    <3>1. /\ Taints(u) /\ Decided(w) /\ call[u].entry <= call[w].decidedAt
          /\ KeyOf(u) = KeyOf(w) /\ WithinTTL(u, w)
      BY <2>4, <2>5, Zenon
    <3>2. ASSUME NEW x \in Calls, KeyOf(x) = KeyOf(w), Between(u, x, w)
          PROVE  ~Clears(x) /\ (Taints(x) => call[x].req.start >= call[u].req.start)
      BY <2>4, <2>5, <3>2, ZenonT(30)
    <3>3. call[w].tainted
      BY <3>1, <3>2, Zenon DEF ReadTaintsLaterCalls
    <3> QED
      BY <2>4, <3>3, Zenon
  <2> QED
    BY <1>0, <2>1, <2>2, <2>3, <2>6, <2>7, QuietLabels, SMTT(30)
<1>5. CASE UNCHANGED <<label, entries, call>>
  <2> USE <1>5 DEF IInv, Counts, Clears, Taints, Published, Decided, KeyOf, Between, WithinTTL
  <2>1. Numbered' /\ LabelHasEntry'
    BY ZenonT(30) DEF Numbered, LabelHasEntry
  <2>2. EntryHasLabel'
    BY ZenonT(30) DEF EntryHasLabel
  <2>3. TaintHasCause'
    BY Zenon DEF TaintHasCause
  <2>4. ReadTaintsLaterCalls'
    BY ZenonT(30) DEF ReadTaintsLaterCalls
  <2> QED
    BY <1>0, <2>1, <2>2, <2>3, <2>4, Zenon
<1> QED
  BY <1>1, <1>2, <1>3, <1>4, <1>5, Zenon DEF Next, Block, Refuse, Respond, Tick, vars

LEMMA InvHolds == Spec => []IInv
BY InitInv, InvStep, PTL DEF Spec

(* No taint without a cause, for any calls, sources, sessions and TTL.     *)
THEOREM TaintJustified == Spec => []TaintHasCause
<1>1. IInv => TaintHasCause
  BY Zenon DEF IInv
<1> QED
  BY <1>1, InvHolds, PTL

(* No untrusted read is missed within its TTL, except behind a             *)
(* declassification or the late entry of an earlier read.                  *)
THEOREM ReadsNotMissed == Spec => []ReadTaintsLaterCalls
<1>1. IInv => ReadTaintsLaterCalls
  BY Zenon DEF IInv
<1> QED
  BY <1>1, InvHolds, PTL

(* A label is changed only by the end of a call of its own session.        *)
THEOREM SessionsIsolated == Spec => OwnSessionOnly
<1> DEFINE A == \A l \in (label \ label') \union (label' \ label) :
                  \E c \in Calls : ~Published(c) /\ Counts(c)' /\ KeyOf(c) = l.key
<1>1. TypeOK /\ [Next]_vars => [A]_vars
  <2> SUFFICES ASSUME TypeOK, Next, NEW l \in (label \ label') \union (label' \ label)
               PROVE  \E c \in Calls : ~Published(c) /\ Counts(c)' /\ KeyOf(c) = l.key
    OBVIOUS
  <2>1. PICK c \in Calls, decision \in Decisions : End(c, decision) /\ call[c].pc # "ended"
    <3>1. label' # label
      OBVIOUS
    <3>2. ~Tick /\ \A c \in Calls : /\ ~Decide(c) /\ ~Forward(c)
                                    /\ \A who \in Identities, header \in Headers, tool \in Tools :
                                         ~Arrive(c, who, header, tool)
      BY <3>1, Zenon DEF Tick, Decide, Forward, Arrive
    <3>3. PICK c \in Calls : Block(c) \/ Refuse(c) \/ Respond(c)
      BY <3>2, Zenon DEF Next
    <3> QED
      BY <3>3, Zenon DEF Block, Refuse, Respond
  <2>2. KeyOf(c) = l.key
    BY <2>1 DEF End, Publish, Set, Clear
  <2>3. ~(\/ decision \in {"deny", "blocked", "throttled"}
          \/ call[c].req.tool \notin UntrustedSources \union DeclassifySources)
    BY <2>1, Zenon DEF End, Publish
  <2>4. call'[c].pc = "ended" /\ call'[c].entry = entries + 1
    BY <2>1, <2>3, Zenon DEF End, Ended, TypeOK
  <2> QED
    BY <2>1, <2>2, <2>4 DEF Published, Counts, TypeOK
<1> QED
  BY <1>1, TypeCorrect, PTL DEF Spec, OwnSessionOnly
=============================================================================
