-------------------------- MODULE BaselinesProofs --------------------------
(***************************************************************************)
(* EvictedStaysGone and WindowCountedOnce, for any number of replicas and  *)
(* identities, any intervals and any failures.                             *)
(*                                                                         *)
(* The first is not inductive: a restart reads the rows, so it has to be   *)
(* known that a row of an evicted baseline is one that the collector of    *)
(* its replica is about to delete (Deletable), that the snapshot the       *)
(* collector is about to save holds no evicted baseline (Savable), and     *)
(* that the eras in use are not those of calls to come (Eras).             *)
(*                                                                         *)
(* Nor is the second: a row and a baseline are written from the replicas'  *)
(* open windows, so it has to be known that the events of a window can be  *)
(* divided between its row and the open windows (Division), and that what  *)
(* was learned, saved or copied to be saved is faithful (Totals).          *)
(***************************************************************************)
EXTENDS Baselines, FiniteSetTheorems, TLAPS

Baseline == [era : Nat, seen : Nat]
Row == [era : Nat, seen : Nat, updated : Nat]
Pcs == {"idle", "deleting", "saving", "pruning"} \union Metrics

Collection(g) ==
  /\ g = [pc |-> g.pc, deleted |-> g.deleted, toSave |-> g.toSave, learned |-> g.learned]
  /\ g.pc \in Pcs
  /\ DOMAIN g.toSave \subseteq Identities
  /\ \A k \in DOMAIN g.toSave : g.toSave[k] \in Baseline

(***************************************************************************)
(* The types of the variables that the argument is about.                  *)
(***************************************************************************)
Types ==
  /\ clock \in Nat
  /\ spent \in [Spendings -> Nat]
  /\ state \in [Replicas -> [Identities -> Baseline \union {None}]]
  /\ rows \in [Replicas -> [Identities -> Row \union {None}]]
  /\ DOMAIN gc = Replicas
  /\ \A i \in Replicas : Collection(gc[i])

\* The baselines a replica has in memory, in its rows and in its snapshot.
Eras ==
  /\ \A i \in Replicas, k \in Identities :
       /\ state[i][k] # None => state[i][k].era <= spent.calls
       /\ rows[i][k] # None => rows[i][k].era <= spent.calls
  /\ \A i \in Replicas : \A k \in DOMAIN gc[i].toSave : gc[i].toSave[k].era <= spent.calls
  /\ \A i \in Replicas, k \in Identities, e \in Nat : <<i, k, e>> \in evicted => e <= spent.calls

Strangers ==
  \A i \in Replicas, k \in Identities :
    state[i][k] # None => <<i, k, state[i][k].era>> \notin evicted

Deletable ==
  \A i \in Replicas, k \in Identities :
    rows[i][k] # None /\ <<i, k, rows[i][k].era>> \in evicted =>
      gc[i].pc = "deleting" /\ <<i, k, rows[i][k].era>> \in gc[i].deleted

Savable ==
  \A i \in Replicas : \A k \in DOMAIN gc[i].toSave :
    <<i, k, gc[i].toSave[k].era>> \notin evicted

\* Only a collector that runs on Postgres, in a replica that is up, is at work.
Working ==
  /\ up \subseteq Replicas
  /\ \A i \in Replicas : gc[i].pc # "idle" => i \in up /\ setup.postgres
  /\ \A i \in Replicas, k \in Identities : rows[i][k] # None => setup.postgres
  /\ \A i \in Replicas : \A d \in gc[i].deleted : \E k \in Identities, e \in Nat : d = <<i, k, e>>

Inv == Types /\ Eras /\ Strangers /\ Deletable /\ Savable /\ Working

-----------------------------------------------------------------------------
(***************************************************************************)
(* A new fleet has learned nothing.                                        *)
(***************************************************************************)
LEMMA InitInv == Init => Inv
<1> SUFFICES ASSUME Init PROVE Inv
  OBVIOUS
<1>1. Window \in Nat /\ setup.replicas \subseteq Replicas
  BY BaselinesAssumption DEF Init, Setups
<1>2. /\ Resting = [pc |-> Resting.pc, deleted |-> Resting.deleted,
                    toSave |-> Resting.toSave, learned |-> Resting.learned]
      /\ DOMAIN Resting.toSave = {}
      /\ Resting.pc = "idle" /\ Resting.deleted = {}
  BY DEF Resting
<1>3. Types
  BY <1>1, <1>2 DEF Types, Init, Collection, Pcs
<1>4. Eras /\ Strangers /\ Deletable /\ Savable /\ Working
  BY <1>1, <1>2 DEF Eras, Strangers, Deletable, Savable, Working, Init
<1> QED
  BY <1>3, <1>4 DEF Inv

(***************************************************************************)
(* A call: a stranger's era is later than every era in use.                *)
(***************************************************************************)
LEMMA PublishInv ==
  ASSUME Inv, NEW i \in Replicas, NEW k \in Identities, Publish(i, k)
  PROVE  Inv'
<1> USE DEF Inv
<1> DEFINE era == IF state[i][k] = None THEN spent.calls + 1 ELSE state[i][k].era
<1>1. /\ state' = [state EXCEPT ![i][k] = [era |-> era, seen |-> clock]]
      /\ UNCHANGED <<setup, clock, up, rows, gc, evicted>>
  BY DEF Publish
<1>2. PICK n \in Nat : spent' = [Spend("calls") EXCEPT !.faults = @ + n]
  <2>1. PICK failed \in SUBSET Metrics :
          spent' = [Spend("calls") EXCEPT !.faults = @ + Cardinality(failed)]
    BY Zenon DEF Publish
  <2>2. IsFiniteSet({"tenant"}) /\ IsFiniteSet({"churn"})
    BY FS_Singleton, Zenon
  <2>3. IsFiniteSet({"tenant"} \union {"churn"})
    BY <2>2, FS_Union, Zenon
  <2>4. failed \subseteq {"tenant"} \union {"churn"}
    BY DEF Metrics
  <2>5. Cardinality(failed) \in Nat
    BY <2>3, <2>4, FS_Subset, FS_CardinalityType, Zenon
  <2> QED
    BY <2>1, <2>5, Zenon
<1>3. spent' \in [Spendings -> Nat] /\ spent'.calls = spent.calls + 1 /\ spent.calls \in Nat
  <2>1. /\ Spend("calls") \in [Spendings -> Nat]
        /\ Spend("calls").calls = spent.calls + 1 /\ spent.calls \in Nat
    BY DEF Types, Spendings, Spend
  <2> QED
    BY <1>2, <2>1 DEF Spendings
<1>4. era \in Nat /\ era <= spent'.calls
  BY <1>3 DEF Types, Eras, Baseline
<1>5. <<i, k, era>> \notin evicted
  BY <1>3, <1>4 DEF Types, Eras, Strangers
<1>6. \A j \in Replicas, l \in Identities :
        state'[j][l] = IF j = i /\ l = k THEN [era |-> era, seen |-> clock] ELSE state[j][l]
  BY <1>1 DEF Types
<1> HIDE DEF era
<1>7. Types'
  BY <1>1, <1>3, <1>4 DEF Types, Collection, Baseline
<1>8. Eras'
  BY <1>1, <1>3, <1>4, <1>6 DEF Types, Eras, Collection, Baseline, Row
<1>9. Strangers'
  BY <1>1, <1>5, <1>6 DEF Strangers
<1>10. Deletable' /\ Savable' /\ Working'
  BY <1>1 DEF Deletable, Savable, Working
<1> QED
  BY <1>7, <1>8, <1>9, <1>10

(***************************************************************************)
(* A collection starts: what it evicts is in none of what it keeps.        *)
(***************************************************************************)
LEMMA GcTickInv ==
  ASSUME Inv, NEW i \in Replicas, GcTick(i)
  PROVE  Inv'
<1> USE DEF Inv
<1> DEFINE stale == {k \in Identities : Idle(state[i][k])}
           gone == {<<i, k, state[i][k].era>> : k \in stale}
           kept == {k \in Identities : state[i][k] # None} \ stale
<1>1. PICK learned :
        /\ state' = [state EXCEPT ![i] = [k \in Identities |-> IF k \in stale THEN None ELSE @[k]]]
        /\ gc' = [gc EXCEPT ![i] =
             IF setup.postgres
             THEN [pc |-> "deleting", deleted |-> gone,
                   toSave |-> [k \in kept |-> state[i][k]], learned |-> learned]
             ELSE Resting]
        /\ evicted' = evicted \union gone
        /\ spent' = Spend("collections")
        /\ i \in up /\ gc[i].pc = "idle"
        /\ UNCHANGED <<setup, clock, up, rows>>
  BY Zenon DEF GcTick, SaveAllOrder
<1>2. spent' \in [Spendings -> Nat] /\ spent'.calls = spent.calls
  BY <1>1 DEF Types, Spend, Spendings
<1>3. \A k \in stale : state[i][k] # None /\ state[i][k] \in Baseline
  BY DEF Idle, Types
<1>4. \A j \in Replicas, k \in Identities :
        state'[j][k] = IF j = i /\ k \in stale THEN None ELSE state[j][k]
  BY <1>1 DEF Types
<1>5. \A j \in Replicas, k \in Identities : \A e :
        <<j, k, e>> \in evicted' <=>
          <<j, k, e>> \in evicted \/ (j = i /\ k \in stale /\ e = state[i][k].era)
  BY <1>1
<1>6. \A j \in Replicas : j # i => gc'[j] = gc[j]
  BY <1>1 DEF Types
<1>7. CASE setup.postgres
  <2>1. /\ gc'[i] = [pc |-> "deleting", deleted |-> gone,
                     toSave |-> [k \in kept |-> state[i][k]], learned |-> learned]
        /\ DOMAIN gc' = Replicas
    BY <1>1, <1>7 DEF Types
  <2>2. /\ gc'[i].pc = "deleting" /\ gc'[i].deleted = gone
        /\ gc'[i].toSave = [k \in kept |-> state[i][k]]
        /\ DOMAIN gc'[i].toSave = kept
        /\ \A k \in kept : /\ k \in Identities \ stale /\ state[i][k] # None
                           /\ state[i][k] \in Baseline /\ gc'[i].toSave[k] = state[i][k]
    BY <2>1 DEF Types
  <2> HIDE DEF stale, kept
  <2>3. Types'
    <3>1. Collection(gc'[i])
      BY <2>1, <2>2 DEF Collection, Pcs
    <3>2. \A j \in Replicas : Collection(gc'[j])
      BY <3>1, <1>6 DEF Types
    <3>3. state' \in [Replicas -> [Identities -> Baseline \union {None}]]
      BY <1>1 DEF Types
    <3> QED
      BY <1>1, <1>2, <2>1, <3>2, <3>3, Zenon DEF Types, Collection
  <2>4. Eras'
    BY <1>1, <1>2, <1>3, <1>4, <1>5, <1>6, <2>2 DEF Eras, Types
  <2>5. Strangers'
    BY <1>4, <1>5 DEF Strangers
  <2>6. Deletable'
    <3> SUFFICES ASSUME NEW j \in Replicas, NEW k \in Identities, rows[j][k] # None,
                        <<j, k, rows[j][k].era>> \in evicted'
                 PROVE  gc'[j].pc = "deleting" /\ <<j, k, rows[j][k].era>> \in gc'[j].deleted
      BY <1>1, Zenon DEF Deletable
    <3>1. CASE <<j, k, rows[j][k].era>> \in evicted
      BY <3>1, <1>1, <1>6 DEF Deletable
    <3>2. CASE j = i /\ k \in stale /\ rows[j][k].era = state[i][k].era
      BY <3>2, <2>2
    <3> QED
      BY <3>1, <3>2, <1>5
  <2>7. Savable'
    BY <1>5, <1>6, <2>2 DEF Savable, Strangers, Types, Collection
  <2>8. Working'
    BY <1>1, <1>3, <1>6, <1>7, <2>2 DEF Working, Baseline, stale
  <2> QED
    BY <2>3, <2>4, <2>5, <2>6, <2>7, <2>8
<1>8. CASE ~setup.postgres
  <2>1. gc'[i] = Resting /\ DOMAIN gc' = Replicas
    BY <1>1, <1>8 DEF Types
  <2>2. /\ Resting = [pc |-> Resting.pc, deleted |-> Resting.deleted,
                      toSave |-> Resting.toSave, learned |-> Resting.learned]
        /\ DOMAIN Resting.toSave = {}
        /\ Resting.pc = "idle" /\ Resting.deleted = {}
    BY DEF Resting
  <2> HIDE DEF stale, kept
  <2>3. Types'
    <3>1. \A j \in Replicas : Collection(gc'[j])
      BY <1>6, <2>1, <2>2 DEF Types, Collection, Pcs
    <3>2. state' \in [Replicas -> [Identities -> Baseline \union {None}]]
      BY <1>1 DEF Types
    <3> QED
      BY <1>1, <1>2, <2>1, <3>1, <3>2, Zenon DEF Types, Collection
  <2>4. Eras'
    BY <1>1, <1>2, <1>3, <1>4, <1>5, <1>6, <2>1, <2>2 DEF Eras, Types
  <2>5. Strangers'
    BY <1>4, <1>5 DEF Strangers
  <2>6. Deletable' /\ Working'
    BY <1>1, <1>6, <1>8, <2>1, <2>2 DEF Deletable, Working
  <2>7. Savable'
    <3>1. \A j \in Replicas : \A k \in DOMAIN gc[j].toSave : k \in Identities
      BY DEF Types, Collection
    <3> QED
      BY <1>5, <1>6, <2>1, <2>2, <3>1 DEF Savable
  <2> QED
    BY <2>3, <2>4, <2>5, <2>6, <2>7
<1> QED
  BY <1>7, <1>8

-----------------------------------------------------------------------------
(***************************************************************************)
(* What the later steps of a collection do to the collector: one moves its *)
(* program counter, the last one and a crash put it to rest; and what a    *)
(* failed statement or a crash costs.                                      *)
(***************************************************************************)
PcMoved(i, p) ==
  /\ DOMAIN gc' = Replicas
  /\ \A j \in Replicas : /\ Collection(gc'[j])
                         /\ gc'[j].deleted = gc[j].deleted
                         /\ gc'[j].toSave = gc[j].toSave
                         /\ gc'[j].pc = IF j = i THEN p ELSE gc[j].pc

Rested(i) ==
  /\ DOMAIN gc' = Replicas
  /\ gc'[i].pc = "idle" /\ gc'[i].deleted = {} /\ DOMAIN gc'[i].toSave = {}
  /\ \A j \in Replicas : Collection(gc'[j]) /\ (j # i => gc'[j] = gc[j])

LEMMA PcMoves ==
  ASSUME Types, NEW i \in Replicas, NEW p \in Pcs, gc' = [gc EXCEPT ![i].pc = p]
  PROVE  PcMoved(i, p)
<1>1. gc' = [gc EXCEPT ![i] = [gc[i] EXCEPT !.pc = p]]
  OBVIOUS
<1>2. /\ gc'[i] = [gc[i] EXCEPT !.pc = p]
      /\ DOMAIN gc' = Replicas
      /\ \A j \in Replicas : j # i => gc'[j] = gc[j]
  BY <1>1 DEF Types
<1>3. gc'[i] = [pc |-> p, deleted |-> gc[i].deleted, toSave |-> gc[i].toSave,
                learned |-> gc[i].learned]
  <2>1. gc[i] = [pc |-> gc[i].pc, deleted |-> gc[i].deleted, toSave |-> gc[i].toSave,
                 learned |-> gc[i].learned]
    BY DEF Types, Collection
  <2> QED
    BY <1>2, <2>1
<1>4. /\ gc'[i].pc = p /\ gc'[i].deleted = gc[i].deleted /\ gc'[i].toSave = gc[i].toSave
      /\ gc'[i].learned = gc[i].learned
  BY <1>3
<1>5. Collection(gc'[i])
  BY <1>3, <1>4 DEF Types, Collection
<1> QED
  BY <1>2, <1>4, <1>5 DEF Types, PcMoved

LEMMA Rests ==
  ASSUME Types, NEW i \in Replicas, gc' = [gc EXCEPT ![i] = Resting]
  PROVE  Rested(i)
<1>1. /\ Resting = [pc |-> Resting.pc, deleted |-> Resting.deleted,
                    toSave |-> Resting.toSave, learned |-> Resting.learned]
      /\ DOMAIN Resting.toSave = {}
      /\ Resting.pc = "idle" /\ Resting.deleted = {}
  BY DEF Resting
<1>2. /\ gc'[i] = Resting /\ DOMAIN gc' = Replicas
      /\ \A j \in Replicas : j # i => gc'[j] = gc[j]
  BY DEF Types
<1>3. Collection(gc'[i])
  BY <1>1, <1>2 DEF Collection, Pcs
<1> QED
  BY <1>1, <1>2, <1>3 DEF Types, Rested

LEMMA Costs ==
  ASSUME Types, NEW b \in Spendings \ {"calls"}, UNCHANGED spent \/ spent' = Spend(b)
  PROVE  spent' \in [Spendings -> Nat] /\ spent'.calls = spent.calls
BY DEF Types, Spend, Spendings

(***************************************************************************)
(* A step of the collector that leaves every baseline in memory and every  *)
(* row where it was, or drops rows, keeps the invariant.                   *)
(***************************************************************************)
LEMMA PcMoveInv ==
  ASSUME Inv, NEW i \in Replicas, NEW p \in Pcs \ {"idle"}, gc[i].pc \notin {"idle", "deleting"},
         gc' = [gc EXCEPT ![i].pc = p],
         UNCHANGED spent \/ spent' = Spend("faults"),
         rows' \in [Replicas -> [Identities -> Row \union {None}]],
         \A j \in Replicas, k \in Identities : rows'[j][k] \in {rows[j][k], None},
         UNCHANGED <<setup, clock, up, state, evicted>>
  PROVE  Inv'
<1> USE DEF Inv
<1>1. p \in Pcs /\ "faults" \in Spendings \ {"calls"}
  BY DEF Spendings
<1>2. PcMoved(i, p)
  BY <1>1, PcMoves, Zenon
<1>3. spent' \in [Spendings -> Nat] /\ spent'.calls = spent.calls
  BY <1>1, Costs
<1>4. Types'
  BY <1>2, <1>3 DEF PcMoved, Types, Collection
<1>5. Eras' /\ Strangers' /\ Savable'
  <2>1. Eras'
    BY <1>2, <1>3 DEF PcMoved, Eras
  <2>2. Strangers'
    BY <1>2, <1>3 DEF PcMoved, Strangers
  <2>3. Savable'
    BY <1>2, <1>3 DEF PcMoved, Savable
  <2> QED
    BY <2>1, <2>2, <2>3
<1>6. Deletable' /\ Working'
  <2>1. Deletable'
    BY <1>2 DEF PcMoved, Deletable
  <2>2. Working'
    BY <1>2 DEF PcMoved, Working
  <2> QED
    BY <2>1, <2>2
<1> QED
  BY <1>4, <1>5, <1>6

(***************************************************************************)
(* The delete batches.  What was evicted and still has a row is in         *)
(* deleted: it is either deleted now or excused by the failure.            *)
(***************************************************************************)
LEMMA DeleteInv ==
  ASSUME Inv, NEW i \in Replicas, DeleteBatches(i)
  PROVE  Inv'
<1> USE DEF Inv
<1>1. PICK done \in SUBSET gc[i].deleted :
        /\ rows' = [rows EXCEPT ![i] =
             [k \in Identities |-> IF \E d \in done : d[2] = k THEN None ELSE @[k]]]
        /\ \/ /\ done = gc[i].deleted
              /\ gc' = [gc EXCEPT ![i].pc = "saving"]
              /\ UNCHANGED <<spent, evicted>>
           \/ /\ spent' = Spend("faults")
              /\ gc' = [gc EXCEPT ![i].pc = "pruning"]
              /\ evicted' = evicted \ (gc[i].deleted \ done)
  BY Zenon DEF DeleteBatches, After, SaveAllOrder
<1>2. PICK p \in {"saving", "pruning"} : gc' = [gc EXCEPT ![i].pc = p]
  BY <1>1
<1>3. p \in Pcs /\ "faults" \in Spendings \ {"calls"}
  BY DEF Spendings, Pcs
<1>4. PcMoved(i, p)
  BY <1>2, <1>3, PcMoves, Zenon
<1>5. spent' \in [Spendings -> Nat] /\ spent'.calls = spent.calls
  BY <1>1, <1>3, Costs
<1>6. /\ evicted' \subseteq evicted
      /\ gc[i].pc = "deleting"
      /\ UNCHANGED <<setup, clock, up, state>>
  BY <1>1 DEF DeleteBatches
<1>7. \A j \in Replicas, k \in Identities :
        rows'[j][k] = IF j = i /\ (\E d \in done : d[2] = k) THEN None ELSE rows[j][k]
  BY <1>1 DEF Types
<1>8. Types'
  BY <1>1, <1>4, <1>5, <1>6 DEF PcMoved, Types, Collection
<1>9. Eras' /\ Strangers' /\ Savable' /\ Working'
  <2>1. Eras'
    BY <1>4, <1>5, <1>6, <1>7 DEF PcMoved, Eras
  <2>2. Strangers'
    BY <1>4, <1>5, <1>6, <1>7 DEF PcMoved, Strangers
  <2>3. Savable'
    BY <1>4, <1>5, <1>6, <1>7 DEF PcMoved, Savable
  <2>4. Working'
    BY <1>4, <1>5, <1>6, <1>7 DEF PcMoved, Working
  <2> QED
    BY <2>1, <2>2, <2>3, <2>4
<1>10. Deletable'
  <2> SUFFICES ASSUME NEW j \in Replicas, NEW k \in Identities, rows'[j][k] # None,
                      <<j, k, rows'[j][k].era>> \in evicted'
               PROVE  gc'[j].pc = "deleting" /\ <<j, k, rows'[j][k].era>> \in gc'[j].deleted
    BY DEF Deletable
  <2>1. rows'[j][k] = rows[j][k]
    BY <1>7
  <2>2. gc[j].pc = "deleting" /\ <<j, k, rows[j][k].era>> \in gc[j].deleted
    BY <2>1, <1>6 DEF Deletable
  <2>3. j # i
    <3> SUFFICES ASSUME j = i PROVE FALSE
      OBVIOUS
    <3>1. <<i, k, rows[i][k].era>> \notin done
      BY <1>7
    <3>2. <<i, k, rows[i][k].era>> \in gc[i].deleted \ done
      BY <2>2, <3>1
    <3> QED
      BY <1>1, <2>1, <3>2
  <2> QED
    BY <1>4, <2>1, <2>2, <2>3 DEF PcMoved
<1> QED
  BY <1>8, <1>9, <1>10

(***************************************************************************)
(* The upserts write rows of the snapshot, which holds nothing evicted.    *)
(***************************************************************************)
LEMMA SaveInv ==
  ASSUME Inv, NEW i \in Replicas, SaveBatches(i)
  PROVE  Inv'
<1> USE DEF Inv
<1>1. PICK done \in SUBSET (DOMAIN gc[i].toSave) :
        rows' = [rows EXCEPT ![i] = [k \in Identities |->
          IF k \in done
          THEN [era |-> gc[i].toSave[k].era, seen |-> gc[i].toSave[k].seen, updated |-> clock]
          ELSE @[k]]]
  BY Zenon DEF SaveBatches
<1>2. /\ gc' = [gc EXCEPT ![i].pc = "pruning"]
      /\ gc[i].pc = "saving"
      /\ UNCHANGED spent \/ spent' = Spend("faults")
      /\ UNCHANGED <<setup, clock, up, state, evicted>>
  BY DEF SaveBatches, After, SaveAllOrder
<1>3. "pruning" \in Pcs /\ "faults" \in Spendings \ {"calls"}
  BY DEF Spendings, Pcs
<1>4. PcMoved(i, "pruning")
  BY <1>2, <1>3, PcMoves, Zenon
<1>5. spent' \in [Spendings -> Nat] /\ spent'.calls = spent.calls
  BY <1>2, <1>3, Costs
<1>6. \A k \in done : k \in Identities /\ gc[i].toSave[k] \in Baseline
  BY DEF Types, Collection
<1>7. \A k \in done :
        [era |-> gc[i].toSave[k].era, seen |-> gc[i].toSave[k].seen, updated |-> clock] \in Row
  BY <1>6 DEF Types, Baseline, Row
<1>8. \A j \in Replicas, k \in Identities :
        IF j = i /\ k \in done THEN rows'[j][k].era = gc[i].toSave[k].era
                               ELSE rows'[j][k] = rows[j][k]
  BY <1>1 DEF Types
<1>9. Types'
  BY <1>1, <1>2, <1>4, <1>5, <1>7 DEF PcMoved, Types, Collection
<1>10. Eras' /\ Strangers' /\ Savable'
  <2>1. Eras'
    BY <1>2, <1>4, <1>5, <1>8 DEF PcMoved, Eras
  <2>2. Strangers'
    BY <1>2, <1>4, <1>5, <1>8 DEF PcMoved, Strangers
  <2>3. Savable'
    BY <1>2, <1>4, <1>5, <1>8 DEF PcMoved, Savable
  <2> QED
    BY <2>1, <2>2, <2>3
<1>11. Deletable'
  BY <1>2, <1>4, <1>8 DEF PcMoved, Deletable, Savable
<1>12. Working'
  BY <1>2, <1>4, <1>8 DEF PcMoved, Working
<1> QED
  BY <1>9, <1>10, <1>11, <1>12

(***************************************************************************)
(* Pruning drops rows, and the aggregates' baselines are elsewhere.        *)
(***************************************************************************)
LEMMA PruneInv ==
  ASSUME Inv, NEW i \in Replicas, PruneStale(i)
  PROVE  Inv'
<1>1. /\ gc' = [gc EXCEPT ![i].pc = "tenant"]
      /\ gc[i].pc \notin {"idle", "deleting"}
      /\ "tenant" \in Pcs \ {"idle"}
      /\ UNCHANGED spent \/ spent' = Spend("faults")
      /\ UNCHANGED <<setup, clock, up, state, evicted>>
  BY DEF PruneStale, Pcs, Metrics
<1>2. rows \in [Replicas -> [Identities -> Row \union {None}]]
  BY DEF Inv, Types
<1>3. /\ rows' \in [Replicas -> [Identities -> Row \union {None}]]
      /\ \A j \in Replicas, k \in Identities : rows'[j][k] \in {rows[j][k], None}
  <2>1. CASE rows' = rows
    BY <1>2, <2>1
  <2>2. CASE rows' = [j \in Replicas |-> [k \in Identities |->
                 IF rows[j][k] # None /\ rows[j][k].updated < clock - 4 * Interval
                 THEN None ELSE rows[j][k]]]
    BY <1>2, <2>2
  <2> QED
    BY <2>1, <2>2 DEF PruneStale
<1> QED
  BY <1>1, <1>3, PcMoveInv, Zenon

LEMMA SaveTenantInv ==
  ASSUME Inv, NEW i \in Replicas, SaveTenantBaselines(i)
  PROVE  Inv'
<1>1. /\ gc' = [gc EXCEPT ![i].pc = "churn"]
      /\ gc[i].pc \notin {"idle", "deleting"}
      /\ "churn" \in Pcs \ {"idle"}
      /\ UNCHANGED spent \/ spent' = Spend("faults")
      /\ UNCHANGED <<setup, clock, up, state, rows, evicted>>
  BY DEF SaveTenantBaselines, SaveTally, Pcs, Metrics
<1>2. rows' \in [Replicas -> [Identities -> Row \union {None}]]
  BY <1>1 DEF Inv, Types
<1>3. \A j \in Replicas, k \in Identities : rows'[j][k] \in {rows[j][k], None}
  BY <1>1
<1> QED
  BY <1>1, <1>2, <1>3, PcMoveInv, Zenon

LEMMA SaveChurnInv ==
  ASSUME Inv, NEW i \in Replicas, SaveChurnBaselines(i)
  PROVE  Inv'
<1> USE DEF Inv
<1>1. /\ gc' = [gc EXCEPT ![i] = Resting]
      /\ gc[i].pc = "churn"
      /\ UNCHANGED spent \/ spent' = Spend("faults")
      /\ UNCHANGED <<setup, clock, up, state, rows, evicted>>
  BY DEF SaveChurnBaselines, SaveTally
<1>2. "faults" \in Spendings \ {"calls"}
  BY DEF Spendings
<1>3. Rested(i)
  BY <1>1, Rests, Zenon
<1>4. spent' \in [Spendings -> Nat] /\ spent'.calls = spent.calls
  BY <1>1, <1>2, Costs
<1>5. Types'
  BY <1>1, <1>3, <1>4 DEF Rested, Types, Collection
<1>6. Eras' /\ Strangers' /\ Savable'
  <2>1. Eras'
    BY <1>1, <1>3, <1>4 DEF Rested, Eras
  <2>2. Strangers'
    BY <1>1, <1>3, <1>4 DEF Rested, Strangers
  <2>3. Savable'
    BY <1>1, <1>3, <1>4 DEF Rested, Savable
  <2> QED
    BY <2>1, <2>2, <2>3
<1>7. Deletable' /\ Working'
  <2>1. Deletable'
    BY <1>1, <1>3 DEF Rested, Deletable
  <2>2. Working'
    BY <1>1, <1>3 DEF Rested, Working
  <2> QED
    BY <2>1, <2>2
<1> QED
  BY <1>5, <1>6, <1>7

(***************************************************************************)
(* A crash empties the memory.  What it kept from being deleted is no      *)
(* longer counted as evicted.                                              *)
(***************************************************************************)
LEMMA CrashInv ==
  ASSUME Inv, NEW i \in Replicas, Crash(i)
  PROVE  Inv'
<1> USE DEF Inv
<1>1. /\ gc' = [gc EXCEPT ![i] = Resting]
      /\ spent' = Spend("crashes")
      /\ up' = up \ {i}
      /\ state' = [state EXCEPT ![i] = [k \in Identities |-> None]]
      /\ evicted' = evicted \ (IF gc[i].pc = "deleting" THEN gc[i].deleted ELSE {})
      /\ UNCHANGED <<setup, clock, rows>>
  BY DEF Crash
<1>2. "crashes" \in Spendings \ {"calls"}
  BY DEF Spendings
<1>3. Rested(i)
  BY <1>1, Rests, Zenon
<1>4. spent' \in [Spendings -> Nat] /\ spent'.calls = spent.calls
  BY <1>1, <1>2, Costs
<1>5. \A j \in Replicas, k \in Identities : state'[j][k] = IF j = i THEN None ELSE state[j][k]
  BY <1>1 DEF Types
<1>6. evicted' \subseteq evicted
  BY <1>1
<1>7. Types'
  BY <1>1, <1>3, <1>4 DEF Rested, Types, Collection
<1>8. Eras' /\ Strangers' /\ Savable'
  <2>1. Eras'
    BY <1>1, <1>3, <1>4, <1>5, <1>6 DEF Rested, Eras
  <2>2. Strangers'
    BY <1>1, <1>3, <1>4, <1>5, <1>6 DEF Rested, Strangers
  <2>3. Savable'
    BY <1>1, <1>3, <1>4, <1>5, <1>6 DEF Rested, Savable
  <2> QED
    BY <2>1, <2>2, <2>3
<1>9. Deletable'
  BY <1>1, <1>3 DEF Rested, Deletable
<1>10. Working'
  BY <1>1, <1>3 DEF Rested, Working
<1> QED
  BY <1>7, <1>8, <1>9, <1>10

(***************************************************************************)
(* A replica that starts has no collection in progress, so no row it loads *)
(* is of an evicted baseline.                                              *)
(***************************************************************************)
LEMMA StartInv ==
  ASSUME Inv, NEW i \in Replicas, Start(i)
  PROVE  Inv'
<1> USE DEF Inv
<1>1. /\ state' = [state EXCEPT ![i] = LoadBaselines(i)]
      /\ i \notin up /\ up' = up \union {i}
      /\ UNCHANGED <<setup, clock, spent, rows, gc, evicted>>
  BY DEF Start
<1>2. \A k \in Identities : IF rows[i][k] = None THEN LoadBaselines(i)[k] = None
                            ELSE /\ LoadBaselines(i)[k] \in Baseline
                                 /\ LoadBaselines(i)[k].era = rows[i][k].era
  BY DEF LoadBaselines, Types, Baseline, Row
<1>3. LoadBaselines(i) \in [Identities -> Baseline \union {None}]
  BY <1>2 DEF LoadBaselines
<1>4. \A j \in Replicas, k \in Identities :
        state'[j][k] = IF j = i THEN LoadBaselines(i)[k] ELSE state[j][k]
  BY <1>1 DEF Types
<1>5. Types'
  BY <1>1, <1>3 DEF Types, Collection
<1>6. Eras'
  BY <1>1, <1>2, <1>4 DEF Eras
<1>7. Strangers'
  BY <1>1, <1>2, <1>4 DEF Strangers, Deletable, Working
<1>8. Deletable' /\ Savable' /\ Working'
  <2>1. Deletable'
    BY <1>1 DEF Deletable
  <2>2. Savable'
    BY <1>1 DEF Savable
  <2>3. Working'
    BY <1>1 DEF Working
  <2> QED
    BY <2>1, <2>2, <2>3
<1> QED
  BY <1>5, <1>6, <1>7, <1>8

LEMMA StepInv ==
  ASSUME Inv, [Next]_vars
  PROVE  Inv'
<1>1. CASE Tick \/ UNCHANGED vars
  <2>1. clock \in Nat
    BY DEF Inv, Types
  <2>2. clock' \in Nat /\ UNCHANGED <<setup, spent, up, state, rows, gc, evicted>>
    BY <1>1, <2>1 DEF Tick, vars
  <2>3. Types'
    BY <2>2 DEF Inv, Types, Collection
  <2>4. Eras' /\ Strangers'
    <3>1. Eras'
      BY <2>2 DEF Inv, Eras
    <3>2. Strangers'
      BY <2>2 DEF Inv, Strangers
    <3> QED
      BY <3>1, <3>2
  <2>5. Deletable' /\ Savable' /\ Working'
    <3>1. Deletable'
      BY <2>2 DEF Inv, Deletable
    <3>2. Savable'
      BY <2>2 DEF Inv, Savable
    <3>3. Working'
      BY <2>2 DEF Inv, Working
    <3> QED
      BY <3>1, <3>2, <3>3
  <2> QED
    BY <2>3, <2>4, <2>5 DEF Inv
<1>2. ASSUME NEW i \in Replicas, NEW k \in Identities, Publish(i, k)
      PROVE  Inv'
  BY <1>2, PublishInv
<1>3. ASSUME NEW i \in Replicas,
             \/ GcTick(i) \/ DeleteBatches(i) \/ SaveBatches(i) \/ PruneStale(i)
             \/ SaveTenantBaselines(i) \/ SaveChurnBaselines(i) \/ Crash(i) \/ Start(i)
      PROVE  Inv'
  BY <1>3, GcTickInv, DeleteInv, SaveInv, PruneInv, SaveTenantInv, SaveChurnInv, CrashInv,
     StartInv
<1> QED
  BY <1>1, <1>2, <1>3 DEF Next

(***************************************************************************)
(* An evicted identity is a stranger when it comes back: whatever fails,   *)
(* and however often replicas restart, no replica holds the baseline it    *)
(* evicted again, because SaveAll deletes before it saves.                 *)
(***************************************************************************)
THEOREM EvictionIsFinal == Spec => []EvictedStaysGone
<1>1. Inv => EvictedStaysGone
  BY DEF Inv, Strangers, Working, EvictedStaysGone
<1> QED
  BY <1>1, InitInv, StepInv, PTL DEF Spec
-----------------------------------------------------------------------------
(***************************************************************************)
(* The window totals.  The events of a window can be divided between its   *)
(* row and the replicas' open windows: no event is in two shares, each     *)
(* share has the size of its counter, and while nothing of the window was  *)
(* lost no event is left out.                                              *)
(***************************************************************************)
Parts(n, t, s, R, P) ==
  /\ R \subseteq 1..n /\ Cardinality(R) = t
  /\ \A i \in Replicas : P[i] \subseteq 1..n /\ Cardinality(P[i]) = s[i] /\ P[i] \intersect R = {}
  /\ \A i, j \in Replicas : i # j => P[i] \intersect P[j] = {}

Covers(n, R, P) == \A x \in 1..n : x \in R \/ \E i \in Replicas : x \in P[i]

\* n events, t of them in the row and s[i] of them with replica i.
Divided(n, t, s, full) == \E R, P : Parts(n, t, s, R, P) /\ (full => Covers(n, R, P))

\* Nothing was counted yet.
LEMMA DividedNone ==
  ASSUME NEW s, \A i \in Replicas : s[i] = 0, NEW full
  PROVE  Divided(0, 0, s, full)
<1> DEFINE P == [i \in Replicas |-> {}]
<1>1. 1..0 = {} /\ Cardinality({}) = 0
  BY FS_EmptySet
<1>2. Parts(0, 0, s, {}, P) /\ Covers(0, {}, P)
  BY <1>1, Zenon DEF Parts, Covers
<1> QED
  BY <1>2, Zenon DEF Divided

LEMMA DividedSame ==
  ASSUME NEW n, NEW t, NEW s, NEW u, NEW full, NEW whole, Divided(n, t, s, full),
         \A i \in Replicas : s[i] = u[i], whole => full
  PROVE  Divided(n, t, u, whole)
<1>1. PICK R, P : Parts(n, t, s, R, P) /\ (full => Covers(n, R, P))
  BY Zenon DEF Divided
<1>2. Parts(n, t, u, R, P)
  BY <1>1, Zenon DEF Parts
<1> QED
  BY <1>1, <1>2, Zenon DEF Divided

\* An event that replica i counts.
LEMMA DividedEvent ==
  ASSUME NEW n \in Nat, NEW t, NEW s, NEW u, NEW full, Divided(n, t, s, full),
         NEW i \in Replicas, u[i] = s[i] + 1, \A j \in Replicas \ {i} : u[j] = s[j]
  PROVE  Divided(n + 1, t, u, full)
<1>1. PICK R, P : Parts(n, t, s, R, P) /\ (full => Covers(n, R, P))
  BY Zenon DEF Divided
<1> DEFINE Z == [j \in Replicas |-> IF j = i THEN P[i] \union {n + 1} ELSE P[j]]
<1>2. 1..(n + 1) = (1..n) \union {n + 1} /\ n + 1 \notin 1..n
  OBVIOUS
<1>3. IsFiniteSet(1..n)
  BY FS_Interval
<1>4. Cardinality(P[i] \union {n + 1}) = s[i] + 1
  <2>1. IsFiniteSet(P[i]) /\ n + 1 \notin P[i] /\ Cardinality(P[i]) = s[i]
    BY <1>1, <1>2, <1>3, FS_Subset, Zenon DEF Parts
  <2>2. Cardinality(P[i] \union {n + 1}) = Cardinality(P[i]) + 1
    BY <2>1, FS_AddElement, Zenon
  <2> QED
    BY <2>1, <2>2, Zenon
<1>5. Z[i] = P[i] \union {n + 1} /\ \A j \in Replicas \ {i} : Z[j] = P[j]
  BY Zenon
<1> HIDE DEF Z
<1>6. Parts(n + 1, t, u, R, Z)
  <2>1. R \subseteq 1..(n + 1) /\ Cardinality(R) = t
    BY <1>1, <1>2, Zenon DEF Parts
  <2>2. ASSUME NEW j \in Replicas
        PROVE  Z[j] \subseteq 1..(n + 1) /\ Cardinality(Z[j]) = u[j] /\ Z[j] \intersect R = {}
    <3>1. CASE j = i
      <4>1. P[i] \subseteq 1..n /\ R \subseteq 1..n /\ P[i] \intersect R = {}
        BY <1>1, Zenon DEF Parts
      <4>2. P[i] \union {n + 1} \subseteq 1..(n + 1)
        BY <1>2, <4>1, Zenon
      <4>3. (P[i] \union {n + 1}) \intersect R = {}
        BY <1>2, <4>1, Zenon
      <4> QED
        BY <1>4, <1>5, <3>1, <4>2, <4>3, Zenon
    <3>2. CASE j # i
      BY <1>1, <1>2, <1>5, <3>2, Zenon DEF Parts
    <3> QED
      BY <3>1, <3>2, Zenon
  <2>3. \A j, k \in Replicas : j # k => Z[j] \intersect Z[k] = {}
    <3>1. \A j \in Replicas : P[j] \subseteq 1..n
      BY <1>1, Zenon DEF Parts
    <3>2. \A j, k \in Replicas : j # k => P[j] \intersect P[k] = {}
      BY <1>1, Zenon DEF Parts
    <3>3. \A j \in Replicas : j # i => (P[i] \union {n + 1}) \intersect P[j] = {}
      BY <1>2, <3>1, <3>2, Zenon
    <3>4. \A j \in Replicas : j # i => P[j] \intersect (P[i] \union {n + 1}) = {}
      BY <3>3, Zenon
    <3> QED
      BY <1>5, <3>2, <3>3, <3>4, ZenonT(30)
  <2> QED
    BY <2>1, <2>2, <2>3, Zenon DEF Parts
<1>7. full => Covers(n + 1, R, Z)
  BY <1>1, <1>2, <1>5, Zenon DEF Covers
<1> QED
  BY <1>6, <1>7, Zenon DEF Divided

\* An event that nobody counts.
LEMMA DividedIgnored ==
  ASSUME NEW n \in Nat, NEW k \in Nat, NEW t, NEW s, NEW full, Divided(n, t, s, full),
         NEW whole, whole => full /\ k = 0
  PROVE  Divided(n + k, t, s, whole)
<1>1. PICK R, P : Parts(n, t, s, R, P) /\ (full => Covers(n, R, P))
  BY Zenon DEF Divided
<1>2. 1..n \subseteq 1..(n + k) /\ (k = 0 => n + k = n)
  OBVIOUS
<1>3. Parts(n + k, t, s, R, P)
  BY <1>1, <1>2, Zenon DEF Parts
<1>4. whole => Covers(n + k, R, P)
  BY <1>1, <1>2, Zenon
<1> QED
  BY <1>3, <1>4, Zenon DEF Divided

\* A replica adds its share to the row.
LEMMA DividedAdded ==
  ASSUME NEW n \in Nat, NEW t, NEW s, NEW u, NEW full, Divided(n, t, s, full),
         NEW i \in Replicas, u[i] = 0, \A j \in Replicas \ {i} : u[j] = s[j]
  PROVE  Divided(n, t + s[i], u, full)
<1>1. PICK R, P : Parts(n, t, s, R, P) /\ (full => Covers(n, R, P))
  BY Zenon DEF Divided
<1> DEFINE Q == R \union P[i]
           Z == [j \in Replicas |-> IF j = i THEN {} ELSE P[j]]
<1>2. IsFiniteSet(R) /\ IsFiniteSet(P[i]) /\ P[i] \intersect R = {}
      /\ Cardinality(R) = t /\ Cardinality(P[i]) = s[i]
  <2>1. IsFiniteSet(1..n)
    BY FS_Interval
  <2> QED
    BY <1>1, <2>1, FS_Subset, Zenon DEF Parts
<1>3. Cardinality(Q) = t + s[i]
  <2>1. Cardinality(Q) = Cardinality(R) + Cardinality(P[i]) - Cardinality(R \intersect P[i])
    BY <1>2, FS_Union, Zenon
  <2>2. R \intersect P[i] = {} /\ Cardinality({}) = 0
    BY <1>2, FS_EmptySet, Zenon
  <2>3. t \in Nat /\ s[i] \in Nat
    BY <1>2, FS_CardinalityType, Zenon
  <2> QED
    BY <1>2, <2>1, <2>2, <2>3
<1>4. Z[i] = {} /\ \A j \in Replicas \ {i} : Z[j] = P[j]
  BY Zenon
<1> HIDE DEF Z
<1>5. Parts(n, t + s[i], u, Q, Z)
  <2>1. Q \subseteq 1..n
    BY <1>1, Zenon DEF Parts
  <2>2. ASSUME NEW j \in Replicas
        PROVE  Z[j] \subseteq 1..n /\ Cardinality(Z[j]) = u[j] /\ Z[j] \intersect Q = {}
    <3>1. CASE j = i
      BY <1>4, <3>1, FS_EmptySet, Zenon
    <3>2. CASE j # i
      BY <1>1, <1>4, <3>2, Zenon DEF Parts
    <3> QED
      BY <3>1, <3>2, Zenon
  <2>3. \A j, k \in Replicas : j # k => Z[j] \intersect Z[k] = {}
    BY <1>1, <1>4, Zenon DEF Parts
  <2> QED
    BY <1>3, <2>1, <2>2, <2>3, Zenon DEF Parts
<1>6. full => Covers(n, Q, Z)
  BY <1>1, <1>4, Zenon DEF Covers
<1> QED
  BY <1>5, <1>6, Zenon DEF Divided

\* A replica loses its share.
LEMMA DividedLost ==
  ASSUME NEW n \in Nat, NEW t, NEW s, NEW u, NEW full, Divided(n, t, s, full),
         NEW i \in Replicas, u[i] = 0, \A j \in Replicas \ {i} : u[j] = s[j],
         NEW whole, whole => full /\ s[i] = 0
  PROVE  Divided(n, t, u, whole)
<1>1. PICK R, P : Parts(n, t, s, R, P) /\ (full => Covers(n, R, P))
  BY Zenon DEF Divided
<1> DEFINE Z == [j \in Replicas |-> IF j = i THEN {} ELSE P[j]]
<1>2. Z[i] = {} /\ \A j \in Replicas \ {i} : Z[j] = P[j]
  BY Zenon
<1> HIDE DEF Z
<1>3. Parts(n, t, u, R, Z)
  <2>1. ASSUME NEW j \in Replicas
        PROVE  Z[j] \subseteq 1..n /\ Cardinality(Z[j]) = u[j] /\ Z[j] \intersect R = {}
    <3>1. CASE j = i
      BY <1>2, <3>1, FS_EmptySet, Zenon
    <3>2. CASE j # i
      BY <1>1, <1>2, <3>2, Zenon DEF Parts
    <3> QED
      BY <3>1, <3>2, Zenon
  <2>2. \A j, k \in Replicas : j # k => Z[j] \intersect Z[k] = {}
    BY <1>1, <1>2, Zenon DEF Parts
  <2> QED
    BY <1>1, <2>1, <2>2, Zenon DEF Parts
<1>4. ASSUME whole PROVE Covers(n, R, Z)
  <2>1. IsFiniteSet(P[i]) /\ Cardinality(P[i]) = 0
    <3>1. IsFiniteSet(1..n)
      BY FS_Interval
    <3> QED
      BY <1>1, <1>4, <3>1, FS_Subset, Zenon DEF Parts
  <2>2. P[i] = {}
    BY <2>1, FS_EmptySet, Zenon
  <2> QED
    BY <1>1, <1>2, <1>4, <2>2, Zenon DEF Covers
<1> QED
  BY <1>3, <1>4, Zenon DEF Divided

\* What a division says of the numbers.
LEMMA DividedBounds ==
  ASSUME NEW n \in Nat, NEW t \in Nat, NEW s, NEW full, Divided(n, t, s, full)
  PROVE  /\ t <= n
         /\ \A i \in Replicas : s[i] \in Nat /\ s[i] <= n /\ t + s[i] <= n
         /\ full /\ (\A i \in Replicas : s[i] = 0) => t = n
<1>1. PICK R, P : Parts(n, t, s, R, P) /\ (full => Covers(n, R, P))
  BY Zenon DEF Divided
<1>2. IsFiniteSet(1..n) /\ Cardinality(1..n) = n
  BY FS_Interval
<1>3. t <= n /\ IsFiniteSet(R)
  <2>1. R \subseteq 1..n /\ Cardinality(R) = t
    BY <1>1, Zenon DEF Parts
  <2>2. IsFiniteSet(R) /\ Cardinality(R) <= Cardinality(1..n)
    BY <1>2, <2>1, FS_Subset, Zenon
  <2> QED
    BY <1>2, <2>1, <2>2, Zenon
<1>4. ASSUME NEW i \in Replicas
      PROVE  s[i] \in Nat /\ s[i] <= n /\ t + s[i] <= n /\ (s[i] = 0 => P[i] = {})
  <2>1. /\ P[i] \subseteq 1..n /\ Cardinality(P[i]) = s[i] /\ P[i] \intersect R = {}
        /\ R \subseteq 1..n /\ Cardinality(R) = t
    BY <1>1, Zenon DEF Parts
  <2>2. IsFiniteSet(P[i]) /\ s[i] <= n
    BY <1>2, <2>1, FS_Subset, Zenon
  <2>3. s[i] \in Nat
    BY <2>1, <2>2, FS_CardinalityType, Zenon
  <2>4. Cardinality(R \union P[i]) = t + s[i]
    <3>1. Cardinality(R \union P[i])
            = Cardinality(R) + Cardinality(P[i]) - Cardinality(R \intersect P[i])
      BY <1>3, <2>2, FS_Union, Zenon
    <3>2. R \intersect P[i] = {} /\ Cardinality({}) = 0
      BY <2>1, FS_EmptySet, Zenon
    <3> QED
      BY <2>1, <2>3, <3>1, <3>2
  <2>5. R \union P[i] \subseteq 1..n
    BY <2>1, Zenon
  <2>6. Cardinality(R \union P[i]) <= n
    BY <1>2, <2>5, FS_Subset, Zenon
  <2>7. s[i] = 0 => P[i] = {}
    BY <2>1, <2>2, FS_EmptySet, Zenon
  <2> QED
    BY <2>2, <2>3, <2>4, <2>6, <2>7, Zenon
<1>5. ASSUME full, \A i \in Replicas : s[i] = 0 PROVE t = n
  <2>1. \A i \in Replicas : P[i] = {}
    BY <1>4, <1>5, Zenon
  <2>2. R = 1..n
    BY <1>1, <1>5, <2>1, Zenon DEF Parts, Covers
  <2> QED
    BY <1>1, <1>2, <2>2, Zenon DEF Parts
<1> QED
  BY <1>3, <1>4, <1>5, Zenon

-----------------------------------------------------------------------------
(***************************************************************************)
(* WindowCountedOnce.  A baseline's windows ascend, ended before the one   *)
(* that is open now, and none has a total above what happened in it; what  *)
(* a replica has, what it saved and what its collector is about to save    *)
(* are such baselines.  An open window is later than every window learned, *)
(* or is the zero one a restart leaves, in which nothing ever happens.     *)
(***************************************************************************)
Faithful(l, ev, now) ==
  /\ l \in Seq([window : DOMAIN ev, total : Nat])
  /\ \A n \in 1..Len(l) :
       /\ l[n].total <= ev[l[n].window]
       /\ l[n].window < now
       /\ n > 1 => l[n - 1].window < l[n].window

Sound(b, ev, now) ==
  /\ b \in [start : DOMAIN ev, cur : Nat, seen : Nat,
            learned : Seq([window : DOMAIN ev, total : Nat])]
  /\ b.start = Truncate(b.start) /\ b.start <= now
  /\ Faithful(b.learned, ev, Truncate(now))
  /\ b.start = 0 \/ \A n \in 1..Len(b.learned) : b.learned[n].window < b.start

Share(b, w) == IF b # None /\ b.start = w THEN b.cur ELSE 0

Full(m, w) == setup.postgres /\ m \in setup.enabled /\ <<m, w>> \notin missed

Totals(m) ==
  /\ totals[m] \in [Times -> Nat] /\ events[m] \in [Times -> Nat] /\ events[m][0] = 0
  /\ \A i \in Replicas :
       /\ tally[i][m] # None => i \in up /\ Sound(tally[i][m], events[m], clock)
       /\ saved[i][m] # None => Faithful(saved[i][m], events[m], Truncate(clock))
       /\ m \in DOMAIN gc[i].learned => Faithful(gc[i].learned[m], events[m], Truncate(clock))

Division(m) ==
  \A w \in Times :
    Divided(events[m][w], totals[m][w], [i \in Replicas |-> Share(tally[i][m], w)], Full(m, w))

Shapes ==
  /\ setup \in Deployments
  /\ clock \in Times /\ clock >= Window
  /\ up \subseteq Replicas
  /\ DOMAIN tally = Replicas /\ \A i \in Replicas : DOMAIN tally[i] = Metrics
  /\ DOMAIN saved = Replicas /\ \A i \in Replicas : DOMAIN saved[i] = Metrics

CountInv == Inv /\ Shapes /\ \A m \in Metrics : Totals(m) /\ Division(m)

-----------------------------------------------------------------------------
(***************************************************************************)
(* The windows' starts.                                                    *)
(***************************************************************************)
LEMMA Multiples ==
  ASSUME NEW L \in Nat \ {0}, NEW p \in Nat, NEW q \in Nat, L * p < L * q + L
  PROVE  p <= q
<1> SUFFICES ASSUME q + 1 <= p PROVE FALSE
  OBVIOUS
<1>1. L * (q + 1) <= L * p
  OBVIOUS
<1>2. L * (q + 1) = L * q + L
  OBVIOUS
<1> QED
  BY <1>1, <1>2

LEMMA TruncateForm ==
  ASSUME NEW t \in Nat
  PROVE  /\ Truncate(t) \in Nat /\ Truncate(t) <= t /\ t < Truncate(t) + Window
         /\ t \div Window \in Nat /\ Truncate(t) = Window * (t \div Window)
         /\ Period(t) = Truncate(t)
<1> DEFINE L == Window
           p == t \div L
<1>1. L \in Nat /\ L > 0
  BY BaselinesAssumption
<1>2. Truncate(t) = t - (t % L) /\ Period(t) = p * L
  BY DEF Truncate, Period
<1> HIDE DEF L
<1>3. p \in Nat /\ t % L \in 0..(L - 1) /\ t = L * p + (t % L)
  BY <1>1
<1> HIDE DEF p
<1>4. L * p \in Nat /\ p * L = L * p
  BY <1>1, <1>3
<1>5. Truncate(t) = L * p
  BY <1>1, <1>2, <1>3, <1>4
<1>6. L * p <= t /\ t < L * p + L
  BY <1>1, <1>3, <1>4
<1> QED
  BY <1>2, <1>3, <1>4, <1>5, <1>6, Zenon DEF L, p

LEMMA TruncateGrows ==
  ASSUME NEW s \in Nat, NEW t \in Nat, s <= t
  PROVE  Truncate(s) <= Truncate(t)
<1> DEFINE p == s \div Window
           q == t \div Window
<1>1. Window \in Nat \ {0}
  BY BaselinesAssumption
<1>2. /\ p \in Nat /\ Truncate(s) = Window * p /\ Truncate(s) \in Nat /\ Truncate(s) <= s
      /\ q \in Nat /\ Truncate(t) = Window * q /\ Truncate(t) \in Nat /\ t < Truncate(t) + Window
  BY TruncateForm, Zenon
<1> HIDE DEF p, q
<1>3. Window * p < Window * q + Window
  <2>1. Truncate(s) < Truncate(t) + Window
    BY <1>1, <1>2
  <2> QED
    BY <1>2, <2>1, Zenon
<1>4. p <= q
  BY <1>1, <1>2, <1>3, Multiples, Zenon
<1>5. Window * p <= Window * q
  BY <1>1, <1>2, <1>4
<1> QED
  BY <1>2, <1>5, Zenon

\* A start lies in its own window, and in no other.
LEMMA TruncateStart ==
  ASSUME NEW t \in Nat
  PROVE  Truncate(Truncate(t)) = Truncate(t)
<1> DEFINE s == Truncate(t)
           p == s \div Window
           q == t \div Window
<1>1. Window \in Nat \ {0}
  BY BaselinesAssumption
<1>2. s \in Nat /\ q \in Nat /\ s = Window * q
  BY TruncateForm, Zenon
<1> HIDE DEF s
<1>3. p \in Nat /\ Truncate(s) = Window * p /\ Truncate(s) \in Nat /\ s < Truncate(s) + Window
      /\ Truncate(s) <= s
  BY <1>2, TruncateForm, Zenon
<1> HIDE DEF p, q
<1>4. Window * q < Window * p + Window
  BY <1>2, <1>3, Zenon
<1>5. q <= p
  BY <1>1, <1>2, <1>3, <1>4, Multiples, Zenon
<1>6. Window * q <= Window * p
  BY <1>1, <1>2, <1>3, <1>5
<1>7. Truncate(s) = s
  <2>1. s <= Truncate(s)
    BY <1>2, <1>3, <1>6, Zenon
  <2> QED
    BY <1>2, <1>3, <2>1
<1> QED
  BY <1>7, Zenon DEF s

LEMMA SameWindow ==
  ASSUME NEW s \in Nat, NEW t \in Nat, s = Truncate(s), s <= t, t - s < Window
  PROVE  s = Truncate(t)
<1> DEFINE p == s \div Window
           q == t \div Window
<1>1. Window \in Nat \ {0}
  BY BaselinesAssumption
<1>2. /\ p \in Nat /\ s = Window * p
      /\ q \in Nat /\ Truncate(t) = Window * q /\ Truncate(t) \in Nat /\ Truncate(t) <= t
      /\ s <= Truncate(t)
  BY TruncateForm, TruncateGrows, Zenon
<1> HIDE DEF p, q
<1>3. Window * q < Window * p + Window
  <2>1. Truncate(t) < s + Window
    BY <1>1, <1>2
  <2> QED
    BY <1>2, <2>1, Zenon
<1>4. q <= p
  BY <1>1, <1>2, <1>3, Multiples, Zenon
<1>5. Window * q <= Window * p
  BY <1>1, <1>2, <1>4
<1>6. Truncate(t) <= s
  BY <1>2, <1>5, Zenon
<1> QED
  BY <1>2, <1>6

LEMMA LaterWindow ==
  ASSUME NEW s \in Nat, NEW t \in Nat, ~(t - s < Window)
  PROVE  s < Truncate(t)
<1>1. Window \in Nat
  BY BaselinesAssumption
<1>2. Truncate(t) \in Nat /\ t < Truncate(t) + Window
  BY TruncateForm, Zenon
<1> QED
  BY <1>1, <1>2

\* The window that is open now is none of the zero time's.
LEMMA OpenNow ==
  ASSUME Shapes
  PROVE  /\ clock \in Nat /\ setup.horizon \in Nat
         /\ Truncate(clock) \in Times /\ Truncate(clock) > 0
         /\ Period(clock) = Truncate(clock) /\ 0 \in Times
<1>1. setup.horizon \in Nat /\ Window \in Nat \ {0}
  BY BaselinesAssumption DEF Shapes, Setups
<1>2. clock \in Nat /\ clock <= setup.horizon /\ clock >= Window
  BY <1>1 DEF Shapes, Times
<1>3. Truncate(clock) \in Nat /\ Truncate(clock) <= clock /\ clock < Truncate(clock) + Window
      /\ Period(clock) = Truncate(clock)
  BY <1>2, TruncateForm, Zenon
<1> QED
  BY <1>1, <1>2, <1>3 DEF Times

-----------------------------------------------------------------------------
(***************************************************************************)
(* What was learned stays faithful as events happen and time passes.       *)
(***************************************************************************)
LEMMA FaithfulKept ==
  ASSUME NEW T \in SUBSET Nat, NEW ev \in [T -> Nat], NEW ew \in [T -> Nat],
         \A w \in T : ev[w] <= ew[w],
         NEW now \in Nat, NEW late \in Nat, now <= late,
         NEW l, Faithful(l, ev, now)
  PROVE  Faithful(l, ew, late)
<1>1. DOMAIN ev = T /\ DOMAIN ew = T
  BY Zenon
<1>2. l \in Seq([window : T, total : Nat])
  BY <1>1, Zenon DEF Faithful
<1>3. ASSUME NEW n \in 1..Len(l)
      PROVE  /\ l[n].total <= ew[l[n].window]
             /\ l[n].window < late
             /\ n > 1 => l[n - 1].window < l[n].window
  <2>1. l[n].window \in T /\ l[n].total \in Nat
    <3> DEFINE E == [window : T, total : Nat]
    <3>1. \A e \in E : e.window \in T /\ e.total \in Nat
      OBVIOUS
    <3>2. l \in Seq(E)
      BY <1>2, Zenon
    <3> HIDE DEF E
    <3>3. l[n] \in E
      BY <3>2
    <3> QED
      BY <3>1, <3>3, Zenon
  <2>2. /\ l[n].total <= ev[l[n].window]
        /\ l[n].window < now
        /\ n > 1 => l[n - 1].window < l[n].window
    BY Zenon DEF Faithful
  <2>3. ev[l[n].window] \in Nat /\ ew[l[n].window] \in Nat /\ ev[l[n].window] <= ew[l[n].window]
    BY <2>1, Zenon
  <2>4. l[n].window \in Nat
    BY <2>1, Zenon
  <2>5. l[n].total <= ew[l[n].window]
    BY <2>1, <2>2, <2>3
  <2>6. l[n].window < late
    BY <2>2, <2>4
  <2> QED
    BY <2>2, <2>5, <2>6, Zenon
<1> QED
  BY <1>1, <1>2, <1>3, Zenon DEF Faithful

LEMMA SoundKept ==
  ASSUME NEW T \in SUBSET Nat, NEW ev \in [T -> Nat], NEW ew \in [T -> Nat],
         \A w \in T : ev[w] <= ew[w],
         NEW now \in Nat, NEW late \in Nat, now <= late,
         NEW b, Sound(b, ev, now)
  PROVE  Sound(b, ew, late)
<1>1. DOMAIN ev = T /\ DOMAIN ew = T
  BY Zenon
<1>2. Truncate(now) \in Nat /\ Truncate(late) \in Nat /\ Truncate(now) <= Truncate(late)
  BY TruncateForm, TruncateGrows, Zenon
<1>3. Faithful(b.learned, ew, Truncate(late))
  <2>1. Faithful(b.learned, ev, Truncate(now))
    BY Zenon DEF Sound
  <2> QED
    BY <1>2, <2>1, FaithfulKept, Zenon
<1>4. b \in [start : T, cur : Nat, seen : Nat, learned : Seq([window : T, total : Nat])]
  BY <1>1, Zenon DEF Sound
<1>5. b.start \in Nat /\ b.start <= now
  <2>1. b.start \in T
    BY <1>4
  <2> QED
    BY <2>1, Zenon DEF Sound
<1>6. b.start <= late
  BY <1>5
<1> QED
  BY <1>1, <1>3, <1>4, <1>6, Zenon DEF Sound

(***************************************************************************)
(* n events of aggregate m happen.                                         *)
(***************************************************************************)
LEMMA HappenedGrows ==
  ASSUME Shapes, NEW m, Totals(m), NEW n \in {0, 1}
  PROVE  LET ev == events[m]
             ew == Happened(m, n)
             now == Truncate(clock)
         IN  /\ ev \in [Times -> Nat] /\ ew \in [Times -> Nat] /\ ew[0] = 0
             /\ \A w \in Times : ev[w] <= ew[w]
             /\ ew[now] = ev[now] + n
             /\ \A w \in Times : w # now => ew[w] = ev[w]
<1> DEFINE now == Truncate(clock)
           ev == events[m]
           ew == Happened(m, n)
<1>1. now \in Times /\ now > 0 /\ now \in Nat /\ Period(clock) = now /\ 0 \in Times
  BY OpenNow, TruncateForm, Zenon
<1>2. ev \in [Times -> Nat] /\ ev[0] = 0
  BY Zenon DEF Totals
<1>3. ew = [ev EXCEPT ![now] = ev[now] + n]
  BY <1>1, Zenon DEF Happened
<1> HIDE DEF now, ew, ev
<1>4. ev[now] \in Nat /\ ev[now] + n \in Nat /\ ev[now] <= ev[now] + n
  BY <1>1, <1>2
<1>5. ew \in [Times -> Nat] /\ ew[now] = ev[now] + n /\ \A w \in Times : w # now => ew[w] = ev[w]
  BY <1>1, <1>2, <1>3, <1>4, Zenon
<1>6. now # 0
  BY <1>1
<1>7. \A w \in Times : ev[w] <= ew[w]
  <2> SUFFICES ASSUME NEW w \in Times PROVE ev[w] <= ew[w]
    OBVIOUS
  <2>1. CASE w = now
    BY <1>4, <1>5, <2>1, Zenon
  <2>2. CASE w # now
    <3>1. ew[w] = ev[w] /\ ev[w] \in Nat
      BY <1>2, <1>5, <2>2, Zenon
    <3> QED
      BY <3>1
  <2> QED
    BY <2>1, <2>2, Zenon
<1> QED
  BY <1>1, <1>2, <1>5, <1>6, <1>7, Zenon DEF now, ew, ev

(***************************************************************************)
(* The window a replica counts the event in, before it is closed.          *)
(***************************************************************************)
Open(b) ==
  IF b = None THEN [start |-> Truncate(clock), cur |-> 0, seen |-> 0, learned |-> << >>] ELSE b

LEMMA OpenSound ==
  ASSUME Shapes, NEW m, Totals(m), NEW i \in Replicas
  PROVE  LET ts == Open(tally[i][m])
         IN  /\ Sound(ts, events[m], clock)
             /\ ts.start \in Times /\ ts.cur \in Nat
             /\ \A w \in Times : Share(tally[i][m], w) = IF ts.start = w THEN ts.cur ELSE 0
<1> DEFINE b == tally[i][m]
           now == Truncate(clock)
           fresh == [start |-> now, cur |-> 0, seen |-> 0, learned |-> << >>]
<1>1. now \in Times /\ now \in Nat /\ clock \in Nat /\ now <= clock /\ Truncate(now) = now
  BY OpenNow, TruncateForm, TruncateStart, Zenon
<1>2. DOMAIN events[m] = Times
  BY Zenon DEF Totals
<1>3. CASE b = None
  <2>1. Open(b) = fresh
    BY <1>3, Zenon DEF Open
  <2> HIDE DEF now
  <2>2. fresh \in [start : Times, cur : Nat, seen : Nat,
                   learned : Seq([window : Times, total : Nat])]
    BY <1>1
  <2>3. fresh.learned = << >> /\ fresh.start = now /\ fresh.cur = 0
    OBVIOUS
  <2>4. Faithful(<< >>, events[m], now)
    BY <1>2 DEF Faithful
  <2>5. \A n \in 1..Len(<< >>) : << >>[n].window < now
    OBVIOUS
  <2> HIDE DEF fresh
  <2>6. Sound(fresh, events[m], clock)
    BY <1>1, <1>2, <2>2, <2>3, <2>4, <2>5, Zenon DEF Sound, now
  <2>7. \A w \in Times : Share(b, w) = IF fresh.start = w THEN fresh.cur ELSE 0
    BY <1>3, <2>3, Zenon DEF Share
  <2>8. fresh.start \in Times /\ fresh.cur \in Nat
    BY <1>1, <2>3
  <2> QED
    BY <2>1, <2>6, <2>7, <2>8, Zenon
<1>4. CASE b # None
  <2>1. Open(b) = b /\ Sound(b, events[m], clock)
    BY <1>4, Zenon DEF Open, Totals
  <2>2. b \in [start : Times, cur : Nat, seen : Nat, learned : Seq([window : Times, total : Nat])]
    BY <1>2, <2>1, Zenon DEF Sound
  <2> HIDE DEF b
  <2>3. b.start \in Times /\ b.cur \in Nat
    BY <2>2
  <2>4. \A w \in Times : Share(b, w) = IF b.start = w THEN b.cur ELSE 0
    BY <1>4, Zenon DEF Share
  <2> QED
    BY <2>1, <2>3, <2>4, Zenon DEF b
<1> QED
  BY <1>3, <1>4, Zenon

(***************************************************************************)
(* The outcomes of counting an event: in the window that is open, or after *)
(* that window was added to its row, or not, and was folded, or not.       *)
(***************************************************************************)
Continues(o, m, ts) ==
  /\ ts.start = Truncate(clock)
  /\ o.tally = [start |-> ts.start, cur |-> ts.cur + 1, seen |-> clock, learned |-> ts.learned]
  /\ o.window = ts.start /\ o.total = totals[m][ts.start]

Closes(o, m, ts) ==
  /\ ts.start < Truncate(clock)
  /\ \E l, got :
       /\ o.tally = [start |-> Truncate(clock), cur |-> 1, seen |-> clock, learned |-> l]
       /\ got \in {ts.cur, totals[m][ts.start] + ts.cur}
       /\ \/ l = ts.learned
          \/ got >= setup.min /\ l = Append(ts.learned, [window |-> ts.start, total |-> got])
  /\ o.window = ts.start
  /\ o.total \in {totals[m][ts.start], totals[m][ts.start] + ts.cur}
  /\ o.missed = (o.total # totals[m][ts.start] + ts.cur)

\* What AddAndGet answers, and what becomes of the baseline.
LEMMA Answers ==
  ASSUME NEW m, NEW w, NEW n, NEW a \in AddAndGet(m, w, n)
  PROVE  a.total \in {totals[m][w], totals[m][w] + n} /\ a.got \in {n, totals[m][w] + n}
BY DEF AddAndGet

LEMMA FoldsForms ==
  ASSUME NEW k, NEW w, NEW got \in Int, setup.min \in Int, NEW l \in Folds(k, w, got)
  PROVE  l = k \/ (got >= setup.min /\ l = Append(k, [window |-> w, total |-> got]))
<1>1. CASE got < setup.min
  BY <1>1, Zenon DEF Folds
<1>2. CASE ~(got < setup.min)
  <2>1. l = k \/ l = Append(k, [window |-> w, total |-> got])
    BY <1>2, Zenon DEF Folds
  <2>2. got >= setup.min
    BY <1>2
  <2> QED
    BY <2>1, <2>2, Zenon
<1> QED
  BY <1>1, <1>2, Zenon

LEMMA CountedOutcomes ==
  ASSUME Shapes, NEW m, Totals(m), NEW i \in Replicas, NEW o \in Counted(i, m)
  PROVE  Continues(o, m, Open(tally[i][m])) \/ Closes(o, m, Open(tally[i][m]))
<1> DEFINE ts == Open(tally[i][m])
           t == totals[m][ts.start]
           Now(start, cur, learned) ==
             [start |-> start, cur |-> cur + 1, seen |-> clock, learned |-> learned]
           Closed(a, l) ==
             [tally |-> Now(Truncate(clock), 0, l), window |-> ts.start,
              total |-> a.total, failed |-> a.failed, missed |-> a.total # t + ts.cur]
<1>1. Sound(ts, events[m], clock) /\ ts.start \in Times /\ ts.cur \in Nat
  BY OpenSound, Zenon
<1>2. ts.start \in Nat /\ ts.start = Truncate(ts.start) /\ ts.start <= clock /\ clock \in Nat
  <2>1. clock \in Nat /\ setup.horizon \in Nat
    BY OpenNow, Zenon
  <2>2. ts.start \in Nat
    BY <1>1, <2>1 DEF Times
  <2> QED
    BY <1>1, <2>1, <2>2, Zenon DEF Sound
<1>3. setup.min \in Int /\ 0 + 1 = 1 /\ ts.cur \in Int /\ t + ts.cur \in Int
  <2>1. setup.min \in Int
    BY BaselinesAssumption DEF Shapes, Setups
  <2>2. t \in Nat
    BY <1>1, Zenon DEF Totals
  <2> HIDE DEF t, ts
  <2> QED
    BY <1>1, <2>1, <2>2
<1>4. CASE clock - ts.start < Window
  <2>1. ts.start = Truncate(clock)
    BY <1>2, <1>4, SameWindow, Zenon
  <2>2. o = [tally |-> Now(ts.start, ts.cur, ts.learned), window |-> ts.start,
             total |-> t, failed |-> FALSE, missed |-> FALSE]
    BY <1>4, Zenon DEF Counted, Open
  <2>3. /\ o.tally = [start |-> ts.start, cur |-> ts.cur + 1, seen |-> clock,
                      learned |-> ts.learned]
        /\ o.window = ts.start /\ o.total = t
    BY <2>2
  <2> QED
    BY <2>1, <2>3, Zenon DEF Continues
<1>5. CASE ~(clock - ts.start < Window)
  <2>1. ts.start < Truncate(clock)
    BY <1>2, <1>5, LaterWindow, Zenon
  <2>2. o \in UNION {{Closed(a, l) : l \in Folds(ts.learned, ts.start, a.got)}
                    : a \in AddAndGet(m, ts.start, ts.cur)}
    BY <1>5, Zenon DEF Counted, Open
  <2>3. PICK a \in AddAndGet(m, ts.start, ts.cur) :
          \E l \in Folds(ts.learned, ts.start, a.got) : o = Closed(a, l)
    <3> HIDE DEF Closed, ts
    <3> QED
      BY <2>2, Zenon
  <2> PICK l \in Folds(ts.learned, ts.start, a.got) : o = Closed(a, l)
    BY <2>3, Zenon
  <2>4. /\ o.tally = Now(Truncate(clock), 0, l) /\ o.window = ts.start /\ o.total = a.total
        /\ o.missed = (a.total # t + ts.cur)
    <3> HIDE DEF ts, t, Now
    <3> QED
      BY DEF Closed
  <2>5. o.tally = [start |-> Truncate(clock), cur |-> 1, seen |-> clock, learned |-> l]
    BY <1>3, <2>4, Zenon
  <2>6. a.total \in {t, t + ts.cur} /\ a.got \in {ts.cur, t + ts.cur}
    BY Answers, Zenon
  <2>7. a.got \in Int
    BY <1>3, <2>6, Zenon
  <2>8. \/ l = ts.learned
        \/ a.got >= setup.min /\ l = Append(ts.learned, [window |-> ts.start, total |-> a.got])
    BY <1>3, <2>7, FoldsForms, Zenon
  <2> QED
    BY <2>1, <2>4, <2>5, <2>6, <2>8, Zenon DEF Closes
<1> QED
  BY <1>4, <1>5, Zenon

(***************************************************************************)
(* After a window was closed the baseline is faithful: the window is later *)
(* than those learned before, and the total is a row's or a share's, which *)
(* what happened bounds.  The zero window has nothing to fold.             *)
(***************************************************************************)
LEMMA AppendFaithful ==
  ASSUME NEW ev, NEW now, NEW k, Faithful(k, ev, now),
         NEW v \in DOMAIN ev, v < now, NEW got \in Nat, got <= ev[v],
         \A n \in 1..Len(k) : k[n].window < v
  PROVE  Faithful(Append(k, [window |-> v, total |-> got]), ev, now)
<1> DEFINE e == [window |-> v, total |-> got]
           E == [window : DOMAIN ev, total : Nat]
           l == Append(k, e)
<1>1. k \in Seq(E)
  BY Zenon DEF Faithful
<1>2. e \in E /\ e.window = v /\ e.total = got
  OBVIOUS
<1> HIDE DEF e, E
<1>3. /\ l \in Seq(E) /\ Len(k) \in Nat /\ Len(l) = Len(k) + 1
      /\ \A n \in 1..Len(k) : l[n] = k[n]
      /\ l[Len(k) + 1] = e
  BY <1>1, <1>2
<1> HIDE DEF l
<1>4. ASSUME NEW n \in 1..Len(l)
      PROVE  /\ l[n].total <= ev[l[n].window]
             /\ l[n].window < now
             /\ n > 1 => l[n - 1].window < l[n].window
  <2>1. CASE n \in 1..Len(k)
    <3>1. l[n] = k[n] /\ (n > 1 => l[n - 1] = k[n - 1])
      BY <1>3, <2>1
    <3> QED
      BY <2>1, <3>1, Zenon DEF Faithful
  <2>2. CASE n = Len(k) + 1
    <3>1. l[n] = e
      BY <1>3, <2>2, Zenon
    <3>2. n > 1 => n - 1 \in 1..Len(k)
      BY <1>3, <2>2
    <3>3. n > 1 => l[n - 1].window < v
      BY <1>3, <3>2, Zenon
    <3> QED
      BY <1>2, <3>1, <3>3, Zenon
  <2> QED
    BY <1>3, <2>1, <2>2
<1>5. Faithful(l, ev, now)
  BY <1>3, <1>4, Zenon DEF Faithful, E
<1> QED
  BY <1>5, Zenon DEF l, e

LEMMA AnswerBounded ==
  ASSUME Shapes, NEW m, Totals(m), Division(m), NEW i \in Replicas,
         NEW v \in Times, NEW c \in Nat, Share(tally[i][m], v) = c,
         NEW got \in {c, totals[m][v] + c}
  PROVE  got \in Nat /\ got <= events[m][v]
<1> DEFINE s == [j \in Replicas |-> Share(tally[j][m], v)]
           e == events[m][v]
           t == totals[m][v]
<1>1. Divided(e, t, s, Full(m, v)) /\ s[i] = c
  BY Zenon DEF Division
<1>2. e \in Nat /\ t \in Nat
  BY Zenon DEF Totals
<1> HIDE DEF s
<1>3. s[i] <= e /\ t + s[i] <= e
  BY <1>1, <1>2, DividedBounds, Zenon
<1>4. c <= e /\ t + c <= e /\ (got = c \/ got = t + c)
  BY <1>1, <1>3, Zenon
<1> HIDE DEF e, t
<1>5. got \in Nat /\ got <= e
  BY <1>2, <1>4
<1> QED
  BY <1>5, Zenon DEF e

LEMMA FoldFaithful ==
  ASSUME Shapes, NEW m, Totals(m), Division(m), NEW i \in Replicas,
         NEW now, NEW got, NEW l, NEW ts, ts = Open(tally[i][m]),
         ts.start < now, Faithful(ts.learned, events[m], now),
         got \in {ts.cur, totals[m][ts.start] + ts.cur},
         \/ l = ts.learned
         \/ got >= setup.min /\ l = Append(ts.learned, [window |-> ts.start, total |-> got])
  PROVE  Faithful(l, events[m], now)
<1>1. /\ Sound(ts, events[m], clock) /\ ts.start \in Times /\ ts.cur \in Nat
      /\ Share(tally[i][m], ts.start) = ts.cur
  BY OpenSound, Zenon
<1>2. events[m] \in [Times -> Nat] /\ events[m][0] = 0 /\ DOMAIN events[m] = Times
  BY Zenon DEF Totals
<1>3. got \in Nat /\ got <= events[m][ts.start]
  BY <1>1, AnswerBounded, ZenonT(30)
<1>4. CASE got >= setup.min /\ l = Append(ts.learned, [window |-> ts.start, total |-> got])
  <2>1. ts.start # 0
    <3>1. setup.min \in Nat /\ setup.min > 0
      BY BaselinesAssumption DEF Shapes, Setups
    <3>2. got >= setup.min
      BY <1>4, Zenon
    <3>3. got # 0
      BY <1>3, <3>1, <3>2
    <3>4. ts.start = 0 => got <= 0
      BY <1>2, <1>3, Zenon
    <3>5. ~(got <= 0)
      BY <1>3, <3>3
    <3> QED
      BY <3>4, <3>5, Zenon
  <2>2. \A n \in 1..Len(ts.learned) : ts.learned[n].window < ts.start
    BY <1>1, <2>1, Zenon DEF Sound
  <2> QED
    BY <1>1, <1>2, <1>3, <1>4, <2>2, AppendFaithful, Zenon
<1> QED
  BY <1>4, Zenon

(***************************************************************************)
(* Publish, for one aggregate: what is learned.                            *)
(***************************************************************************)
LEMMA CountedSound ==
  ASSUME Shapes, NEW m, Totals(m), Division(m), NEW i \in Replicas, NEW o,
         Continues(o, m, Open(tally[i][m])) \/ Closes(o, m, Open(tally[i][m]))
  PROVE  Sound(o.tally, Happened(m, 1), clock)
<1> DEFINE ts == Open(tally[i][m])
           now == Truncate(clock)
           ev == events[m]
           ew == Happened(m, 1)
           L == Seq([window : Times, total : Nat])
           Tally(start, cur, learned) ==
             [start |-> start, cur |-> cur, seen |-> clock, learned |-> learned]
<1>1. /\ now \in Times /\ now \in Nat /\ clock \in Nat /\ now <= clock /\ Truncate(now) = now
      /\ now > 0 /\ Times \subseteq Nat
  <2>1. Times \subseteq Nat
    BY OpenNow DEF Times
  <2> QED
    BY <2>1, OpenNow, TruncateForm, TruncateStart, Zenon
<1>2. /\ ev \in [Times -> Nat] /\ ew \in [Times -> Nat] /\ DOMAIN ew = Times /\ DOMAIN ev = Times
      /\ \A w \in Times : ev[w] <= ew[w]
  BY HappenedGrows, Zenon
<1>3. Sound(ts, ev, clock) /\ ts.start \in Times /\ ts.cur \in Nat
  BY OpenSound, Zenon
<1>4. Faithful(ts.learned, ev, now)
  BY <1>3, Zenon DEF Sound
<1>5. ts.start # 0 => \A n \in 1..Len(ts.learned) : ts.learned[n].window < ts.start
  BY <1>3, Zenon DEF Sound
<1>6. ASSUME NEW c \in Nat, NEW l, Faithful(l, ev, now),
             \A n \in 1..Len(l) : l[n].window < now
      PROVE  Sound(Tally(now, c, l), ew, clock)
  <2> DEFINE b == Tally(now, c, l)
  <2>1. Faithful(l, ew, now)
    <3>1. now <= now
      BY <1>1
    <3> QED
      BY <1>1, <1>2, <1>6, <3>1, FaithfulKept, Zenon
  <2>2. l \in L
    BY <1>2, <1>6, Zenon DEF Faithful
  <2> HIDE DEF L, now
  <2>3. b.start = now /\ b.learned = l
    OBVIOUS
  <2>4. b \in [start : Times, cur : Nat, seen : Nat, learned : L]
    BY <1>1, <2>2
  <2> HIDE DEF b
  <2>5. Sound(b, ew, clock)
    BY <1>1, <1>2, <1>6, <2>1, <2>3, <2>4, Zenon DEF Sound, L, now
  <2> QED
    BY <2>5, Zenon DEF b
<1>7. CASE Continues(o, m, ts)
  <2>1. ts.start = now /\ o.tally = Tally(now, ts.cur + 1, ts.learned)
    BY <1>7, Zenon DEF Continues
  <2>2. ts.cur + 1 \in Nat
    BY <1>3
  <2>3. \A n \in 1..Len(ts.learned) : ts.learned[n].window < now
    BY <1>4, Zenon DEF Faithful
  <2> HIDE DEF Tally, now, ew, ev, ts
  <2> QED
    BY <1>4, <1>6, <2>1, <2>2, <2>3, Zenon DEF ew
<1>8. CASE Closes(o, m, ts)
  <2>1. PICK l, got :
          /\ o.tally = Tally(now, 1, l)
          /\ got \in {ts.cur, totals[m][ts.start] + ts.cur}
          /\ \/ l = ts.learned
             \/ got >= setup.min /\ l = Append(ts.learned, [window |-> ts.start, total |-> got])
    BY <1>8, Zenon DEF Closes
  <2>2. ts.start < now
    BY <1>8, Zenon DEF Closes
  <2>3. Faithful(l, ev, now)
    BY <1>1, <1>4, <2>1, <2>2, FoldFaithful, Zenon
  <2>4. \A n \in 1..Len(l) : l[n].window < now
    BY <2>3, Zenon DEF Faithful
  <2>5. 1 \in Nat
    OBVIOUS
  <2> HIDE DEF Tally, now, ew, ev, ts
  <2> QED
    BY <1>6, <2>1, <2>3, <2>4, <2>5, Zenon DEF ew
<1> QED
  BY <1>7, <1>8, Zenon

(***************************************************************************)
(* Publish, for one aggregate: where its events are.                       *)
(***************************************************************************)
Counting(m, i, o, n) ==
  /\ \/ n = 1 /\ o \in Counted(i, m)
     \/ (m \in setup.enabled => n = 0) /\ o \in NotCounted(i, m)
  /\ tally'[i][m] = o.tally /\ \A j \in Replicas \ {i} : tally'[j][m] = tally[j][m]
  /\ totals'[m] = [totals[m] EXCEPT ![o.window] = o.total]
  /\ events'[m] = Happened(m, n)
  /\ missed \subseteq missed' /\ (o.missed => <<m, o.window>> \in missed')
  /\ UNCHANGED <<setup, clock, up, saved, gc>>

\* A window that no share of replica i and no event changes.
LEMMA DivisionKept ==
  ASSUME NEW m, Division(m), NEW i \in Replicas, NEW w \in Times,
         setup' = setup, missed \subseteq missed',
         events'[m][w] = events[m][w], totals'[m][w] = totals[m][w],
         \A j \in Replicas \ {i} : tally'[j][m] = tally[j][m],
         Share(tally'[i][m], w) = Share(tally[i][m], w)
  PROVE  Divided(events'[m][w], totals'[m][w],
                 [j \in Replicas |-> Share(tally'[j][m], w)], Full(m, w)')
<1> DEFINE s == [j \in Replicas |-> Share(tally[j][m], w)]
           u == [j \in Replicas |-> Share(tally'[j][m], w)]
<1>1. Divided(events[m][w], totals[m][w], s, Full(m, w))
  BY Zenon DEF Division
<1>2. \A j \in Replicas : s[j] = u[j]
  BY Zenon
<1>3. Full(m, w)' => Full(m, w)
  BY Zenon DEF Full
<1> HIDE DEF s, u
<1>4. Divided(events[m][w], totals[m][w], u, Full(m, w)')
  BY <1>1, <1>2, <1>3, DividedSame, ZenonT(30)
<1> QED
  BY <1>4, Zenon DEF u

LEMMA CountedDivision ==
  ASSUME Shapes, NEW m, Totals(m), Division(m), NEW i \in Replicas, NEW o,
         Counting(m, i, o, 1), o \in Counted(i, m), NEW w \in Times
  PROVE  Divided(events'[m][w], totals'[m][w],
                 [j \in Replicas |-> Share(tally'[j][m], w)], Full(m, w)')
<1> DEFINE ts == Open(tally[i][m])
           v == ts.start
           now == Truncate(clock)
           s == [j \in Replicas |-> Share(tally[j][m], w)]
           u == [j \in Replicas |-> Share(tally'[j][m], w)]
<1>1. /\ now \in Times /\ v \in Times /\ ts.cur \in Nat
      /\ \A x \in Times : Share(tally[i][m], x) = IF v = x THEN ts.cur ELSE 0
  BY OpenSound, OpenNow, Zenon
<1>2. /\ events'[m][now] = events[m][now] + 1
      /\ \A x \in Times : x # now => events'[m][x] = events[m][x]
  <2>1. events'[m] = Happened(m, 1)
    BY Zenon DEF Counting
  <2>2. 1 \in {0, 1}
    OBVIOUS
  <2> QED
    BY <2>1, <2>2, HappenedGrows, ZenonT(30)
<1>3. /\ events[m][w] \in Nat /\ totals[m] \in [Times -> Nat]
      /\ totals[m][w] \in Nat
  BY Zenon DEF Totals
<1>4. /\ tally'[i][m] = o.tally /\ \A j \in Replicas \ {i} : tally'[j][m] = tally[j][m]
      /\ totals'[m] = [totals[m] EXCEPT ![o.window] = o.total]
      /\ missed \subseteq missed' /\ (o.missed => <<m, o.window>> \in missed')
      /\ setup' = setup /\ clock' = clock
  BY Zenon DEF Counting
<1>5. Divided(events[m][w], totals[m][w], s, Full(m, w)) /\ s[i] = Share(tally[i][m], w)
  BY Zenon DEF Division
<1>6. \A j \in Replicas \ {i} : u[j] = s[j]
  BY <1>4, Zenon
<1>7. u[i] = Share(o.tally, w)
  BY <1>4, Zenon
<1>8. Full(m, w)' => Full(m, w)
  BY <1>4, Zenon DEF Full
<1>9. o.tally # None
  <2>1. Sound(o.tally, Happened(m, 1), clock)
    BY CountedOutcomes, CountedSound, Zenon
  <2>2. DOMAIN Happened(m, 1) = Times /\ Times \subseteq Nat
    <3>1. 1 \in {0, 1}
      OBVIOUS
    <3>2. Times \subseteq Nat
      BY OpenNow DEF Times
    <3> QED
      BY <3>1, <3>2, HappenedGrows, Zenon
  <2>3. o.tally \in [start : Times, cur : Nat, seen : Nat,
                     learned : Seq([window : Times, total : Nat])]
    BY <2>1, <2>2, Zenon DEF Sound
  <2>4. None \notin [start : Nat, cur : Nat, seen : Nat,
                     learned : Seq([window : Nat, total : Nat])]
    BY BaselinesAssumption, Zenon
  <2> DEFINE E == [window : Times, total : Nat]
             F == [window : Nat, total : Nat]
  <2>5. E \subseteq F
    <3> SUFFICES ASSUME NEW e \in E PROVE e \in F
      BY Zenon
    <3>1. e = [window |-> e.window, total |-> e.total] /\ e.window \in Times /\ e.total \in Nat
      OBVIOUS
    <3>2. e.window \in Nat
      BY <2>2, <3>1, Zenon
    <3> QED
      BY <3>1, <3>2
  <2> HIDE DEF E, F
  <2>6. Seq(E) \subseteq Seq(F)
    BY <2>5
  <2>7. o.tally \in [start : Times, cur : Nat, seen : Nat, learned : Seq(E)]
    BY <2>3, Zenon DEF E
  <2>8. o.tally \in [start : Nat, cur : Nat, seen : Nat, learned : Seq(F)]
    <3> DEFINE b == o.tally
    <3>1. b \in [start : Times, cur : Nat, seen : Nat, learned : Seq(E)]
      BY <2>7, Zenon
    <3> HIDE DEF b
    <3>2. /\ b = [start |-> b.start, cur |-> b.cur, seen |-> b.seen, learned |-> b.learned]
          /\ b.start \in Times /\ b.cur \in Nat /\ b.seen \in Nat /\ b.learned \in Seq(E)
      BY <3>1
    <3>3. b.start \in Nat /\ b.learned \in Seq(F)
      BY <2>2, <2>6, <3>2, Zenon
    <3>4. b \in [start : Nat, cur : Nat, seen : Nat, learned : Seq(F)]
      BY <3>2, <3>3
    <3> QED
      BY <3>4, Zenon DEF b
  <2> QED
    BY <2>4, <2>8, Zenon DEF F
<1>10. CASE Continues(o, m, ts)
  <2>1. v = now /\ o.window = now /\ o.total = totals[m][now]
        /\ o.tally = [start |-> now, cur |-> ts.cur + 1, seen |-> clock, learned |-> ts.learned]
    BY <1>10, Zenon DEF Continues
  <2>2. o.tally.start = now /\ o.tally.cur = ts.cur + 1
    <3> HIDE DEF now, ts
    <3> QED
      BY <2>1
  <2>3. totals'[m][w] = totals[m][w]
    BY <1>1, <1>3, <1>4, <2>1, Zenon
  <2>4. CASE w = now
    <3>1. u[i] = s[i] + 1
      BY <1>1, <1>5, <1>7, <1>9, <2>1, <2>2, <2>4, Zenon DEF Share
    <3> HIDE DEF s, u
    <3>2. Divided(events[m][w] + 1, totals[m][w], u, Full(m, w))
      BY <1>3, <1>5, <1>6, <3>1, DividedEvent, Zenon
    <3>3. Divided(events[m][w] + 1, totals[m][w], u, Full(m, w)')
      BY <1>8, <3>2, DividedSame, Zenon
    <3> QED
      BY <1>2, <2>3, <2>4, <3>3, Zenon DEF u
  <2>5. CASE w # now
    <3>1. Share(o.tally, w) = Share(tally[i][m], w)
      BY <1>1, <1>9, <2>1, <2>2, <2>5, Zenon DEF Share
    <3> QED
      BY <1>2, <1>4, <2>3, <2>5, <3>1, DivisionKept, Zenon
  <2> QED
    BY <2>4, <2>5, Zenon
<1>11. CASE Closes(o, m, ts)
  <2>1. v < now /\ o.window = v /\ o.total \in {totals[m][v], totals[m][v] + ts.cur}
        /\ o.missed = (o.total # totals[m][v] + ts.cur)
    BY <1>11, Zenon DEF Closes
  <2>2. o.tally.start = now /\ o.tally.cur = 1
    <3>1. PICK l : o.tally = [start |-> now, cur |-> 1, seen |-> clock, learned |-> l]
      BY <1>11, Zenon DEF Closes
    <3> HIDE DEF now
    <3> QED
      BY <3>1
  <2>3. v # now
    <3>1. v \in Nat /\ now \in Nat
      BY <1>1, OpenNow DEF Times
    <3> HIDE DEF v, now
    <3> QED
      BY <2>1, <3>1
  <2>4. totals'[m][v] = o.total /\ \A x \in Times : x # v => totals'[m][x] = totals[m][x]
    BY <1>1, <1>3, <1>4, <2>1, Zenon
  <2>5. CASE w = v
    <3>1. u[i] = 0 /\ s[i] = ts.cur
      BY <1>1, <1>5, <1>7, <2>2, <2>3, <2>5, Zenon DEF Share
    <3>2. events'[m][w] = events[m][w] /\ totals'[m][w] = o.total
      BY <1>2, <2>3, <2>4, <2>5, Zenon
    <3> HIDE DEF s, u
    <3>3. CASE o.total = totals[m][v] + ts.cur
      <4>1. Divided(events[m][w], totals[m][w] + s[i], u, Full(m, w))
        BY <1>3, <1>5, <1>6, <3>1, DividedAdded, Zenon
      <4>2. Divided(events[m][w], totals[m][w] + s[i], u, Full(m, w)')
        BY <1>8, <4>1, DividedSame, Zenon
      <4> QED
        BY <2>5, <3>1, <3>2, <3>3, <4>2, Zenon DEF u
    <3>4. CASE o.total # totals[m][v] + ts.cur
      <4>1. o.missed /\ o.total = totals[m][w]
        BY <2>1, <2>5, <3>4, Zenon
      <4>2. ~Full(m, w)'
        BY <1>4, <2>1, <2>5, <4>1, Zenon DEF Full
      <4>3. Divided(events[m][w], totals[m][w], u, Full(m, w)')
        BY <1>3, <1>5, <1>6, <3>1, <4>2, DividedLost, Zenon
      <4> QED
        BY <3>2, <4>1, <4>3, Zenon DEF u
    <3> QED
      BY <3>3, <3>4, Zenon
  <2>6. CASE w = now
    <3>1. u[i] = s[i] + 1
      <4>1. u[i] = 1 /\ s[i] = 0
        BY <1>1, <1>5, <1>7, <1>9, <2>2, <2>3, <2>6, Zenon DEF Share
      <4> QED
        BY <4>1
    <3> HIDE DEF s, u
    <3>2. Divided(events[m][w] + 1, totals[m][w], u, Full(m, w))
      BY <1>3, <1>5, <1>6, <3>1, DividedEvent, Zenon
    <3>3. Divided(events[m][w] + 1, totals[m][w], u, Full(m, w)')
      BY <1>8, <3>2, DividedSame, Zenon
    <3> QED
      BY <1>2, <2>3, <2>4, <2>6, <3>3, Zenon DEF u
  <2>7. CASE w # v /\ w # now
    <3>1. Share(o.tally, w) = Share(tally[i][m], w)
      BY <1>1, <2>2, <2>7, Zenon DEF Share
    <3> QED
      BY <1>2, <1>4, <2>4, <2>7, <3>1, DivisionKept, ZenonT(30)
  <2> QED
    BY <2>5, <2>6, <2>7, Zenon
<1> QED
  BY <1>10, <1>11, CountedOutcomes, Zenon

LEMMA UncountedDivision ==
  ASSUME Shapes, NEW m, Totals(m), Division(m), NEW i \in Replicas, NEW o, NEW n \in {0, 1},
         Counting(m, i, o, n), o \in NotCounted(i, m), m \in setup.enabled => n = 0
  PROVE  tally'[i][m] = tally[i][m] /\ totals'[m] = totals[m] /\ Division(m)'
<1> DEFINE now == Truncate(clock)
<1>1. o.tally = tally[i][m] /\ o.window = 0 /\ o.total = totals[m][0]
  BY DEF NotCounted
<1>2. 0 \in Times /\ now \in Times
  BY OpenNow, Zenon
<1>3. totals[m] \in [Times -> Nat] /\ events[m] \in [Times -> Nat]
  BY Zenon DEF Totals
<1>4. /\ tally'[i][m] = tally[i][m] /\ totals'[m] = totals[m]
      /\ \A j \in Replicas \ {i} : tally'[j][m] = tally[j][m]
      /\ missed \subseteq missed' /\ setup' = setup /\ events'[m] = Happened(m, n)
  <2>1. totals'[m] = [totals[m] EXCEPT ![0] = totals[m][0]] /\ tally'[i][m] = o.tally
    BY <1>1, Zenon DEF Counting
  <2>2. [totals[m] EXCEPT ![0] = totals[m][0]] = totals[m]
    BY <1>2, <1>3, Zenon
  <2> QED
    BY <1>1, <2>1, <2>2, Zenon DEF Counting
<1>5. /\ events'[m][now] = events[m][now] + n
      /\ \A x \in Times : x # now => events'[m][x] = events[m][x]
  <2> DEFINE ew == Happened(m, n)
  <2>1. ew[now] = events[m][now] + n /\ \A x \in Times : x # now => ew[x] = events[m][x]
    BY HappenedGrows, Zenon
  <2>2. events'[m] = ew
    BY <1>4, Zenon
  <2> HIDE DEF ew
  <2> QED
    BY <2>1, <2>2, Zenon
<1>6. ASSUME NEW w \in Times
      PROVE  Divided(events'[m][w], totals'[m][w],
                     [j \in Replicas |-> Share(tally'[j][m], w)], Full(m, w)')
  <2> DEFINE s == [j \in Replicas |-> Share(tally[j][m], w)]
             u == [j \in Replicas |-> Share(tally'[j][m], w)]
  <2>1. CASE w # now
    BY <1>4, <1>5, <2>1, DivisionKept, Zenon
  <2>2. CASE w = now
    <3>1. Divided(events[m][w], totals[m][w], s, Full(m, w))
      BY Zenon DEF Division
    <3>2. u = s
      BY <1>4, Zenon
    <3>3. Full(m, w)' => Full(m, w) /\ n = 0
      BY <1>4, Zenon DEF Full
    <3>4. events[m][w] \in Nat /\ n \in Nat
      <4>1. n \in Nat
        OBVIOUS
      <4> QED
        BY <1>3, <4>1, Zenon
    <3> HIDE DEF s, u
    <3>5. Divided(events[m][w] + n, totals[m][w], s, Full(m, w)')
      BY <3>1, <3>3, <3>4, DividedIgnored, Zenon
    <3> QED
      BY <1>4, <1>5, <2>2, <3>2, <3>5, Zenon DEF u
  <2> QED
    BY <2>1, <2>2, Zenon
<1>7. Times' = Times
  BY <1>4, Zenon DEF Times
<1>8. Division(m)'
  BY <1>6, <1>7, Zenon DEF Division
<1> QED
  BY <1>4, <1>8, Zenon

LEMMA MetricCounted ==
  ASSUME Shapes, NEW m, Totals(m), Division(m), NEW i \in Replicas, i \in up,
         NEW o, NEW n \in {0, 1}, Counting(m, i, o, n)
  PROVE  Totals(m)' /\ Division(m)'
<1> DEFINE ev == events[m]
           ew == Happened(m, n)
           now == Truncate(clock)
<1>1. clock \in Nat /\ now \in Nat /\ now <= now /\ clock <= clock /\ Times \subseteq Nat
  <2>1. clock \in Nat /\ Times \subseteq Nat
    BY OpenNow DEF Times
  <2>2. now \in Nat
    BY <2>1, TruncateForm, Zenon
  <2> HIDE DEF now
  <2> QED
    BY <2>1, <2>2
<1>2. /\ \A j \in Replicas \ {i} : tally'[j][m] = tally[j][m]
      /\ events'[m] = ew /\ setup' = setup /\ clock' = clock /\ up' = up
      /\ saved' = saved /\ gc' = gc
  BY Zenon DEF Counting
<1>3. /\ ev \in [Times -> Nat] /\ ew \in [Times -> Nat] /\ ew[0] = 0
      /\ \A w \in Times : ev[w] <= ew[w]
  BY HappenedGrows, Zenon
<1>4. Times' = Times /\ Truncate(clock)' = now
  BY <1>2, Zenon DEF Times, Truncate
<1>5. totals'[m] \in [Times -> Nat] /\ Division(m)'
      /\ (tally'[i][m] # None => Sound(tally'[i][m], ew, clock))
  <2>1. CASE n = 1 /\ o \in Counted(i, m)
    <3>1. Division(m)'
      <4>1. \A w \in Times : Divided(events'[m][w], totals'[m][w],
                               [j \in Replicas |-> Share(tally'[j][m], w)], Full(m, w)')
        BY <2>1, CountedDivision, Zenon
      <4> QED
        BY <1>4, <4>1, Zenon DEF Division
    <3>2. Sound(o.tally, ew, clock)
      BY <2>1, CountedOutcomes, CountedSound, Zenon
    <3>3. tally'[i][m] = o.tally /\ totals'[m] = [totals[m] EXCEPT ![o.window] = o.total]
      BY Zenon DEF Counting
    <3>4. o.total \in Nat
      <4> DEFINE ts == Open(tally[i][m])
      <4>1. o.total \in {totals[m][ts.start], totals[m][ts.start] + ts.cur}
        BY <2>1, CountedOutcomes, Zenon DEF Continues, Closes
      <4>2. ts.start \in Times /\ ts.cur \in Nat
        BY OpenSound, Zenon
      <4>3. totals[m][ts.start] \in Nat
        BY <4>2, Zenon DEF Totals
      <4> HIDE DEF ts
      <4> QED
        BY <4>1, <4>2, <4>3
    <3>5. totals'[m] \in [Times -> Nat]
      <4>1. totals[m] \in [Times -> Nat]
        BY Zenon DEF Totals
      <4> QED
        BY <3>3, <3>4, <4>1, Zenon
    <3> QED
      BY <3>1, <3>2, <3>3, <3>5, Zenon
  <2>2. CASE (m \in setup.enabled => n = 0) /\ o \in NotCounted(i, m)
    <3>1. tally'[i][m] = tally[i][m] /\ totals'[m] = totals[m] /\ Division(m)'
      BY <2>2, UncountedDivision, Zenon
    <3>2. tally[i][m] # None => Sound(tally[i][m], ev, clock)
      BY Zenon DEF Totals
    <3>3. tally[i][m] # None => Sound(tally[i][m], ew, clock)
      <4> HIDE DEF ev, ew
      <4> QED
        BY <1>1, <1>3, <3>2, SoundKept, Zenon
    <3>4. totals[m] \in [Times -> Nat]
      BY Zenon DEF Totals
    <3> QED
      BY <3>1, <3>3, <3>4, Zenon
  <2> QED
    BY <2>1, <2>2, Zenon DEF Counting
<1>6. ASSUME NEW j \in Replicas
      PROVE  /\ tally'[j][m] # None => j \in up /\ Sound(tally'[j][m], ew, clock)
             /\ saved[j][m] # None => Faithful(saved[j][m], ew, now)
             /\ m \in DOMAIN gc[j].learned => Faithful(gc[j].learned[m], ew, now)
  <2>1. /\ tally[j][m] # None => j \in up /\ Sound(tally[j][m], ev, clock)
        /\ saved[j][m] # None => Faithful(saved[j][m], ev, now)
        /\ m \in DOMAIN gc[j].learned => Faithful(gc[j].learned[m], ev, now)
    BY Zenon DEF Totals
  <2> HIDE DEF ev, ew, now
  <2>2. saved[j][m] # None => Faithful(saved[j][m], ew, now)
    BY <1>1, <1>3, <2>1, FaithfulKept, Zenon
  <2>3. m \in DOMAIN gc[j].learned => Faithful(gc[j].learned[m], ew, now)
    <3> DEFINE l == gc[j].learned[m]
    <3> SUFFICES ASSUME m \in DOMAIN gc[j].learned PROVE Faithful(l, ew, now)
      BY Zenon
    <3>1. Faithful(l, ev, now)
      BY <2>1, Zenon
    <3> HIDE DEF l
    <3> QED
      BY <1>1, <1>3, <3>1, FaithfulKept, Zenon
  <2>4. tally[j][m] # None => j \in up /\ Sound(tally[j][m], ew, clock)
    BY <1>1, <1>3, <2>1, SoundKept, Zenon
  <2>5. tally'[j][m] # None => j \in up /\ Sound(tally'[j][m], ew, clock)
    <3>1. CASE j = i
      BY <1>5, <3>1, Zenon
    <3>2. CASE j # i
      <4>1. tally'[j][m] = tally[j][m]
        BY <1>2, <3>2, Zenon
      <4> QED
        BY <2>4, <4>1, Zenon
    <3> QED
      BY <3>1, <3>2, Zenon
  <2> QED
    BY <2>2, <2>3, <2>5, Zenon
<1>7. Totals(m)'
  <2> HIDE DEF ew
  <2> QED
    BY <1>2, <1>3, <1>4, <1>5, <1>6, Zenon DEF Totals
<1> QED
  BY <1>5, <1>7, Zenon

(***************************************************************************)
(* A call.                                                                 *)
(***************************************************************************)
LEMMA PublishCounts ==
  ASSUME CountInv, NEW i \in Replicas, NEW k \in Identities, Publish(i, k)
  PROVE  Shapes' /\ \A m \in Metrics : (Totals(m) /\ Division(m))'
<1> DEFINE isNew == state[i][k] = None
           N(m) == IF m = "tenant" THEN 1 ELSE IF isNew THEN 1 ELSE 0
           Out(t, c) == [tenant |-> t, churn |-> c]
<1>1. i \in up /\ UNCHANGED <<setup, clock, up, saved, gc>>
  BY Zenon DEF Publish
<1>2. events' = [tenant |-> Happened("tenant", 1),
                 churn |-> Happened("churn", IF isNew THEN 1 ELSE 0)]
  BY Zenon DEF Publish
<1>3. PICK t \in checkTenantDrift(i), c \in checkIdentityChurn(i, isNew) :
        /\ tally' = [tally EXCEPT ![i] = [m \in Metrics |-> Out(t, c)[m].tally]]
        /\ totals' = [m \in Metrics |->
             [totals[m] EXCEPT ![Out(t, c)[m].window] = Out(t, c)[m].total]]
        /\ missed' = missed \union
             {<<m, Out(t, c)[m].window>> : m \in {x \in Metrics : Out(t, c)[x].missed}}
  BY ZenonT(30) DEF Publish
<1> DEFINE out == Out(t, c)
<1>4. out["tenant"] = t /\ out["churn"] = c
  OBVIOUS
<1>5. Shapes /\ Metrics = {"tenant", "churn"}
  BY Zenon DEF CountInv, Metrics
<1>6. events'["tenant"] = Happened("tenant", 1)
      /\ events'["churn"] = Happened("churn", IF isNew THEN 1 ELSE 0)
  <2> HIDE DEF isNew
  <2> QED
    BY <1>2
<1> HIDE DEF Out, out
<1>7. ASSUME NEW m \in Metrics
      PROVE  Counting(m, i, out[m], N(m)) /\ N(m) \in {0, 1}
  <2>1. N(m) \in {0, 1}
    BY Zenon
  <2>2. tally'[i][m] = out[m].tally /\ \A j \in Replicas \ {i} : tally'[j][m] = tally[j][m]
    BY <1>3, <1>5, Zenon DEF Shapes, out
  <2>3. totals'[m] = [totals[m] EXCEPT ![out[m].window] = out[m].total]
    BY <1>3, Zenon DEF out
  <2>4. missed \subseteq missed' /\ (out[m].missed => <<m, out[m].window>> \in missed')
    BY <1>3, Zenon DEF out
  <2>5. CASE m = "tenant"
    <3>1. N(m) = 1 /\ events'[m] = Happened(m, N(m))
      BY <1>6, <2>5, Zenon
    <3>2. \/ out[m] \in Counted(i, m)
          \/ m \notin setup.enabled /\ out[m] \in NotCounted(i, m)
      BY <1>4, <2>5, Zenon DEF checkTenantDrift
    <3> HIDE DEF N
    <3> QED
      BY <1>1, <2>1, <2>2, <2>3, <2>4, <3>1, <3>2, Zenon DEF Counting
  <2>6. CASE m = "churn"
    <3>1. N(m) = (IF isNew THEN 1 ELSE 0) /\ events'[m] = Happened(m, N(m))
      <4>1. "churn" # "tenant"
        OBVIOUS
      <4> QED
        BY <1>6, <2>6, <4>1, Zenon
    <3>2. \/ isNew /\ out[m] \in Counted(i, m)
          \/ (m \notin setup.enabled \/ ~isNew) /\ out[m] \in NotCounted(i, m)
      BY <1>4, <2>6, Zenon DEF checkIdentityChurn
    <3>3. \/ N(m) = 1 /\ out[m] \in Counted(i, m)
          \/ (m \in setup.enabled => N(m) = 0) /\ out[m] \in NotCounted(i, m)
      BY <3>1, <3>2, Zenon
    <3> HIDE DEF N
    <3> QED
      BY <1>1, <2>1, <2>2, <2>3, <2>4, <3>1, <3>3, Zenon DEF Counting
  <2> QED
    BY <1>5, <2>5, <2>6, Zenon
<1>8. \A m \in Metrics : (Totals(m) /\ Division(m))'
  <2> SUFFICES ASSUME NEW m \in Metrics PROVE Totals(m)' /\ Division(m)'
    BY Zenon
  <2>1. Totals(m) /\ Division(m)
    BY Zenon DEF CountInv
  <2>2. Counting(m, i, out[m], N(m)) /\ N(m) \in {0, 1}
    BY <1>7, Zenon
  <2> HIDE DEF N
  <2> QED
    BY <1>1, <1>5, <2>1, <2>2, MetricCounted, Zenon
<1>9. Shapes'
  <2>1. DOMAIN tally' = Replicas /\ \A j \in Replicas : DOMAIN tally'[j] = Metrics
    BY <1>3, <1>5, Zenon DEF Shapes
  <2>2. Times' = Times
    BY <1>1, Zenon DEF Times
  <2> QED
    BY <1>1, <1>5, <2>1, <2>2, Zenon DEF Shapes
<1> QED
  BY <1>8, <1>9, Zenon

(***************************************************************************)
(* The steps in which nothing is counted: a replica keeps its window,      *)
(* loses it or restores a baseline; a row is saved from the collector's    *)
(* snapshot, and the snapshot is taken from the windows.                   *)
(***************************************************************************)
Restored(i, m) ==
  /\ tally[i][m] = None /\ saved[i][m] # None
  /\ tally'[i][m] = [start |-> 0, cur |-> 0, seen |-> 0, learned |-> saved[i][m]]

Lost(i, m) ==
  /\ tally'[i][m] = None
  /\ tally[i][m] # None /\ tally[i][m].cur > 0 => <<m, tally[i][m].start>> \in missed'

Moved(i) ==
  /\ UNCHANGED <<setup, clock, totals, events>> /\ missed \subseteq missed'
  /\ up' \subseteq Replicas
  /\ DOMAIN tally' = Replicas /\ \A j \in Replicas : DOMAIN tally'[j] = Metrics
  /\ DOMAIN saved' = Replicas /\ \A j \in Replicas : DOMAIN saved'[j] = Metrics
  /\ \A j \in Replicas \ {i} : tally'[j] = tally[j] /\ (j \in up => j \in up')
  /\ \A m \in Metrics :
       \/ tally'[i][m] = tally[i][m] /\ (i \in up => i \in up')
       \/ Lost(i, m)
       \/ Restored(i, m) /\ i \in up'
  /\ \A j \in Replicas, m \in Metrics :
       /\ \/ saved'[j][m] = saved[j][m]
          \/ m \in DOMAIN gc[j].learned /\ saved'[j][m] = gc[j].learned[m]
       /\ m \in DOMAIN gc'[j].learned =>
            \/ m \in DOMAIN gc[j].learned /\ gc'[j].learned[m] = gc[j].learned[m]
            \/ tally[j][m] # None /\ gc'[j].learned[m] = tally[j][m].learned

LEMMA RestoredSound ==
  ASSUME Shapes, NEW m, Totals(m), NEW l, Faithful(l, events[m], Truncate(clock))
  PROVE  Sound([start |-> 0, cur |-> 0, seen |-> 0, learned |-> l], events[m], clock)
<1> DEFINE b == [start |-> 0, cur |-> 0, seen |-> 0, learned |-> l]
           L == Seq([window : Times, total : Nat])
<1>1. DOMAIN events[m] = Times
  BY Zenon DEF Totals
<1>2. 0 \in Times /\ clock \in Nat
  BY OpenNow, Zenon
<1>3. l \in L
  BY <1>1, Zenon DEF Faithful
<1> HIDE DEF L
<1>4. b \in [start : Times, cur : Nat, seen : Nat, learned : L] /\ b.start = 0 /\ b.learned = l
  BY <1>2, <1>3
<1>5. Truncate(0) = 0 /\ 0 <= clock
  <2>1. Truncate(0) \in Nat /\ Truncate(0) <= 0
    BY TruncateForm
  <2> QED
    BY <1>2, <2>1
<1> HIDE DEF b
<1>6. Sound(b, events[m], clock)
  BY <1>1, <1>4, <1>5, Zenon DEF Sound, L
<1> QED
  BY <1>6, Zenon DEF b

LEMMA MovedTotals ==
  ASSUME CountInv, NEW i \in Replicas, Moved(i), NEW m \in Metrics
  PROVE  Totals(m)'
<1> DEFINE ev == events[m]
           now == Truncate(clock)
<1>1. Shapes /\ Totals(m)
  BY Zenon DEF CountInv
<1>2. setup' = setup /\ clock' = clock /\ totals' = totals /\ events' = events
  BY Zenon DEF Moved
<1>3. Times' = Times /\ Truncate(clock)' = now
  BY <1>2, Zenon DEF Times, Truncate
<1>4. ASSUME NEW j \in Replicas
      PROVE  /\ tally'[j][m] # None => j \in up' /\ Sound(tally'[j][m], ev, clock)
             /\ saved'[j][m] # None => Faithful(saved'[j][m], ev, now)
             /\ m \in DOMAIN gc'[j].learned => Faithful(gc'[j].learned[m], ev, now)
  <2>1. /\ tally[j][m] # None => j \in up /\ Sound(tally[j][m], ev, clock)
        /\ saved[j][m] # None => Faithful(saved[j][m], ev, now)
        /\ m \in DOMAIN gc[j].learned => Faithful(gc[j].learned[m], ev, now)
    BY <1>1, Zenon DEF Totals
  <2>2. tally[j][m] # None => Faithful(tally[j][m].learned, ev, now)
    BY <2>1, Zenon DEF Sound
  <2>3. saved'[j][m] # None => Faithful(saved'[j][m], ev, now)
    <3>1. \/ saved'[j][m] = saved[j][m]
          \/ m \in DOMAIN gc[j].learned /\ saved'[j][m] = gc[j].learned[m]
      BY Zenon DEF Moved
    <3> HIDE DEF ev, now
    <3> QED
      BY <2>1, <3>1, Zenon
  <2>4. m \in DOMAIN gc'[j].learned => Faithful(gc'[j].learned[m], ev, now)
    <3>1. m \in DOMAIN gc'[j].learned =>
            \/ m \in DOMAIN gc[j].learned /\ gc'[j].learned[m] = gc[j].learned[m]
            \/ tally[j][m] # None /\ gc'[j].learned[m] = tally[j][m].learned
      BY Zenon DEF Moved
    <3> HIDE DEF ev, now
    <3> QED
      BY <2>1, <2>2, <3>1, Zenon
  <2>5. tally'[j][m] # None => j \in up' /\ Sound(tally'[j][m], ev, clock)
    <3>1. CASE j # i
      <4>1. tally'[j] = tally[j] /\ (j \in up => j \in up')
        BY <3>1, Zenon DEF Moved
      <4> QED
        BY <2>1, <4>1, Zenon
    <3>2. CASE j = i
      <4>1. \/ tally'[j][m] = tally[j][m] /\ (j \in up => j \in up')
            \/ tally'[j][m] = None
            \/ Restored(j, m) /\ j \in up'
        BY <3>2, Zenon DEF Moved, Lost
      <4>2. CASE Restored(j, m) /\ j \in up'
        <5>1. Faithful(saved[j][m], ev, now)
          BY <2>1, <4>2, Zenon DEF Restored
        <5>2. Sound([start |-> 0, cur |-> 0, seen |-> 0, learned |-> saved[j][m]], ev, clock)
          BY <1>1, <5>1, RestoredSound, Zenon
        <5> QED
          BY <4>2, <5>2, Zenon DEF Restored
      <4> QED
        BY <2>1, <4>1, <4>2, Zenon
    <3> QED
      BY <3>1, <3>2, Zenon
  <2> QED
    BY <2>3, <2>4, <2>5, Zenon
<1> QED
  BY <1>1, <1>2, <1>3, <1>4, Zenon DEF Totals

LEMMA MovedDivision ==
  ASSUME CountInv, NEW i \in Replicas, Moved(i), NEW m \in Metrics
  PROVE  Division(m)'
<1>1. Shapes /\ Totals(m) /\ Division(m)
  BY Zenon DEF CountInv
<1>2. /\ setup' = setup /\ totals' = totals /\ events' = events /\ missed \subseteq missed'
      /\ \A j \in Replicas \ {i} : tally'[j][m] = tally[j][m]
  BY Zenon DEF Moved
<1>3. Times' = Times
  BY <1>2, Zenon DEF Times
<1>4. ASSUME NEW w \in Times
      PROVE  Divided(events'[m][w], totals'[m][w],
                     [j \in Replicas |-> Share(tally'[j][m], w)], Full(m, w)')
  <2> DEFINE s == [j \in Replicas |-> Share(tally[j][m], w)]
             u == [j \in Replicas |-> Share(tally'[j][m], w)]
  <2>1. CASE tally'[i][m] = tally[i][m]
    BY <1>1, <1>2, <2>1, DivisionKept, Zenon
  <2>2. CASE Restored(i, m)
    <3>1. Share(tally[i][m], w) = 0
      BY <2>2, Zenon DEF Share, Restored
    <3>2. tally'[i][m].cur = 0
      <4>1. tally'[i][m] = [start |-> 0, cur |-> 0, seen |-> 0, learned |-> saved[i][m]]
        BY <2>2, Zenon DEF Restored
      <4> QED
        BY <4>1
    <3>3. Share(tally'[i][m], w) = 0
      BY <3>2, Zenon DEF Share
    <3> QED
      BY <1>1, <1>2, <3>1, <3>3, DivisionKept, Zenon
  <2>3. CASE Lost(i, m)
    <3>1. u[i] = 0 /\ \A j \in Replicas \ {i} : u[j] = s[j]
      BY <1>2, <2>3, Zenon DEF Share, Lost
    <3>2. Divided(events[m][w], totals[m][w], s, Full(m, w)) /\ events[m][w] \in Nat
      BY <1>1, Zenon DEF Division, Totals
    <3>3. s[i] = Share(tally[i][m], w)
      BY Zenon
    <3> HIDE DEF s, u
    <3>4. ASSUME Full(m, w)' PROVE Full(m, w) /\ s[i] = 0
      <4>1. Full(m, w) /\ <<m, w>> \notin missed'
        BY <1>2, <3>4, Zenon DEF Full
      <4>2. CASE tally[i][m] # None /\ tally[i][m].start = w
        <5>1. s[i] = tally[i][m].cur /\ ~(tally[i][m].cur > 0)
          BY <2>3, <3>3, <4>1, <4>2, Zenon DEF Share, Lost
        <5>2. Open(tally[i][m]) = tally[i][m]
          BY <4>2, Zenon DEF Open
        <5>3. tally[i][m].cur \in Nat
          BY <1>1, <5>2, OpenSound, Zenon
        <5>4. s[i] = 0
          <6> DEFINE c == tally[i][m].cur
          <6>1. c \in Nat /\ s[i] = c /\ ~(c > 0)
            BY <5>1, <5>3, Zenon
          <6> HIDE DEF c
          <6> QED
            BY <6>1
        <5> QED
          BY <4>1, <5>4, Zenon
      <4>3. CASE ~(tally[i][m] # None /\ tally[i][m].start = w)
        BY <3>3, <4>1, <4>3, Zenon DEF Share
      <4> QED
        BY <4>2, <4>3, Zenon
    <3>5. Divided(events[m][w], totals[m][w], u, Full(m, w)')
      BY <3>1, <3>2, <3>4, DividedLost, Zenon
    <3> QED
      BY <1>2, <3>5, Zenon DEF u
  <2> QED
    BY <2>1, <2>2, <2>3, Zenon DEF Moved
<1> QED
  BY <1>3, <1>4, Zenon DEF Division

LEMMA MovedCounts ==
  ASSUME CountInv, NEW i \in Replicas, Moved(i)
  PROVE  Shapes' /\ \A m \in Metrics : (Totals(m) /\ Division(m))'
<1>1. Shapes'
  <2>1. Times' = Times
    BY Zenon DEF Moved, Times
  <2> QED
    BY <2>1, Zenon DEF CountInv, Shapes, Moved
<1> QED
  BY <1>1, MovedTotals, MovedDivision, Zenon

LEMMA GcTickMoves ==
  ASSUME CountInv, NEW i \in Replicas, GcTick(i)
  PROVE  Moved(i)
<1> DEFINE quiet == {m \in Metrics : Idle(tally[i][m])}
           heard == {m \in Metrics : tally[i][m] # None} \ quiet
<1>1. Shapes /\ DOMAIN gc = Replicas
  BY Zenon DEF CountInv, Inv, Types
<1>2. /\ UNCHANGED <<setup, clock, up, saved, totals, events>>
      /\ tally' = [tally EXCEPT ![i] = [m \in Metrics |-> IF m \in quiet THEN None ELSE @[m]]]
      /\ missed' = missed \union OpenWindows(i, quiet)
  BY Zenon DEF GcTick
<1>3. PICK d, s : gc' = [gc EXCEPT ![i] =
        IF setup.postgres
        THEN [pc |-> SaveAllOrder[1], deleted |-> d, toSave |-> s,
              learned |-> [m \in heard |-> tally[i][m].learned]]
        ELSE Resting]
  BY Zenon DEF GcTick
<1>4. /\ \A j \in Replicas \ {i} : gc'[j] = gc[j]
      /\ \/ gc'[i].learned = [m \in heard |-> tally[i][m].learned]
         \/ gc'[i].learned = << >>
  <2>1. \A j \in Replicas \ {i} : gc'[j] = gc[j]
    BY <1>1, <1>3, Zenon
  <2> HIDE DEF heard
  <2>2. gc'[i] = IF setup.postgres
                 THEN [pc |-> SaveAllOrder[1], deleted |-> d, toSave |-> s,
                       learned |-> [m \in heard |-> tally[i][m].learned]]
                 ELSE Resting
    BY <1>1, <1>3, Zenon
  <2> QED
    BY <2>1, <2>2 DEF Resting
<1>5. \A j \in Replicas : DOMAIN tally'[j] = Metrics
  BY <1>1, <1>2, Zenon DEF Shapes
<1>6. /\ DOMAIN tally' = Replicas
      /\ \A j \in Replicas \ {i} : tally'[j] = tally[j]
      /\ \A m \in Metrics : tally'[i][m] = IF m \in quiet THEN None ELSE tally[i][m]
  BY <1>1, <1>2, Zenon DEF Shapes
<1>7. ASSUME NEW m \in Metrics
      PROVE  tally'[i][m] = tally[i][m] \/ Lost(i, m)
  <2>1. CASE m \in quiet
    <3>1. tally[i][m] # None /\ tally[i][m].cur > 0 =>
            <<m, tally[i][m].start>> \in OpenWindows(i, quiet)
      BY <2>1, Zenon DEF OpenWindows
    <3> QED
      BY <1>2, <1>6, <2>1, <3>1, Zenon DEF Lost
  <2> QED
    BY <1>6, <2>1, Zenon
<1>8. ASSUME NEW j \in Replicas, NEW m \in DOMAIN gc'[j].learned
      PROVE  \/ m \in DOMAIN gc[j].learned /\ gc'[j].learned[m] = gc[j].learned[m]
             \/ tally[j][m] # None /\ gc'[j].learned[m] = tally[j][m].learned
  <2>1. CASE j # i
    BY <1>4, <1>8, <2>1, Zenon
  <2>2. CASE j = i /\ gc'[i].learned = [x \in heard |-> tally[i][x].learned]
    <3>1. m \in heard /\ gc'[i].learned[m] = tally[i][m].learned
      BY <1>8, <2>2, Zenon
    <3> QED
      BY <2>2, <3>1, Zenon
  <2>3. CASE j = i /\ gc'[i].learned = << >>
    <3>1. DOMAIN << >> = {}
      OBVIOUS
    <3> QED
      BY <1>8, <2>3, <3>1, Zenon
  <2> QED
    BY <1>4, <2>1, <2>2, <2>3, Zenon
<1>9. /\ up' \subseteq Replicas /\ up' = up
      /\ DOMAIN saved' = Replicas /\ \A j \in Replicas : DOMAIN saved'[j] = Metrics
  BY <1>1, <1>2, Zenon DEF Shapes
<1>10. UNCHANGED <<setup, clock, saved, totals, events>> /\ missed \subseteq missed'
  BY <1>2, Zenon
<1>11. DOMAIN tally' = Replicas /\ \A j \in Replicas \ {i} : tally'[j] = tally[j]
  BY <1>6, Zenon
<1> HIDE DEF quiet, heard
<1> QED
  BY <1>5, <1>7, <1>8, <1>9, <1>10, <1>11, ZenonT(30) DEF Moved

\* A step of the collector: only its program counter and the rows change.
LEMMA CollectorMoves ==
  ASSUME CountInv, NEW i \in Replicas,
         UNCHANGED <<setup, clock, up, tally, totals, events, missed>>,
         NEW x, \/ gc' = [gc EXCEPT ![i].pc = x]
                \/ gc' = [gc EXCEPT ![i] = Resting],
         \/ saved' = saved
         \/ \E m \in Metrics : /\ m \in DOMAIN gc[i].learned
                               /\ saved' = [saved EXCEPT ![i][m] = gc[i].learned[m]]
  PROVE  Moved(i)
<1>1. Shapes /\ DOMAIN gc = Replicas /\ \A j \in Replicas : Collection(gc[j])
  BY Zenon DEF CountInv, Inv, Types
<1>2. /\ \A j \in Replicas \ {i} : gc'[j] = gc[j]
      /\ gc'[i].learned \in {gc[i].learned, << >>}
  <2>1. CASE gc' = [gc EXCEPT ![i].pc = x]
    <3>1. gc'[i] = [gc[i] EXCEPT !.pc = x] /\ \A j \in Replicas \ {i} : gc'[j] = gc[j]
      BY <1>1, <2>1, Zenon
    <3>2. gc[i] = [pc |-> gc[i].pc, deleted |-> gc[i].deleted,
                   toSave |-> gc[i].toSave, learned |-> gc[i].learned]
      BY <1>1, Zenon DEF Collection
    <3>3. gc'[i].learned = gc[i].learned
      BY <3>1, <3>2
    <3> QED
      BY <3>1, <3>3, Zenon
  <2>2. CASE gc' = [gc EXCEPT ![i] = Resting]
    <3>1. gc'[i] = Resting /\ \A j \in Replicas \ {i} : gc'[j] = gc[j]
      BY <1>1, <2>2, Zenon
    <3>2. Resting.learned = << >>
      BY DEF Resting
    <3> QED
      BY <3>1, <3>2, Zenon
  <2> QED
    BY <2>1, <2>2, Zenon
<1>3. ASSUME NEW j \in Replicas, NEW m \in Metrics, m \in DOMAIN gc'[j].learned
      PROVE  m \in DOMAIN gc[j].learned /\ gc'[j].learned[m] = gc[j].learned[m]
  <2>1. DOMAIN << >> = {}
    OBVIOUS
  <2> QED
    BY <1>2, <1>3, <2>1, Zenon
<1> DEFINE Saves ==
             /\ DOMAIN saved' = Replicas /\ \A j \in Replicas : DOMAIN saved'[j] = Metrics
             /\ \A j \in Replicas, m \in Metrics :
                  \/ saved'[j][m] = saved[j][m]
                  \/ m \in DOMAIN gc[j].learned /\ saved'[j][m] = gc[j].learned[m]
<1>4. Saves
  <2>1. CASE saved' = saved
    BY <1>1, <2>1, Zenon DEF Shapes
  <2>2. ASSUME NEW m \in Metrics, m \in DOMAIN gc[i].learned,
               saved' = [saved EXCEPT ![i][m] = gc[i].learned[m]]
        PROVE  Saves
    <3> DEFINE r == [saved[i] EXCEPT ![m] = gc[i].learned[m]]
    <3>1. DOMAIN saved = Replicas /\ \A j \in Replicas : DOMAIN saved[j] = Metrics
      BY <1>1, Zenon DEF Shapes
    <3>2. saved'[i] = r /\ \A j \in Replicas \ {i} : saved'[j] = saved[j]
      BY <2>2, <3>1, Zenon
    <3>3. DOMAIN r = Metrics /\ r[m] = gc[i].learned[m]
          /\ \A k \in Metrics \ {m} : r[k] = saved[i][k]
      BY <2>2, <3>1, Zenon
    <3>4. DOMAIN saved' = Replicas
      BY <2>2, <3>1, Zenon
    <3> HIDE DEF r
    <3> QED
      BY <2>2, <3>1, <3>2, <3>3, <3>4, ZenonT(30)
  <2> QED
    BY <2>1, <2>2, Zenon
<1>5. /\ up' \subseteq Replicas
      /\ DOMAIN tally' = Replicas /\ \A j \in Replicas : DOMAIN tally'[j] = Metrics
  BY <1>1, Zenon DEF Shapes
<1> QED
  BY <1>3, <1>4, <1>5, ZenonT(30) DEF Moved

LEMMA CrashMoves ==
  ASSUME CountInv, NEW i \in Replicas, Crash(i)
  PROVE  Moved(i)
<1>1. Shapes /\ DOMAIN gc = Replicas
  BY Zenon DEF CountInv, Inv, Types
<1>2. /\ UNCHANGED <<setup, clock, saved, totals, events>>
      /\ up' = up \ {i}
      /\ tally' = [tally EXCEPT ![i] = [m \in Metrics |-> None]]
      /\ gc' = [gc EXCEPT ![i] = Resting]
      /\ missed' = missed \union OpenWindows(i, Metrics)
  BY Zenon DEF Crash
<1>3. /\ DOMAIN tally' = Replicas /\ \A j \in Replicas : DOMAIN tally'[j] = Metrics
      /\ \A j \in Replicas \ {i} : tally'[j] = tally[j]
      /\ \A m \in Metrics : tally'[i][m] = None
  BY <1>1, <1>2, Zenon DEF Shapes
<1>4. \A m \in Metrics : Lost(i, m)
  <2> SUFFICES ASSUME NEW m \in Metrics PROVE Lost(i, m)
    OBVIOUS
  <2>1. tally[i][m] # None /\ tally[i][m].cur > 0 =>
          <<m, tally[i][m].start>> \in OpenWindows(i, Metrics)
    BY Zenon DEF OpenWindows
  <2> QED
    BY <1>2, <1>3, <2>1, Zenon DEF Lost
<1>5. ASSUME NEW j \in Replicas, NEW m \in Metrics, m \in DOMAIN gc'[j].learned
      PROVE  m \in DOMAIN gc[j].learned /\ gc'[j].learned[m] = gc[j].learned[m]
  <2>1. gc'[i] = Resting /\ \A k \in Replicas \ {i} : gc'[k] = gc[k]
    BY <1>1, <1>2, Zenon
  <2>2. DOMAIN Resting.learned = {}
    BY DEF Resting
  <2> QED
    BY <1>5, <2>1, <2>2, Zenon
<1>6. /\ up' \subseteq Replicas /\ \A j \in Replicas \ {i} : j \in up => j \in up'
      /\ DOMAIN saved' = Replicas /\ \A j \in Replicas : DOMAIN saved'[j] = Metrics
  BY <1>1, <1>2, Zenon DEF Shapes
<1>7. UNCHANGED <<setup, clock, saved, totals, events>> /\ missed \subseteq missed'
  BY <1>2, Zenon
<1> QED
  BY <1>3, <1>4, <1>5, <1>6, <1>7, Zenon DEF Moved

LEMMA StartMoves ==
  ASSUME CountInv, NEW i \in Replicas, Start(i)
  PROVE  Moved(i)
<1>1. Shapes /\ \A m \in Metrics : Totals(m)
  BY Zenon DEF CountInv
<1>2. /\ UNCHANGED <<setup, clock, saved, totals, gc, events, missed>>
      /\ i \notin up /\ up' = up \union {i}
      /\ tally' = [tally EXCEPT ![i] = [tenant |-> LoadTally(i, "tenant"),
                                        churn |-> LoadTally(i, "churn")]]
  BY Zenon DEF Start, LoadTenantBaselines, LoadChurnBaselines
<1>3. DOMAIN tally' = Replicas /\ \A j \in Replicas \ {i} : tally'[j] = tally[j]
  BY <1>1, <1>2, Zenon DEF Shapes
<1>4. tally'[i] = [tenant |-> LoadTally(i, "tenant"), churn |-> LoadTally(i, "churn")]
  BY <1>1, <1>2, Zenon DEF Shapes
<1>5. DOMAIN tally'[i] = Metrics /\ \A m \in Metrics : tally'[i][m] = LoadTally(i, m)
  BY <1>4 DEF Metrics
<1>6. \A m \in Metrics : tally'[i][m] = tally[i][m] \/ Restored(i, m)
  <2> SUFFICES ASSUME NEW m \in Metrics PROVE tally'[i][m] = tally[i][m] \/ Restored(i, m)
    OBVIOUS
  <2>1. tally[i][m] = None
    BY <1>1, <1>2, Zenon DEF Totals
  <2> QED
    BY <1>5, <2>1, Zenon DEF LoadTally, Restored
<1>7. /\ up' \subseteq Replicas /\ i \in up' /\ \A j \in Replicas : j \in up => j \in up'
      /\ \A j \in Replicas : DOMAIN tally'[j] = Metrics
      /\ DOMAIN saved' = Replicas /\ \A j \in Replicas : DOMAIN saved'[j] = Metrics
  BY <1>1, <1>2, <1>3, <1>5, Zenon DEF Shapes
<1> QED
  BY <1>2, <1>3, <1>6, <1>7, Zenon DEF Moved

(***************************************************************************)
(* Time passes.                                                            *)
(***************************************************************************)
LEMMA TickCounts ==
  ASSUME CountInv, Tick
  PROVE  Shapes' /\ \A m \in Metrics : (Totals(m) /\ Division(m))'
<1>1. Shapes
  BY Zenon DEF CountInv
<1>2. /\ clock < setup.horizon /\ clock' = clock + 1
      /\ UNCHANGED <<setup, up, tally, saved, totals, gc, events, missed>>
  BY Zenon DEF Tick
<1>3. clock \in Nat /\ setup.horizon \in Nat /\ Times \subseteq Nat /\ Times' = Times
  BY <1>1, <1>2, OpenNow DEF Times
<1>4. clock' \in Nat /\ clock <= clock' /\ clock' \in Times
  BY <1>2, <1>3 DEF Times
<1>5. Shapes'
  <2>1. clock' >= Window
    <3>1. Window \in Nat /\ clock >= Window
      BY <1>1, BaselinesAssumption DEF Shapes
    <3> QED
      BY <1>2, <1>3, <3>1
  <2> QED
    BY <1>1, <1>2, <1>3, <1>4, <2>1, Zenon DEF Shapes
<1>6. ASSUME NEW m \in Metrics PROVE Totals(m)' /\ Division(m)'
  <2> DEFINE ev == events[m]
             now == Truncate(clock)
             late == Truncate(clock')
  <2>1. Totals(m) /\ Division(m)
    BY Zenon DEF CountInv
  <2>2. Division(m)'
    BY <1>2, <1>3, <2>1, Zenon DEF Division, Full
  <2>3. ev \in [Times -> Nat] /\ \A w \in Times : ev[w] <= ev[w]
    <3>1. ev \in [Times -> Nat]
      BY <2>1, Zenon DEF Totals
    <3> HIDE DEF ev
    <3> QED
      BY <3>1
  <2>4. now \in Nat /\ late \in Nat /\ now <= late
    BY <1>3, <1>4, TruncateForm, TruncateGrows, Zenon
  <2>5. ASSUME NEW j \in Replicas
        PROVE  /\ tally[j][m] # None => j \in up /\ Sound(tally[j][m], ev, clock')
               /\ saved[j][m] # None => Faithful(saved[j][m], ev, late)
               /\ m \in DOMAIN gc[j].learned => Faithful(gc[j].learned[m], ev, late)
    <3>1. /\ tally[j][m] # None => j \in up /\ Sound(tally[j][m], ev, clock)
          /\ saved[j][m] # None => Faithful(saved[j][m], ev, now)
          /\ m \in DOMAIN gc[j].learned => Faithful(gc[j].learned[m], ev, now)
      BY <2>1, Zenon DEF Totals
    <3> DEFINE l == gc[j].learned[m]
    <3> HIDE DEF ev, now, late
    <3>2. saved[j][m] # None => Faithful(saved[j][m], ev, late)
      BY <1>3, <2>3, <2>4, <3>1, FaithfulKept, Zenon
    <3>3. m \in DOMAIN gc[j].learned => Faithful(l, ev, late)
      <4> SUFFICES ASSUME m \in DOMAIN gc[j].learned PROVE Faithful(l, ev, late)
        BY Zenon
      <4>1. Faithful(l, ev, now)
        BY <3>1, Zenon
      <4> HIDE DEF l
      <4> QED
        BY <1>3, <2>3, <2>4, <4>1, FaithfulKept, Zenon
    <3>4. tally[j][m] # None => j \in up /\ Sound(tally[j][m], ev, clock')
      BY <1>3, <1>4, <2>3, <3>1, SoundKept, Zenon
    <3> QED
      BY <3>2, <3>3, <3>4, Zenon
  <2>6. Truncate(clock)' = late
    BY DEF Truncate
  <2>7. Totals(m)'
    <3> HIDE DEF late
    <3> QED
      BY <1>2, <1>3, <2>1, <2>5, <2>6, Zenon DEF Totals
  <2> QED
    BY <2>2, <2>7, Zenon
<1> QED
  BY <1>5, <1>6, Zenon

(***************************************************************************)
(* A new fleet has counted nothing.                                        *)
(***************************************************************************)
LEMMA InitCounts == Init => CountInv
<1> SUFFICES ASSUME Init PROVE CountInv
  OBVIOUS
<1>1. /\ setup \in Deployments /\ clock = Window /\ up = setup.replicas
      /\ tally = [i \in Replicas |-> [m \in Metrics |-> None]] /\ saved = tally
      /\ totals = [m \in Metrics |-> [w \in Times |-> 0]] /\ events = totals
      /\ gc = [i \in Replicas |-> Resting]
  BY Zenon DEF Init
<1>2. setup.horizon \in Nat /\ Window \in Nat \ {0} /\ setup.horizon >= Window
      /\ setup.replicas \subseteq Replicas
  BY <1>1, BaselinesAssumption DEF Setups
<1>3. clock \in Times /\ clock >= Window /\ 0 \in Times
  BY <1>1, <1>2 DEF Times
<1>4. Shapes
  BY <1>1, <1>2, <1>3, Zenon DEF Shapes
<1>5. DOMAIN Resting.learned = {}
  BY DEF Resting
<1>6. 0 \in Nat
  OBVIOUS
<1>7. ASSUME NEW m \in Metrics PROVE Totals(m) /\ Division(m)
  <2>1. totals[m] = [w \in Times |-> 0] /\ events[m] = [w \in Times |-> 0]
    BY <1>1, Zenon
  <2>2. Totals(m)
    <3>1. totals[m] \in [Times -> Nat] /\ events[m] \in [Times -> Nat] /\ events[m][0] = 0
      BY <1>3, <1>6, <2>1, Zenon
    <3>2. \A i \in Replicas : tally[i][m] = None /\ saved[i][m] = None
                              /\ m \notin DOMAIN gc[i].learned
      BY <1>1, <1>5, Zenon
    <3> QED
      BY <3>1, <3>2, Zenon DEF Totals
  <2>3. ASSUME NEW w \in Times
        PROVE  Divided(events[m][w], totals[m][w],
                       [i \in Replicas |-> Share(tally[i][m], w)], Full(m, w))
    <3> DEFINE s == [i \in Replicas |-> Share(tally[i][m], w)]
    <3>1. \A i \in Replicas : s[i] = 0
      BY <1>1, Zenon DEF Share
    <3>2. events[m][w] = 0 /\ totals[m][w] = 0
      BY <2>1, Zenon
    <3> HIDE DEF s
    <3>3. Divided(0, 0, s, Full(m, w))
      BY <3>1, DividedNone, Zenon
    <3> QED
      BY <3>2, <3>3, Zenon DEF s
  <2> QED
    BY <2>2, <2>3, Zenon DEF Division
<1> QED
  BY <1>4, <1>7, InitInv, Zenon DEF CountInv

LEMMA StepCounts ==
  ASSUME CountInv, [Next]_vars
  PROVE  CountInv'
<1> DEFINE Kept == Shapes' /\ \A m \in Metrics : (Totals(m) /\ Division(m))'
<1>1. Inv'
  BY StepInv, Zenon DEF CountInv
<1>2. ASSUME UNCHANGED vars PROVE Kept
  <2>1. /\ setup' = setup /\ clock' = clock /\ up' = up /\ tally' = tally /\ saved' = saved
        /\ totals' = totals /\ gc' = gc /\ events' = events /\ missed' = missed
    BY <1>2, Zenon DEF vars
  <2>2. Times' = Times /\ Truncate(clock)' = Truncate(clock)
    BY <2>1, Zenon DEF Times, Truncate
  <2>3. Shapes'
    BY <2>1, <2>2, Zenon DEF CountInv, Shapes
  <2>4. \A m \in Metrics : Totals(m)'
    BY <2>1, <2>2, Zenon DEF CountInv, Totals
  <2>5. \A m \in Metrics : Division(m)'
    BY <2>1, <2>2, Zenon DEF CountInv, Division, Full
  <2> QED
    BY <2>3, <2>4, <2>5, Zenon
<1>3. ASSUME Tick PROVE Kept
  BY <1>3, TickCounts, Zenon
<1>4. ASSUME NEW i \in Replicas, NEW k \in Identities, Publish(i, k) PROVE Kept
  BY <1>4, PublishCounts, Zenon
<1>5. ASSUME NEW i \in Replicas, GcTick(i) PROVE Kept
  BY <1>5, GcTickMoves, MovedCounts, Zenon
<1>6. ASSUME NEW i \in Replicas, DeleteBatches(i) PROVE Kept
  <2>1. /\ UNCHANGED <<setup, clock, up, tally, saved, totals, events, missed>>
        /\ \E x : gc' = [gc EXCEPT ![i].pc = x]
    BY <1>6, Zenon DEF DeleteBatches
  <2> QED
    BY <2>1, CollectorMoves, MovedCounts, Zenon
<1>7. ASSUME NEW i \in Replicas, SaveBatches(i) PROVE Kept
  <2>1. /\ UNCHANGED <<setup, clock, up, tally, saved, totals, events, missed>>
        /\ \E x : gc' = [gc EXCEPT ![i].pc = x]
    BY <1>7, Zenon DEF SaveBatches
  <2> QED
    BY <2>1, CollectorMoves, MovedCounts, Zenon
<1>8. ASSUME NEW i \in Replicas, PruneStale(i) PROVE Kept
  <2>1. /\ UNCHANGED <<setup, clock, up, tally, saved, totals, events, missed>>
        /\ \E x : gc' = [gc EXCEPT ![i].pc = x]
    BY <1>8, Zenon DEF PruneStale
  <2> QED
    BY <2>1, CollectorMoves, MovedCounts, Zenon
<1>9. ASSUME NEW i \in Replicas, NEW m \in Metrics, SaveTally(i, m)
      PROVE  /\ UNCHANGED <<setup, clock, up, tally, totals, events, missed>>
             /\ \/ saved' = saved
                \/ \E x \in Metrics : /\ x \in DOMAIN gc[i].learned
                                      /\ saved' = [saved EXCEPT ![i][x] = gc[i].learned[x]]
  BY <1>9, Zenon DEF SaveTally
<1>10. ASSUME NEW i \in Replicas, SaveTenantBaselines(i) PROVE Kept
  <2>1. SaveTally(i, "tenant") /\ gc' = [gc EXCEPT ![i].pc = "churn"] /\ "tenant" \in Metrics
    BY <1>10, Zenon DEF SaveTenantBaselines, Metrics
  <2> QED
    BY <1>9, <2>1, CollectorMoves, MovedCounts, Zenon
<1>11. ASSUME NEW i \in Replicas, SaveChurnBaselines(i) PROVE Kept
  <2>1. SaveTally(i, "churn") /\ gc' = [gc EXCEPT ![i] = Resting] /\ "churn" \in Metrics
    BY <1>11, Zenon DEF SaveChurnBaselines, Metrics
  <2> QED
    BY <1>9, <2>1, CollectorMoves, MovedCounts, Zenon
<1>12. ASSUME NEW i \in Replicas, Crash(i) PROVE Kept
  BY <1>12, CrashMoves, MovedCounts, Zenon
<1>13. ASSUME NEW i \in Replicas, Start(i) PROVE Kept
  BY <1>13, StartMoves, MovedCounts, Zenon
<1>14. Kept
  BY <1>2, <1>3, <1>4, <1>5, <1>6, <1>7, <1>8, <1>10, <1>11, <1>12, <1>13, Zenon DEF Next
<1> QED
  BY <1>1, <1>14, Zenon DEF CountInv

(***************************************************************************)
(* Every event of a window is counted once, in that window's row: the row  *)
(* never exceeds what happened, it is what happened once no replica holds  *)
(* or has lost a share, and a baseline learns a window at most once and    *)
(* never above what happened, whatever fails and whoever restarts.         *)
(***************************************************************************)
THEOREM WindowsCountedOnce == Spec => []WindowCountedOnce
<1>1. ASSUME CountInv PROVE WindowCountedOnce
  <2>1. Shapes /\ \A m \in Metrics : Totals(m) /\ Division(m)
    BY <1>1, Zenon DEF CountInv
  <2>2. ASSUME NEW m \in Metrics, NEW w \in Times
        PROVE  /\ totals[m][w] <= events[m][w]
               /\ (/\ setup.postgres
                   /\ m \in setup.enabled
                   /\ <<m, w>> \notin missed
                   /\ \A i \in up : <<m, w>> \notin OpenWindows(i, Metrics))
                    => totals[m][w] = events[m][w]
    <3> DEFINE s == [i \in Replicas |-> Share(tally[i][m], w)]
    <3>1. Divided(events[m][w], totals[m][w], s, Full(m, w))
      BY <2>1, Zenon DEF Division
    <3>2. events[m][w] \in Nat /\ totals[m][w] \in Nat
      BY <2>1, Zenon DEF Totals
    <3>3. ASSUME NEW i \in Replicas, \A j \in up : <<m, w>> \notin OpenWindows(j, Metrics)
          PROVE  s[i] = 0
      <4>1. s[i] = Share(tally[i][m], w)
        BY Zenon
      <4> HIDE DEF s
      <4>2. CASE tally[i][m] # None /\ tally[i][m].start = w
        <5> DEFINE c == tally[i][m].cur
        <5>1. i \in up /\ s[i] = c
          BY <2>1, <4>1, <4>2, Zenon DEF Totals, Share
        <5>2. ~(c > 0)
          BY <3>3, <4>2, <5>1, Zenon DEF OpenWindows
        <5>3. c \in Nat
          <6>1. Open(tally[i][m]) = tally[i][m]
            BY <4>2, Zenon DEF Open
          <6> QED
            BY <2>1, <6>1, OpenSound, Zenon
        <5> HIDE DEF c
        <5> QED
          BY <5>1, <5>2, <5>3
      <4>3. CASE ~(tally[i][m] # None /\ tally[i][m].start = w)
        BY <4>1, <4>3, Zenon DEF Share
      <4> QED
        BY <4>2, <4>3, Zenon
    <3> HIDE DEF s
    <3>4. /\ totals[m][w] <= events[m][w]
          /\ Full(m, w) /\ (\A i \in Replicas : s[i] = 0) => totals[m][w] = events[m][w]
      BY <3>1, <3>2, DividedBounds, Zenon
    <3> QED
      BY <3>3, <3>4, Zenon DEF Full
  <2>3. ASSUME NEW i \in up, NEW m \in Metrics, tally[i][m] # None,
               NEW n \in DOMAIN tally[i][m].learned
        PROVE  /\ tally[i][m].learned[n].total <= events[m][tally[i][m].learned[n].window]
               /\ n > 1 => tally[i][m].learned[n - 1].window < tally[i][m].learned[n].window
    <3> DEFINE l == tally[i][m].learned
               E == [window : DOMAIN events[m], total : Nat]
    <3>1. i \in Replicas
      BY <2>1, Zenon DEF Shapes
    <3>2. Faithful(l, events[m], Truncate(clock))
      BY <2>1, <2>3, <3>1, Zenon DEF Totals, Sound
    <3>3. l \in Seq(E)
      BY <3>2, Zenon DEF Faithful
    <3>4. n \in DOMAIN l
      BY <2>3, Zenon
    <3> HIDE DEF l, E
    <3>5. n \in 1..Len(l)
      BY <3>3, <3>4
    <3>6. l[n].total <= events[m][l[n].window] /\ (n > 1 => l[n - 1].window < l[n].window)
      BY <3>2, <3>5, Zenon DEF Faithful
    <3> QED
      BY <3>6, Zenon DEF l
  <2> QED
    BY <2>2, <2>3, Zenon DEF WindowCountedOnce
<1> QED
  BY <1>1, InitCounts, StepCounts, PTL DEF Spec
=============================================================================
