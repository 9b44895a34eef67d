----------------------------- MODULE LiveBuffer -----------------------------
(***************************************************************************)
(* RingBuffer (dashboard/usecase/ring_buffer.go): the bounded in-memory    *)
(* store behind the dashboard's live view, as operators on its value.  An  *)
(* answer is the set of its entries, which are in the order of their IDs.  *)
(* The alert, correlated-alert and reload-event buffers have the same body.*)
(***************************************************************************)
EXTENDS Integers, Sequences, FiniteSets, Functions

\* make(...), with nextID at its zero value.
NewRingBuffer == [entries |-> <<>>, nextID |-> 0]

\* RingBuffer.Publish: the oldest entry makes room for the new one.
RingPublish(b, capacity, item) ==
  LET kept == IF Len(b.entries) >= capacity THEN Tail(b.entries) ELSE b.entries
  IN [entries |-> Append(kept, [id |-> b.nextID + 1, item |-> item]),
      nextID |-> b.nextID + 1]

\* out[len(out)-limit:]: the limit most recent of some entries.
MostRecent(S, limit) == {e \in S : Cardinality({f \in S : f.id > e.id}) < limit}

\* As if a restart were not noticed.
KeepsCursor(b, afterID) == afterID

\* An afterID ahead of nextID means a restart: from the start.
ResumeAt(b, afterID) == IF afterID > b.nextID THEN 0 ELSE afterID

\* RingBuffer.Since, with mine the items that pass the tenant filter.
RingSince(b, afterID, limit, mine) ==
  LET new == {e \in Range(b.entries) : e.id > ResumeAt(b, afterID) /\ e.item \in mine}
  IN MostRecent(new, limit)
=============================================================================
