------------------------------ MODULE AuditLog ------------------------------
(***************************************************************************)
(* The audit trail: Recorder (audit/usecase/recorder.go) over a JSONL file *)
(* or a Postgres table, the retention job that purges it, the scheduled    *)
(* export that reads it, and the dashboard's poll of the live view.        *)
(*                                                                         *)
(* A request's entry carries the time the request started and is written   *)
(* when it ends.  The JSONL writer keeps the file it opened at start; the  *)
(* purger scans the file at the path and renames a new one over it.  A     *)
(* write can fail part-way and leave a line without its newline, which the *)
(* next entry then continues; a crash can do the same.  An INSERT draws    *)
(* its id before it commits.  Scans and queries are one step each.         *)
(*                                                                         *)
(* History: which calls were acknowledged, late or passed, the bundles,    *)
(* what the dashboard was shown and owed, and the vouched entries.         *)
(***************************************************************************)
EXTENDS LiveBuffer, FiniteSetsExt

CONSTANTS Calls,        \* proxied requests, numbered in the order they start
          TenantOf,     \* the tenant of each
          SecondLen,    \* clock ticks in a second
          Deployments,  \* configurations to start from, see Setups
          None

Setups ==
  [postgres : BOOLEAN,   \* postgres_storage
   retention : Nat,      \* RetentionDays, in clock ticks
   export : BOOLEAN,     \* compliance_scheduled_export
   viewer : STRING,      \* the tenant the dashboard caller is confined to, or ""
   capacity : Nat \ {0}, \* ringBufferCapacity
   limit : Nat \ {0},    \* a poll's limit
   polls : Nat,          \* bound: polls of the dashboard; 0 when web_ui is off
   faults : Nat,         \* bound: failing operations
   crashes : Nat,        \* bound: restarts of the process
   calls : Nat,          \* bound: requests
   horizon : Nat]        \* bound: the clock stops here

ASSUME AuditAssumption ==
  /\ IsFiniteSet(Calls) /\ Calls \subseteq Nat /\ 0 \notin Calls
  /\ TenantOf \in [Calls -> STRING]
  /\ SecondLen \in Nat \ {0}
  /\ Deployments \subseteq Setups
  /\ None \notin Nat

VARIABLES setup,
          clock,
          life,      \* restarts so far
          spent,     \* faults so far
          call,      \* requests, and how their entry was recorded
          file,      \* the file at the path: calls in lines that parse, calls in
                     \* lines that do not, and whether the last line is torn
          detached,  \* the writer's file is no longer the one at the path
          rows,      \* calls with a committed row
          purge,     \* JSONLPurger.Purge between its scan and its rename
          export,    \* startScheduledExportJob
          bundles,   \* evidence bundles written
          ring,      \* RingBuffer
          client,    \* the dashboard page
          vouched    \* calls whose entry the trail promises to keep

store == <<file, detached, rows, purge, vouched>>
live == <<ring, client>>
jobs == <<export, bundles>>
vars == <<setup, clock, life, spent, call, store, jobs, live>>

Pcs == {"idle", "serving", "inserting", "written", "done", "gone"}

TypeOK ==
  /\ setup \in Deployments
  /\ clock \in 0..setup.horizon /\ life \in 0..setup.crashes /\ spent \in 0..setup.faults
  /\ call \in [Calls -> [pc : Pcs, ts : Nat, id : Nat, acked : BOOLEAN,
                         late : BOOLEAN, passed : BOOLEAN]]
  /\ file \in [lines : SUBSET Calls, mangled : SUBSET Calls, torn : BOOLEAN]
  /\ detached \in BOOLEAN /\ rows \subseteq Calls /\ vouched \subseteq Calls
  /\ purge.pc \in {"idle", "scanned"}
  /\ export.pc \in {"idle", "due"}

----------------------------------------------------------------------------
(* Stored times.                                                           *)

\* time.Truncate(time.Second), and the layout of the JSONL timestamp.
Second(t) == t - (t % SecondLen)

\* The time read back: JSONLWriter drops the fraction, Postgres keeps it.
Stored(c) == IF setup.postgres THEN call[c].ts ELSE Second(call[c].ts)

OnDisk == IF setup.postgres THEN rows ELSE file.lines \union file.mangled
Readable == IF setup.postgres THEN rows ELSE file.lines

\* Retention may delete it: only an entry whose time can be read.
Older(c, cutoff) == c \in Readable /\ Stored(c) < cutoff

\* A write now is not covered by the purge in progress, or goes to a file
\* that is no longer at the path.
Exposed == detached \/ purge.pc = "scanned"
Acked == {c \in Calls : call[c].acked}

\* JSONLReader.Query truncates its bounds to the second, PostgresWriter.Query
\* compares as they are.
Untruncated(t) == t
Bound(t) == IF setup.postgres THEN t ELSE Second(t)

\* The scheduled export is past the time stored for the call.
Covered(c) == Stored(c) < IF setup.postgres THEN export.lastTick ELSE Second(export.lastTick)

\* The page has gone past the id the row will appear under.
Passed(c) == setup.postgres /\ client.lastID > call[c].id

Fault == spent < setup.faults /\ spent' = spent + 1
NoFault == UNCHANGED spent

----------------------------------------------------------------------------
(* Recorder.RecordWithEffect                                               *)

Request(pc, ts, id, acked, late, passed) ==
  [pc |-> pc, ts |-> ts, id |-> id, acked |-> acked, late |-> late, passed |-> passed]

\* A request starts; Timestamp is this instant.
Begin(c) ==
  /\ call[c].pc = "idle" /\ c <= setup.calls
  /\ \A d \in Calls : call[d].pc = "idle" => c <= d
  /\ call' = [call EXCEPT ![c] = Request("serving", clock, 0, FALSE, FALSE, FALSE)]
  /\ UNCHANGED <<setup, clock, life, spent, store, jobs, live>>

Recorded(c, acked) ==
  call' = [call EXCEPT ![c] =
            Request("written", call[c].ts, call[c].id, acked, Covered(c), Passed(c))]

\* JSONLWriter.Write of the whole line.
AppendLine(c) ==
  IF detached THEN file
  ELSE IF file.torn THEN [file EXCEPT !.mangled = @ \union {c}, !.torn = FALSE]
       ELSE [file EXCEPT !.lines = @ \union {c}]

\* The writer's mutex makes it one step; an error is reported and dropped.
WriteLine(c) ==
  /\ ~setup.postgres /\ call[c].pc = "serving"
  /\ \/ NoFault /\ Recorded(c, TRUE) /\ file' = AppendLine(c)
        /\ vouched' = IF Exposed THEN vouched ELSE vouched \union {c}
     \/ Fault /\ Recorded(c, FALSE) /\ UNCHANGED vouched
        /\ \/ UNCHANGED file
           \/ ~detached /\ file' = [file EXCEPT !.torn = TRUE]
  /\ UNCHANGED <<setup, clock, life, detached, rows, purge, jobs, live>>

\* PostgresWriter.Write: the INSERT draws its id ...
Insert(c) ==
  /\ setup.postgres /\ call[c].pc = "serving"
  /\ LET id == 1 + Cardinality({d \in Calls : call[d].id > 0})
     IN call' = [call EXCEPT ![c] = Request("inserting", call[c].ts, id, FALSE, FALSE, FALSE)]
  /\ UNCHANGED <<setup, clock, life, spent, store, jobs, live>>

\* ... and commits, fails, or commits after the writer gave up on it.
Commit(c) ==
  /\ call[c].pc = "inserting"
  /\ \/ NoFault /\ Recorded(c, TRUE) /\ rows' = rows \union {c}
        /\ vouched' = vouched \union {c}
     \/ Fault /\ Recorded(c, FALSE) /\ rows' \in {rows, rows \union {c}}
        /\ UNCHANGED vouched
  /\ UNCHANGED <<setup, clock, life, file, detached, purge, jobs, live>>

\* sink.Publish, whether or not the write succeeded.
Publish(c) ==
  /\ call[c].pc = "written"
  /\ call' = [call EXCEPT ![c] = Request("done", call[c].ts, call[c].id, call[c].acked,
                                       call[c].late, call[c].passed)]
  /\ ring' = IF setup.polls > 0 THEN RingPublish(ring, setup.capacity, c) ELSE ring
  /\ UNCHANGED <<setup, clock, life, spent, store, jobs, client>>

----------------------------------------------------------------------------
(* RunRetention on its ticker                                              *)

Cutoff == clock - setup.retention
NoPurge == [pc |-> "idle", cutoff |-> 0, kept |-> {}]

Forget(cutoff) == vouched' = {c \in vouched : ~Older(c, cutoff)}

\* JSONLPurger.Purge up to its scan; when nothing is old it returns there.
Scan ==
  /\ setup.retention > 0 /\ ~setup.postgres /\ purge.pc = "idle"
  /\ \E c \in Calls : Older(c, Cutoff)
  /\ purge' = [pc |-> "scanned", cutoff |-> Cutoff,
               kept |-> {c \in file.lines \union file.mangled : ~Older(c, Cutoff)}]
  /\ UNCHANGED <<setup, clock, life, spent, call, file, detached, rows, vouched, jobs, live>>

\* The kept lines, each with its newline, replace the file at the path.
ReadableOnly == [lines |-> purge.kept \intersect file.lines, mangled |-> {}, torn |-> FALSE]
Replaced ==
  [lines |-> purge.kept \intersect file.lines,
   mangled |-> purge.kept \intersect file.mangled, torn |-> FALSE]
Rename ==
  /\ purge.pc = "scanned"
  /\ file' = Replaced
  /\ Forget(purge.cutoff)
  /\ detached' = TRUE
  /\ purge' = NoPurge
  /\ UNCHANGED <<setup, clock, life, spent, call, rows, jobs, live>>

\* What is on disk when a replacement is given up is kept after all.
Revouch == vouched' = vouched \union (Acked \intersect OnDisk)

\* The temporary file cannot be made, written or renamed.
PurgeFails ==
  /\ purge.pc = "scanned"
  /\ Fault
  /\ purge' = NoPurge
  /\ Revouch
  /\ UNCHANGED <<setup, clock, life, call, file, detached, rows, jobs, live>>

\* PostgresWriter.Purge is one DELETE.
Delete ==
  /\ setup.retention > 0 /\ setup.postgres
  /\ rows' = {c \in rows : ~Older(c, Cutoff)}
  /\ Forget(Cutoff)
  /\ UNCHANGED <<setup, clock, life, spent, call, file, detached, purge, jobs, live>>

----------------------------------------------------------------------------
(* startScheduledExportJob                                                 *)

StartExport(t) == [pc |-> "idle", start |-> t, lastTick |-> t, tick |-> t]

\* The ticker fires at least a second apart; the job may take it up later.
ExportTick ==
  /\ setup.export /\ export.pc = "idle"
  /\ \E now \in export.tick + SecondLen .. clock :
       export' = [pc |-> "due", start |-> export.start, lastTick |-> export.lastTick, tick |-> now]
  /\ UNCHANGED <<setup, clock, life, spent, call, store, bundles, live>>

\* Reader.Query.
Query(from, to) == {c \in Readable : Bound(from) <= Stored(c) /\ Stored(c) < Bound(to)}

\* buildAndWriteEvidenceBundle, whose rename makes the bundle appear whole;
\* a failed one leaves lastTick where it was.
Advance ==
  [pc |-> "idle", start |-> export.start, lastTick |-> export.tick, tick |-> export.tick]
Export ==
  /\ export.pc = "due"
  /\ \/ NoFault /\ export' = Advance
        /\ bundles' = bundles \union {[from |-> export.lastTick, to |-> export.tick,
                                       calls |-> Query(export.lastTick, export.tick)]}
     \/ Fault /\ export' = [export EXCEPT !.pc = "idle"] /\ UNCHANGED bundles
  /\ UNCHANGED <<setup, clock, life, call, store, live>>

----------------------------------------------------------------------------
(* pollAudit of the page, over RingBuffer or PostgresWriter.Since          *)

Mine(c) == setup.viewer \in {"", TenantOf[c]}

\* WHERE id > $1 ORDER BY id ASC LIMIT $2.
RowsSince(afterID, limit) ==
  LET new == {c \in rows : call[c].id > afterID /\ Mine(c)}
      first == {c \in new : Cardinality({d \in new : call[d].id < call[c].id}) < limit}
  IN {[id |-> call[c].id, item |-> c] : c \in first}

Since(afterID) ==
  IF setup.postgres THEN RowsSince(afterID, setup.limit)
  ELSE RingSince(ring, afterID, setup.limit, {c \in Calls : Mine(c)})

\* What a poll now has to show, sooner or later: of the ring, the entries a
\* page that is not too far behind can still get, and after a restart only
\* those with an ID the page has not used; of the table, the rows it has not
\* gone past, if they fit in one answer.
Floor ==
  IF client.life = life THEN client.floor
  ELSE IF client.lastID <= ring.nextID THEN client.lastID ELSE 0
Reach == Min({setup.capacity, setup.limit})
OwedByRing ==
  {e.item : e \in {f \in Range(ring.entries) : f.id > Floor /\ f.id > ring.nextID - Reach}}
OwedByTable ==
  LET due == {c \in rows : ~call[c].passed}
  IN IF Cardinality({c \in due : Mine(c) /\ call[c].id > client.lastID}) > setup.limit THEN {}
     ELSE due
Owed == {c \in IF setup.postgres THEN OwedByTable ELSE OwedByRing : Mine(c)}

\* state.lastID = fresh[fresh.length - 1].ID
Poll ==
  /\ client.polls < setup.polls
  /\ LET got == Since(client.lastID)
         n == client.polls + 1
         owed == client.owed \union Owed
     IN \/ /\ got = {}
           /\ client' = [polls |-> n, life |-> client.life, floor |-> client.floor,
                         lastID |-> client.lastID, seen |-> client.seen, owed |-> owed]
        \/ \E last \in got :
             /\ \A e \in got : e.id <= last.id
             /\ client' = [polls |-> n, life |-> life, floor |-> Floor, lastID |-> last.id,
                           seen |-> client.seen \union
                                      {[poll |-> n, id |-> e.id, item |-> e.item] : e \in got},
                           owed |-> owed]
  /\ UNCHANGED <<setup, clock, life, spent, call, store, jobs, ring>>

----------------------------------------------------------------------------
\* The process dies and starts again: the file is opened anew, the ring is
\* empty, the jobs start over.  A write in progress may leave a torn line, an
\* INSERT in progress may still commit.
Restart ==
  /\ life < setup.crashes /\ life' = life + 1
  /\ \E done \in SUBSET {c \in Calls : call[c].pc = "inserting"} : rows' = rows \union done
  /\ call' = [c \in Calls |-> IF call[c].pc \in {"idle", "done"} THEN call[c]
                              ELSE Request("gone", call[c].ts, call[c].id, call[c].acked,
                                           Covered(c), Passed(c))]
  /\ \/ UNCHANGED file
     \/ ~setup.postgres /\ ~detached /\ (\E c \in Calls : call[c].pc = "serving")
        /\ file' = [file EXCEPT !.torn = TRUE]
  /\ detached' = FALSE
  /\ purge' = NoPurge
  /\ Revouch
  /\ export' = StartExport(clock)
  /\ ring' = NewRingBuffer
  /\ UNCHANGED <<setup, clock, spent, bundles, client>>

Tick ==
  /\ clock < setup.horizon /\ clock' = clock + 1
  /\ UNCHANGED <<setup, life, spent, call, store, jobs, live>>

Init ==
  /\ setup \in Deployments
  /\ clock = 0 /\ life = 0 /\ spent = 0
  /\ call = [c \in Calls |-> Request("idle", 0, 0, FALSE, FALSE, FALSE)]
  /\ file = [lines |-> {}, mangled |-> {}, torn |-> FALSE]
  /\ detached = FALSE /\ rows = {} /\ purge = NoPurge /\ vouched = {}
  /\ export = StartExport(0) /\ bundles = {}
  /\ ring = NewRingBuffer
  /\ client = [polls |-> 0, life |-> 0, floor |-> 0, lastID |-> 0, seen |-> {}, owed |-> {}]

Next ==
  \/ \E c \in Calls : Begin(c) \/ WriteLine(c) \/ Insert(c) \/ Commit(c) \/ Publish(c)
  \/ Scan \/ Rename \/ PurgeFails \/ Delete
  \/ ExportTick \/ Export
  \/ Poll \/ Restart \/ Tick

Spec == Init /\ [][Next]_vars

----------------------------------------------------------------------------
(* Properties                                                              *)

Entry(c) == [call |-> c, ts |-> IF c \in file.mangled THEN None ELSE Stored(c)]

AbstractTrail ==
  INSTANCE Trail WITH Undated <- None, now <- clock, retention <- setup.retention,
    trail <- {Entry(c) : c \in OnDisk}, vouched <- {Entry(c) : c \in vouched}

\* The writers, the purgers and the restarts together implement the abstract
\* trail: an entry acknowledged by Recorder's writer outside a replacement of
\* the file stays on disk until a purge whose cutoff it is older than, a purge
\* leaves no readable entry older than its cutoff, and an entry in a line that
\* does not parse is never purged.
TrailImplemented == AbstractTrail!Spec

\* Over all the windows of startScheduledExportJob, retries and restarts
\* included, no entry is in two evidence bundles, and an entry still in the
\* trail that was recorded before the export was past its second is in one,
\* if the job was running when the request started.
ExportedOnce ==
  /\ \A a, b \in bundles : a # b => a.calls \intersect b.calls = {}
  /\ \A c \in Acked \intersect Readable :
       (Covered(c) /\ ~call[c].late /\ call[c].ts >= export.start)
         => \E b \in bundles : c \in b.calls

\* The page that polls Since is shown no entry twice and none of another
\* tenant, and each entry it is owed: across evictions, limits, restarts that
\* start the IDs again, and rows that commit out of the order of their ids.
LiveViewComplete ==
  /\ \A a, b \in client.seen : a.item = b.item => a = b
  /\ \A c \in client.owed : \E a \in client.seen : a.item = c
  /\ \A a \in client.seen : Mine(a.item)

\* "keeping only lines whose timestamp is >= cutoff": an acknowledged entry
\* younger than the retention time is on disk.
RetentionKeepsYoung ==
  \A c \in Acked \ OnDisk : setup.retention > 0 /\ Stored(c) < Cutoff
=============================================================================
