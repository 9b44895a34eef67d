--------------------------- MODULE AuditLogProofs ---------------------------
(***************************************************************************)
(* The audit log implements the abstract trail, its entries are exported   *)
(* once and its live view is complete, for any number of requests, any     *)
(* retention time, limits and capacity, and any faults and restarts.       *)
(*                                                                         *)
(* Of the trail, the step that needs more than the step itself is Rename:  *)
(* that it loses nothing vouched for rests on what the scan found and on   *)
(* what was recorded since (Scanned), and that its cutoff has passed.  The *)
(* export and the live view have invariants of their own on top of it,     *)
(* Windows and Delivered, and RingView and TableView.                      *)
(***************************************************************************)
EXTENDS AuditLog, FiniteSetTheorems, TLAPS

\* A call whose entry, if it has one, has its final time.
Over == {"written", "done", "gone"}

\* The fields of a request.
Fields(r) == r = [pc |-> r.pc, ts |-> r.ts, id |-> r.id,
                  acked |-> r.acked, late |-> r.late, passed |-> r.passed]

Types ==
  /\ clock \in Nat
  /\ setup.postgres \in BOOLEAN /\ setup.retention \in Nat
  /\ DOMAIN call = Calls
  /\ \A c \in Calls :
       /\ Fields(call[c])
       /\ call[c].pc \in Pcs /\ call[c].ts \in Nat /\ call[c].acked \in BOOLEAN
  /\ file \in [lines : SUBSET Calls, mangled : SUBSET Calls, torn : BOOLEAN]
  /\ rows \subseteq Calls /\ vouched \subseteq Calls
  /\ purge \in [pc : {"idle", "scanned"}, cutoff : Int, kept : SUBSET Calls]

\* Where entries can be, and of which calls.
Placed ==
  /\ file.lines \intersect file.mangled = {}
  /\ setup.postgres => file.mangled = {} /\ purge.pc = "idle"
  /\ \A c \in Calls : /\ call[c].pc = "inserting" => setup.postgres
                      /\ call[c].acked => call[c].pc \in Over
  /\ \A c \in file.lines \union file.mangled \union rows \union purge.kept : call[c].pc \in Over

\* Only what is on disk is vouched for; in the table, all that was acknowledged.
Promised ==
  /\ vouched \subseteq OnDisk
  /\ setup.postgres => Acked \intersect rows \subseteq vouched

\* Between a scan and its rename: the copy holds all that is vouched for but
\* what the cutoff is past, and nothing the cutoff is past.
Scanned ==
  purge.pc = "scanned" =>
    /\ setup.retention > 0 /\ 0 <= purge.cutoff /\ purge.cutoff <= clock - setup.retention
    /\ \A c \in vouched : c \in purge.kept \/ Older(c, purge.cutoff)
    /\ \A c \in purge.kept : ~Older(c, purge.cutoff)

Inv == Types /\ Placed /\ Promised /\ Scanned

-----------------------------------------------------------------------------
\* What the stored time of an entry is.
LEMMA StoredType ==
  ASSUME Types
  PROVE  \A c \in Calls : Stored(c) \in Nat
<1>1. SecondLen \in Nat \ {0}
  BY AuditAssumption
<1>2. \A t \in Nat : Second(t) \in Nat
  BY <1>1 DEF Second
<1> QED
  BY <1>2 DEF Types, Stored

(***************************************************************************)
(* How the steps of a request change the requests.                         *)
(***************************************************************************)
Like(r, pc, ts, acked) == Fields(r) /\ r.pc = pc /\ r.ts = ts /\ r.acked = acked

\* A step of request c leaves the others alone.
Moves(c, pc, ts, acked) ==
  /\ DOMAIN call' = Calls
  /\ \A d \in Calls \ {c} : call'[d] = call[d]
  /\ Like(call'[c], pc, ts, acked)

LEMMA RequestMoves ==
  ASSUME Types, NEW c \in Calls
  PROVE  /\ Begin(c) => Moves(c, "serving", clock, FALSE)
         /\ Insert(c) => Moves(c, "inserting", call[c].ts, FALSE)
         /\ Publish(c) => Moves(c, "done", call[c].ts, call[c].acked)
         /\ \A acked : Recorded(c, acked) => Moves(c, "written", call[c].ts, acked)
<1>1. DOMAIN call = Calls
  BY Zenon DEF Types
<1>2. ASSUME NEW pc, NEW ts, NEW id, NEW acked, NEW late, NEW passed,
             call' = [call EXCEPT ![c] = Request(pc, ts, id, acked, late, passed)]
      PROVE  Moves(c, pc, ts, acked)
  <2>1. call'[c] = Request(pc, ts, id, acked, late, passed)
    BY <1>1, <1>2, Zenon
  <2>2. Like(call'[c], pc, ts, acked)
    BY <2>1, SMT DEF Like, Fields, Request
  <2> QED
    BY <1>1, <1>2, <2>2, Zenon DEF Moves
<1>3. Begin(c) => Moves(c, "serving", clock, FALSE)
  BY <1>2, Zenon DEF Begin
<1>4. Insert(c) => Moves(c, "inserting", call[c].ts, FALSE)
  BY <1>2, Zenon DEF Insert
<1>5. Publish(c) => Moves(c, "done", call[c].ts, call[c].acked)
  <2>1. Publish(c) => call' = [call EXCEPT ![c] = Request("done", call[c].ts, call[c].id,
                                 call[c].acked, call[c].late, call[c].passed)]
    BY Zenon DEF Publish
  <2> QED
    BY <1>2, <2>1, SMT
<1>6. \A acked : Recorded(c, acked) => Moves(c, "written", call[c].ts, acked)
  BY <1>2, ZenonT(30) DEF Recorded
<1> QED
  BY <1>3, <1>4, <1>5, <1>6, Zenon

-----------------------------------------------------------------------------
(***************************************************************************)
(* The abstract trail, seen from here.                                     *)
(***************************************************************************)
Disk == {Entry(c) : c \in OnDisk}
Kept == {Entry(c) : c \in vouched}
Stays == UNCHANGED <<clock, setup.retention, Disk, Kept>>

\* An abstract step or none.
Implemented == AbstractTrail!Next \/ Stays

LEMMA OnDiskCalls ==
  ASSUME Inv
  PROVE  OnDisk \subseteq Calls /\ vouched \subseteq OnDisk /\ \A c \in OnDisk : call[c].pc \in Over
BY DEF Inv, Types, Placed, Promised, OnDisk

LEMMA OlderIff ==
  ASSUME Inv, NEW c \in OnDisk, NEW t \in Int
  PROVE  AbstractTrail!TrailOlder(Entry(c), t) <=> Older(c, t)
<1>1. c \in Calls /\ Stored(c) \in Nat /\ Stored(c) # None
  BY OnDiskCalls, StoredType, AuditAssumption, Zenon DEF Inv
<1>2. AbstractTrail!TrailOlder(Entry(c), t) <=> c \notin file.mangled /\ Stored(c) < t
  BY <1>1 DEF AbstractTrail!TrailOlder, Entry
<1>3. c \in Readable <=> c \notin file.mangled
  BY DEF Inv, Placed, Readable, OnDisk
<1> QED
  BY <1>2, <1>3 DEF Older

\* Entries stay what they are while no line changes and no time does.
LEMMA SameEntries ==
  ASSUME UNCHANGED setup, NEW S,
         \A c \in S : call'[c].ts = call[c].ts /\ (c \in file'.mangled <=> c \in file.mangled)
  PROVE  \A c \in S : Entry(c)' = Entry(c) /\ Stored(c)' = Stored(c)
BY DEF Entry, Stored

-----------------------------------------------------------------------------
LEMMA InitInv ==
  ASSUME Init
  PROVE  Inv /\ AbstractTrail!Init
<1>1. setup \in Setups
  BY AuditAssumption DEF Init
<1>2. /\ DOMAIN call = Calls
      /\ \A c \in Calls : /\ Fields(call[c]) /\ call[c].pc = "idle" /\ call[c].ts = 0
                          /\ call[c].acked = FALSE
  BY Zenon DEF Init, Request, Fields
<1>3. Types
  <2>1. file \in [lines : SUBSET Calls, mangled : SUBSET Calls, torn : BOOLEAN]
        /\ purge \in [pc : {"idle", "scanned"}, cutoff : Int, kept : SUBSET Calls]
    BY DEF Init, NoPurge
  <2>2. setup.postgres \in BOOLEAN /\ setup.retention \in Nat
    BY <1>1 DEF Setups
  <2>3. rows = {} /\ vouched = {} /\ clock \in Nat /\ 0 \in Nat
    BY DEF Init
  <2> QED
    BY <1>2, <2>1, <2>2, <2>3, Zenon DEF Types, Pcs
<1>4. Placed /\ Promised /\ Scanned
  <2>1. file.lines = {} /\ file.mangled = {} /\ rows = {} /\ vouched = {} /\ Acked = {}
        /\ purge.pc = "idle" /\ purge.kept = {}
    BY <1>2, Zenon DEF Init, NoPurge, Acked
  <2> QED
    BY <1>2, <2>1 DEF Placed, Promised, Scanned
<1>5. AbstractTrail!Init
  BY DEF Init, AbstractTrail!Init, OnDisk
<1> QED
  BY <1>3, <1>4, <1>5 DEF Inv

(***************************************************************************)
(* A step of a request that writes nothing.                                *)
(***************************************************************************)
LEMMA MoveInv ==
  ASSUME Inv, NEW c \in Calls, NEW pc \in Pcs, NEW ts \in Nat, Moves(c, pc, ts, call[c].acked),
         call[c].pc \in Over => pc \in Over /\ ts = call[c].ts,
         pc = "inserting" => setup.postgres,
         UNCHANGED <<setup, clock, store>>
  PROVE  Inv' /\ Stays
<1> USE DEF Inv, store
<1>1. /\ DOMAIN call' = Calls
      /\ \A d \in Calls : Fields(call'[d]) /\ call'[d].pc \in Pcs /\ call'[d].ts \in Nat
  BY DEF Moves, Like, Types
<1>2. \A d \in Calls : call[d].pc \in Over => call'[d].pc \in Over /\ call'[d].ts = call[d].ts
  BY DEF Moves, Like
<1>3. \A d \in Calls : call'[d].acked = call[d].acked
  BY DEF Moves, Like
<1>4. \A d \in Calls : call'[d].pc = "inserting" => setup.postgres
  BY DEF Moves, Like, Placed
<1>5. \A d \in OnDisk \union purge.kept : Entry(d)' = Entry(d) /\ Stored(d)' = Stored(d)
  <2>1. \A d \in OnDisk \union purge.kept : call'[d].ts = call[d].ts
    BY <1>2 DEF Types, Placed, OnDisk
  <2> QED
    BY <2>1, SameEntries
<1>6. OnDisk' = OnDisk /\ Readable' = Readable /\ Acked' = Acked
  BY <1>3 DEF OnDisk, Readable, Acked
<1>7. Types' /\ Placed'
  BY <1>1, <1>2, <1>3, <1>4 DEF Types, Placed
<1>8. Promised'
  BY <1>6 DEF Promised
<1>9. Scanned'
  BY <1>5, <1>6 DEF Scanned, Older, Promised
<1>10. Stays
  BY <1>5, <1>6 DEF Stays, Disk, Kept, Promised
<1> QED
  BY <1>7, <1>8, <1>9, <1>10

LEMMA RequestInv ==
  ASSUME Inv, NEW c \in Calls, Begin(c) \/ Insert(c) \/ Publish(c)
  PROVE  Inv' /\ Stays
<1>1. call[c].ts \in Nat /\ clock \in Nat
  BY DEF Inv, Types
<1> DEFINE early == call[c].pc \notin Over => call[c].acked = FALSE
<1>0. early
  BY Zenon DEF Inv, Types, Placed
<1>2. CASE Begin(c)
  <2>1. Moves(c, "serving", clock, call[c].acked)
    BY <1>0, <1>2, RequestMoves, Zenon DEF Inv, Begin, Over
  <2>2. call[c].pc \notin Over /\ "serving" \in Pcs /\ UNCHANGED <<setup, clock, store>>
    BY <1>2 DEF Begin, Over, Pcs
  <2> QED
    BY <1>1, <2>1, <2>2, MoveInv
<1>3. CASE Insert(c)
  <2>1. Moves(c, "inserting", call[c].ts, call[c].acked)
    BY <1>0, <1>3, RequestMoves, Zenon DEF Inv, Insert, Over
  <2>2. /\ call[c].pc \notin Over /\ "inserting" \in Pcs /\ setup.postgres
        /\ UNCHANGED <<setup, clock, store>>
    BY <1>3 DEF Insert, Over, Pcs
  <2> QED
    BY <1>1, <2>1, <2>2, MoveInv
<1>4. CASE Publish(c)
  <2>1. Moves(c, "done", call[c].ts, call[c].acked)
    BY <1>4, RequestMoves, Zenon DEF Inv
  <2>2. "done" \in Pcs /\ "done" \in Over /\ UNCHANGED <<setup, clock, store>>
    BY <1>4 DEF Publish, Over, Pcs
  <2> QED
    BY <1>1, <2>1, <2>2, MoveInv
<1> QED
  BY <1>2, <1>3, <1>4

(***************************************************************************)
(* The export, the poll and the clock leave entries alone.                 *)
(***************************************************************************)
LEMMA ReadersInv ==
  ASSUME Inv, UNCHANGED <<setup, clock, call, store>>
  PROVE  Inv' /\ Stays
<1>1. Inv'
  BY DEF store, Inv, Types, Placed, Promised, Scanned, OnDisk, Acked, Older, Readable, Stored
<1>2. Stays
  BY DEF store, Stays, Disk, Kept, Entry, OnDisk, Stored
<1> QED
  BY <1>1, <1>2

LEMMA TickInv ==
  ASSUME Inv, Tick
  PROVE  Inv' /\ Implemented
<1>1. /\ clock \in Nat /\ clock' = clock + 1 /\ UNCHANGED <<setup, call, store>>
  BY DEF Tick, Inv, Types
<1>2. Types' /\ Placed' /\ Promised'
  BY <1>1 DEF store, Inv, Types, Placed, Promised, OnDisk, Acked
<1>3. Scanned'
  BY <1>1 DEF store, Inv, Types, Scanned, Older, Readable, Stored
<1>4. UNCHANGED <<Disk, Kept>>
  BY <1>1 DEF store, Disk, Kept, Entry, OnDisk, Stored
<1>5. AbstractTrail!Age
  <2>1. clock' >= clock /\ UNCHANGED <<setup.retention, Disk, Kept>>
    BY <1>1, <1>4
  <2> QED
    BY <2>1, Zenon DEF AbstractTrail!Age, Disk, Kept
<1> QED
  BY <1>2, <1>3, <1>5 DEF Inv, Implemented, AbstractTrail!Next

-----------------------------------------------------------------------------
(***************************************************************************)
(* An entry is recorded, with or without effect: at most that entry        *)
(* arrives, and it is vouched for only if it does and no copy of the file  *)
(* is being made.                                                          *)
(***************************************************************************)
LEMMA RecordInv ==
  ASSUME Inv, NEW c \in Calls, NEW acked \in BOOLEAN, Moves(c, "written", call[c].ts, acked),
         call[c].pc \in {"serving", "inserting"},
         UNCHANGED <<setup, clock, purge>>,
         file' \in [lines : SUBSET Calls, mangled : SUBSET Calls, torn : BOOLEAN],
         rows \subseteq rows' /\ rows' \subseteq rows \union {c},
         file.lines \subseteq file'.lines /\ file'.lines \subseteq file.lines \union {c},
         file.mangled \subseteq file'.mangled /\ file'.mangled \subseteq file.mangled \union {c},
         ~(c \in file'.lines /\ c \in file'.mangled),
         setup.postgres => UNCHANGED file,
         \/ vouched' = vouched
         \/ vouched' = vouched \union {c} /\ c \in OnDisk' /\ purge.pc = "idle",
         setup.postgres /\ acked => c \in vouched'
  PROVE  Inv' /\ Implemented
<1> USE DEF Inv
<1>1. /\ DOMAIN call' = Calls
      /\ \A d \in Calls : /\ Fields(call'[d]) /\ call'[d].pc \in Pcs /\ call'[d].ts = call[d].ts
                          /\ call'[d].acked \in BOOLEAN
  BY DEF Moves, Like, Types, Pcs
<1>2. /\ call'[c].pc = "written" /\ "written" \in Over /\ call[c].pc \notin Over
      /\ call'[c].acked = acked
      /\ \A d \in Calls \ {c} : call'[d].pc = call[d].pc /\ call'[d].acked = call[d].acked
  BY DEF Moves, Like, Over
<1>3. c \notin OnDisk /\ c \notin vouched /\ c \notin purge.kept /\ c \notin file.lines
      /\ c \notin file.mangled /\ c \notin rows
  BY <1>2 DEF Placed, Promised, OnDisk
<1>4. OnDisk \subseteq OnDisk' /\ OnDisk' \subseteq OnDisk \union {c}
  BY DEF OnDisk
<1>5. \A d \in OnDisk : Entry(d)' = Entry(d)
  <2>1. \A d \in OnDisk : call'[d].ts = call[d].ts /\ (d \in file'.mangled <=> d \in file.mangled)
    BY <1>1, <1>3, OnDiskCalls
  <2> QED
    BY <2>1, SameEntries
<1>6. \A d \in Calls : Stored(d)' = Stored(d)
  BY <1>1 DEF Stored
<1>7. Types'
  BY <1>1 DEF Types
<1>8. Placed'
  BY <1>2, <1>3 DEF Placed, Types
<1>9. Promised'
  <2>1. vouched' \subseteq OnDisk'
    BY <1>4 DEF Promised
  <2>2. setup.postgres => Acked' \intersect rows' \subseteq vouched'
    BY <1>2 DEF Promised, Acked
  <2> QED
    BY <2>1, <2>2 DEF Promised
<1>10. Scanned'
  <2> SUFFICES ASSUME purge.pc = "scanned" PROVE Scanned'
    BY DEF Scanned
  <2>1. \A d \in Calls \ {c} : d \in Readable' <=> d \in Readable
    BY DEF Readable
  <2>2. \A d \in Calls \ {c} : Older(d, purge.cutoff)' <=> Older(d, purge.cutoff)
    BY <1>6, <2>1 DEF Older
  <2>3. vouched' = vouched
    OBVIOUS
  <2> QED
    BY <1>3, <2>2, <2>3 DEF Scanned, Types
<1>11. CASE vouched' = vouched
  <2>1. Disk \subseteq Disk'
    BY <1>4, <1>5 DEF Disk
  <2>2. Kept' = Kept
    BY <1>5, <1>11 DEF Kept, Promised
  <2>3. AbstractTrail!Arrive
    BY <2>1, <2>2 DEF AbstractTrail!Arrive, Disk, Kept
  <2> QED
    BY <1>7, <1>8, <1>9, <1>10, <2>3 DEF Implemented, AbstractTrail!Next
<1>12. CASE vouched' = vouched \union {c} /\ c \in OnDisk'
  <2>1. Disk' = Disk \union {Entry(c)'} /\ Entry(c)' \in Disk'
    BY <1>4, <1>5, <1>12 DEF Disk
  <2>2. Kept' = Kept \union {Entry(c)'}
    BY <1>5, <1>12 DEF Kept, Promised
  <2>3. AbstractTrail!Append(Entry(c)')
    BY <2>1, <2>2 DEF AbstractTrail!Append, Disk, Kept
  <2> QED
    BY <1>7, <1>8, <1>9, <1>10, <2>1, <2>3 DEF Implemented, AbstractTrail!Next, Disk
<1> QED
  BY <1>11, <1>12

LEMMA WriteInv ==
  ASSUME Inv, NEW c \in Calls, WriteLine(c)
  PROVE  Inv' /\ Implemented
<1> DEFINE whole == \/ file' = [file EXCEPT !.mangled = @ \union {c}, !.torn = FALSE]
                    \/ file' = [file EXCEPT !.lines = @ \union {c}]
<1>1. /\ ~setup.postgres /\ call[c].pc = "serving"
      /\ UNCHANGED <<setup, clock, rows, purge>>
  BY DEF WriteLine
<1>2. /\ file \in [lines : SUBSET Calls, mangled : SUBSET Calls, torn : BOOLEAN]
      /\ c \notin file.lines /\ c \notin file.mangled
  BY <1>1 DEF Inv, Types, Placed, Over
<1>3. PICK acked \in BOOLEAN : Recorded(c, acked)
  BY Zenon DEF WriteLine
<1>4. Moves(c, "written", call[c].ts, acked)
  BY <1>3, RequestMoves, Zenon DEF Inv
<1>5. CASE UNCHANGED <<file, vouched>>
  BY <1>1, <1>2, <1>4, <1>5, RecordInv
<1>6. CASE file' = [file EXCEPT !.torn = TRUE] /\ UNCHANGED vouched
  BY <1>1, <1>2, <1>4, <1>6, RecordInv, ZenonT(30)
<1>7. CASE /\ whole
           /\ \/ UNCHANGED vouched
              \/ purge.pc = "idle" /\ vouched' = vouched \union {c}
  <2>1. /\ file' \in [lines : SUBSET Calls, mangled : SUBSET Calls, torn : BOOLEAN]
        /\ \/ file'.lines = file.lines /\ file'.mangled = file.mangled \union {c}
           \/ file'.lines = file.lines \union {c} /\ file'.mangled = file.mangled
    <3> DEFINE longer == [file EXCEPT !.mangled = @ \union {c}]
    <3>1. /\ longer \in [lines : SUBSET Calls, mangled : SUBSET Calls, torn : BOOLEAN]
          /\ longer.lines = file.lines /\ longer.mangled = file.mangled \union {c}
      BY <1>2
    <3>2. file' = [longer EXCEPT !.torn = FALSE] \/ file' = [file EXCEPT !.lines = @ \union {c}]
      BY <1>7
    <3> HIDE DEF longer
    <3> QED
      BY <1>2, <3>1, <3>2, Zenon
  <2>2. c \in OnDisk'
    BY <1>1, <2>1 DEF OnDisk
  <2> QED
    BY <1>1, <1>2, <1>4, <1>7, <2>1, <2>2, RecordInv
<1> QED
  <2>1. ~Exposed => ~detached /\ purge.pc = "idle"
    BY DEF Exposed, Inv, Types
  <2> QED
    BY <1>5, <1>6, <1>7, <2>1, Zenon DEF WriteLine, AppendLine, Exposed

LEMMA CommitInv ==
  ASSUME Inv, NEW c \in Calls, Commit(c)
  PROVE  Inv' /\ Implemented
<1>1. /\ call[c].pc = "inserting" /\ setup.postgres /\ purge.pc = "idle"
      /\ UNCHANGED <<setup, clock, file, purge>>
      /\ file \in [lines : SUBSET Calls, mangled : SUBSET Calls, torn : BOOLEAN]
      /\ c \notin file.lines /\ c \notin file.mangled
  BY DEF Commit, Inv, Placed, Types, Over
<1>2. CASE Recorded(c, TRUE) /\ rows' = rows \union {c} /\ vouched' = vouched \union {c}
  <2>1. Moves(c, "written", call[c].ts, TRUE)
    BY <1>2, RequestMoves, Zenon DEF Inv
  <2>2. c \in OnDisk'
    BY <1>1, <1>2 DEF OnDisk
  <2> QED
    BY <1>1, <1>2, <2>1, <2>2, RecordInv, Zenon
<1>3. CASE Recorded(c, FALSE) /\ rows' \in {rows, rows \union {c}} /\ UNCHANGED vouched
  <2>1. Moves(c, "written", call[c].ts, FALSE)
    BY <1>3, RequestMoves, Zenon DEF Inv
  <2> QED
    BY <1>1, <1>3, <2>1, RecordInv, Zenon
<1> QED
  BY <1>2, <1>3, Zenon DEF Commit

-----------------------------------------------------------------------------
(***************************************************************************)
(* The scan leaves the trail alone; its cutoff has passed, because some    *)
(* entry is older than it and no entry is older than the clock's start.    *)
(***************************************************************************)
LEMMA ScanInv ==
  ASSUME Inv, Scan
  PROVE  Inv' /\ Stays
<1> USE DEF Inv
<1>1. /\ setup.retention > 0 /\ ~setup.postgres
      /\ purge' = [pc |-> "scanned", cutoff |-> Cutoff,
                   kept |-> {c \in file.lines \union file.mangled : ~Older(c, Cutoff)}]
      /\ UNCHANGED <<setup, clock, call, file, rows, vouched>>
  BY DEF Scan
<1>2. Cutoff \in Int /\ 0 <= Cutoff /\ Cutoff <= clock - setup.retention
  <2>1. PICK c \in Calls : Older(c, Cutoff)
    BY DEF Scan
  <2>2. Stored(c) \in Nat /\ clock \in Nat /\ setup.retention \in Nat
    BY StoredType DEF Types
  <2> QED
    BY <2>1, <2>2 DEF Older, Cutoff
<1>3. \A c, t : Older(c, t)' <=> Older(c, t)
  BY <1>1 DEF Older, Readable, Stored
<1>4. OnDisk' = OnDisk /\ OnDisk = file.lines \union file.mangled
  BY <1>1 DEF OnDisk
<1>5. /\ purge'.pc = "scanned" /\ purge'.cutoff = Cutoff
      /\ purge'.kept = {c \in file.lines \union file.mangled : ~Older(c, Cutoff)}
  BY <1>1
<1>6. Types'
  <2>1. purge' \in [pc : {"idle", "scanned"}, cutoff : Int, kept : SUBSET Calls]
    BY <1>1, <1>2 DEF Types
  <2> QED
    BY <1>1, <2>1 DEF Types
<1>7. Placed' /\ Promised'
  BY <1>1, <1>4, <1>5 DEF Placed, Promised, Acked
<1>8. Scanned'
  <2>1. \A c \in vouched : c \in purge'.kept \/ Older(c, Cutoff)
    BY <1>4, <1>5 DEF Promised
  <2>2. \A c \in purge'.kept : ~Older(c, Cutoff)
    BY <1>5
  <2>3. (\A c \in vouched' : c \in purge'.kept \/ Older(c, purge.cutoff)')
        /\ \A c \in purge'.kept : ~(Older(c, purge.cutoff)')
    BY <1>1, <1>5, <2>1, <2>2 DEF Older, Readable, Stored
  <2> QED
    BY <1>1, <1>2, <1>5, <2>3 DEF Scanned
<1>9. Stays
  BY <1>1 DEF Stays, Disk, Kept, Entry, OnDisk, Stored
<1> QED
  BY <1>6, <1>7, <1>8, <1>9

(***************************************************************************)
(* The rename: what was vouched for and is not too old is in the copy, and *)
(* the copy holds nothing too old.                                         *)
(***************************************************************************)
LEMMA RenameInv ==
  ASSUME Inv, Rename
  PROVE  Inv' /\ Implemented
<1> USE DEF Inv
<1> DEFINE cutoff == purge.cutoff
<1>1. /\ purge.pc = "scanned" /\ ~setup.postgres /\ setup.retention > 0
      /\ cutoff \in Int /\ 0 <= cutoff /\ cutoff <= clock - setup.retention
      /\ clock \in Nat /\ setup.retention \in Nat
  BY DEF Rename, Placed, Scanned, Types
<1>2. /\ file' = [lines |-> purge.kept \intersect file.lines,
                  mangled |-> purge.kept \intersect file.mangled, torn |-> FALSE]
      /\ vouched' = {c \in vouched : ~Older(c, cutoff)}
      /\ purge' = [pc |-> "idle", cutoff |-> 0, kept |-> {}]
      /\ UNCHANGED <<setup, clock, call, rows>>
  BY DEF Rename, Replaced, Forget, NoPurge
<1> HIDE DEF cutoff
<1>3. /\ file'.lines = purge.kept \intersect file.lines
      /\ file'.mangled = purge.kept \intersect file.mangled
      /\ purge'.pc = "idle" /\ purge'.kept = {}
  BY <1>2
<1>4. OnDisk = file.lines \union file.mangled /\ OnDisk' = purge.kept \intersect OnDisk
  BY <1>1, <1>2, <1>3 DEF OnDisk
<1>5. vouched' \subseteq purge.kept /\ vouched' \subseteq OnDisk'
  BY <1>1, <1>2, <1>4 DEF Scanned, Promised, cutoff
<1>6. \A c \in OnDisk' : ~Older(c, cutoff) /\ c \in OnDisk
  BY <1>1, <1>4 DEF Scanned, cutoff
<1>7. Types'
  <2>1. file' \in [lines : SUBSET Calls, mangled : SUBSET Calls, torn : BOOLEAN]
    BY <1>2 DEF Types
  <2>2. purge' \in [pc : {"idle", "scanned"}, cutoff : Int, kept : SUBSET Calls]
    BY <1>2
  <2> QED
    BY <1>2, <2>1, <2>2 DEF Types
<1>8. Placed' /\ Promised' /\ Scanned'
  BY <1>1, <1>2, <1>3, <1>5 DEF Placed, Promised, Scanned
<1>9. \A c \in OnDisk' : Entry(c)' = Entry(c)
  <2>1. \A c \in OnDisk' : call'[c].ts = call[c].ts /\ (c \in file'.mangled <=> c \in file.mangled)
    BY <1>2, <1>3, <1>4
  <2> QED
    BY <1>2, <2>1, SameEntries, Zenon
<1>10. Disk' \subseteq {e \in Disk : ~AbstractTrail!TrailOlder(e, cutoff)}
  BY <1>1, <1>6, <1>9, OlderIff DEF Disk
<1>11. Kept' = {e \in Kept : ~AbstractTrail!TrailOlder(e, cutoff)} /\ Kept' \subseteq Disk'
  <2>1. \A c \in vouched : AbstractTrail!TrailOlder(Entry(c), cutoff) <=> Older(c, cutoff)
    BY <1>1, OlderIff DEF Promised
  <2>2. Kept' = {Entry(c) : c \in vouched'}
    BY <1>5, <1>9 DEF Kept
  <2> QED
    BY <1>2, <1>5, <2>1, <2>2, Zenon DEF Kept, Disk
<1>12. AbstractTrail!Expire(cutoff)
  BY <1>1, <1>2, <1>10, <1>11 DEF AbstractTrail!Expire, Disk, Kept
<1>13. cutoff \in 0..clock
  BY <1>1
<1> QED
  BY <1>7, <1>8, <1>12, <1>13 DEF Implemented, AbstractTrail!Next

LEMMA PurgeFailsInv ==
  ASSUME Inv, PurgeFails
  PROVE  Inv' /\ Implemented
<1> USE DEF Inv
<1>1. /\ purge' = [pc |-> "idle", cutoff |-> 0, kept |-> {}]
      /\ ~setup.postgres
      /\ vouched' = vouched \union (Acked \intersect OnDisk)
      /\ UNCHANGED <<setup, clock, call, file, rows>>
  BY DEF PurgeFails, Revouch, NoPurge, Placed
<1>2. OnDisk' = OnDisk /\ \A c : Entry(c)' = Entry(c)
  BY <1>1 DEF OnDisk, Entry, Stored
<1>3. vouched \subseteq vouched' /\ vouched' \subseteq OnDisk
  BY <1>1 DEF Promised
<1>4. Types'
  <2>1. purge' \in [pc : {"idle", "scanned"}, cutoff : Int, kept : SUBSET Calls]
    BY <1>1
  <2> QED
    BY <1>1, <1>3, <2>1, OnDiskCalls DEF Types
<1>5. Placed' /\ Promised' /\ Scanned'
  BY <1>1, <1>2, <1>3 DEF Placed, Promised, Scanned
<1>6. AbstractTrail!Vouch
  <2>1. Disk' = Disk /\ Kept \subseteq Kept' /\ Kept' \subseteq Disk
    BY <1>2, <1>3 DEF Disk, Kept
  <2> QED
    BY <1>1, <2>1, Zenon DEF AbstractTrail!Vouch, Disk, Kept
<1> QED
  BY <1>4, <1>5, <1>6 DEF Implemented, AbstractTrail!Next

(***************************************************************************)
(* The DELETE: a cutoff before the clock's start deletes nothing.          *)
(***************************************************************************)
LEMMA DeleteInv ==
  ASSUME Inv, Delete
  PROVE  Inv' /\ Implemented
<1> USE DEF Inv
<1>1. /\ setup.retention > 0 /\ setup.postgres
      /\ clock \in Nat /\ setup.retention \in Nat
      /\ rows' = {c \in rows : ~Older(c, Cutoff)}
      /\ vouched' = {c \in vouched : ~Older(c, Cutoff)}
      /\ UNCHANGED <<setup, clock, call, file, purge>>
  BY DEF Delete, Forget, Types
<1>2. Cutoff \in Int /\ Cutoff = clock - setup.retention
  BY <1>1 DEF Cutoff
<1> HIDE DEF Cutoff
<1>3. OnDisk = rows /\ OnDisk' = rows' /\ \A c : Entry(c)' = Entry(c)
  BY <1>1 DEF OnDisk, Entry, Stored
<1>4. Types' /\ Placed'
  BY <1>1, Zenon DEF Types, Placed
<1>5. Promised' /\ Scanned'
  BY <1>1, <1>3 DEF Promised, Scanned, Placed, Acked
<1>6. CASE 0 <= Cutoff
  <2>1. \A c \in rows : AbstractTrail!TrailOlder(Entry(c), Cutoff) <=> Older(c, Cutoff)
    BY <1>2, <1>3, OlderIff
  <2>2. Disk' = {e \in Disk : ~AbstractTrail!TrailOlder(e, Cutoff)}
    BY <1>1, <1>3, <2>1 DEF Disk
  <2>3. Kept' = {e \in Kept : ~AbstractTrail!TrailOlder(e, Cutoff)}
    BY <1>1, <1>3, <2>1 DEF Kept, Promised
  <2>4. Kept' \subseteq Disk'
    BY <1>3, <1>5 DEF Kept, Disk, Promised
  <2>5. AbstractTrail!Expire(Cutoff)
    BY <1>1, <1>2, <2>2, <2>3, <2>4 DEF AbstractTrail!Expire, Disk, Kept
  <2>6. Cutoff \in 0..clock
    BY <1>1, <1>2, <1>6
  <2> QED
    BY <1>4, <1>5, <2>5, <2>6 DEF Implemented, AbstractTrail!Next
<1>7. CASE ~(0 <= Cutoff)
  <2>1. \A c \in Calls : ~Older(c, Cutoff)
    BY <1>2, <1>7, StoredType DEF Older
  <2>2. rows' = rows /\ vouched' = vouched
    BY <1>1, <2>1 DEF Types
  <2> QED
    BY <1>1, <1>3, <1>4, <1>5, <2>2 DEF Implemented, Stays, Disk, Kept
<1> QED
  BY <1>6, <1>7

-----------------------------------------------------------------------------
(***************************************************************************)
(* A restart: over a table, rows may arrive, and what is acknowledged was  *)
(* vouched for already; over a file, what is on it is vouched for again.   *)
(***************************************************************************)
LEMMA RestartMoves ==
  ASSUME Types, Restart
  PROVE  /\ DOMAIN call' = Calls
         /\ \A c \in Calls :
              Like(call'[c], IF call[c].pc \in {"idle", "done"} THEN call[c].pc ELSE "gone",
                   call[c].ts, call[c].acked)
<1>1. call' = [c \in Calls |-> IF call[c].pc \in {"idle", "done"} THEN call[c]
                               ELSE Request("gone", call[c].ts, call[c].id, call[c].acked,
                                            Covered(c), Passed(c))]
  BY Zenon DEF Restart
<1> QED
  BY <1>1, ZenonT(30) DEF Types, Request, Like, Fields

LEMMA RestartInv ==
  ASSUME Inv, Restart
  PROVE  Inv' /\ Implemented
<1> USE DEF Inv
<1>1. /\ DOMAIN call' = Calls
      /\ \A c \in Calls : /\ Fields(call'[c])
                          /\ call'[c].pc = IF call[c].pc \in {"idle", "done"} THEN call[c].pc
                                           ELSE "gone"
                          /\ call'[c].ts = call[c].ts /\ call'[c].acked = call[c].acked
  BY RestartMoves DEF Like
<1>2. \A c \in Calls : /\ call'[c].pc \in Pcs /\ call'[c].pc # "inserting"
                       /\ call[c].pc \in Over \/ call[c].pc = "inserting" => call'[c].pc \in Over
  BY <1>1 DEF Types, Pcs, Over
<1>3. PICK done \in SUBSET {c \in Calls : call[c].pc = "inserting"} : rows' = rows \union done
  BY Zenon DEF Restart
<1>4. /\ purge' = [pc |-> "idle", cutoff |-> 0, kept |-> {}]
      /\ vouched' = vouched \union (Acked \intersect OnDisk)
      /\ UNCHANGED <<setup, clock>>
      /\ file' = file \/ file' = [file EXCEPT !.torn = TRUE]
  BY Zenon DEF Restart, Revouch, NoPurge
<1>5. /\ file' \in [lines : SUBSET Calls, mangled : SUBSET Calls, torn : BOOLEAN]
      /\ file'.lines = file.lines /\ file'.mangled = file.mangled
  BY <1>4, Zenon DEF Types
<1>6. /\ OnDisk \subseteq OnDisk'
      /\ ~setup.postgres => OnDisk' = OnDisk
      /\ vouched \subseteq vouched' /\ vouched' \subseteq OnDisk
  BY <1>3, <1>4, <1>5 DEF OnDisk, Promised
<1>7. setup.postgres => vouched' = vouched
  BY <1>4 DEF Promised, OnDisk
<1>8. \A c \in OnDisk : Entry(c)' = Entry(c)
  BY <1>1, <1>4, <1>5, OnDiskCalls, SameEntries
<1>9. Types'
  <2>1. purge' \in [pc : {"idle", "scanned"}, cutoff : Int, kept : SUBSET Calls]
    BY <1>4
  <2>2. rows' \subseteq Calls /\ vouched' \subseteq Calls
    BY <1>3, <1>6, OnDiskCalls DEF Types
  <2> QED
    BY <1>1, <1>2, <1>4, <1>5, <2>1, <2>2 DEF Types
<1>10. Placed'
  <2>1. \A c \in Calls : call'[c].acked => call'[c].pc \in Over
    BY <1>1, <1>2 DEF Placed
  <2>2. \A c \in rows' \union file.lines \union file.mangled : call'[c].pc \in Over
    BY <1>2, <1>3 DEF Placed, Types
  <2>3. purge'.pc = "idle" /\ purge'.kept = {}
    BY <1>4
  <2> QED
    BY <1>2, <1>4, <1>5, <2>1, <2>2, <2>3 DEF Placed
<1>11. Promised'
  <2>1. \A c \in done : c \notin Acked
    BY DEF Placed, Over, Acked
  <2>2. Acked' = Acked
    BY <1>1 DEF Acked
  <2> QED
    BY <1>3, <1>4, <1>6, <2>1, <2>2 DEF Promised
<1>12. Scanned'
  BY <1>4 DEF Scanned
<1>13. CASE setup.postgres
  <2>1. Disk \subseteq Disk' /\ Kept' = Kept
    BY <1>6, <1>7, <1>8, <1>13 DEF Disk, Kept, Promised
  <2>2. AbstractTrail!Arrive
    BY <1>4, <2>1 DEF AbstractTrail!Arrive, Disk, Kept
  <2> QED
    BY <1>9, <1>10, <1>11, <1>12, <2>2 DEF Implemented, AbstractTrail!Next
<1>14. CASE ~setup.postgres
  <2>1. Disk' = Disk /\ Kept \subseteq Kept' /\ Kept' \subseteq Disk
    BY <1>6, <1>8, <1>14 DEF Disk, Kept, Promised
  <2>2. AbstractTrail!Vouch
    BY <1>4, <2>1 DEF AbstractTrail!Vouch, Disk, Kept
  <2> QED
    BY <1>9, <1>10, <1>11, <1>12, <2>2 DEF Implemented, AbstractTrail!Next
<1> QED
  BY <1>13, <1>14

-----------------------------------------------------------------------------
LEMMA StepInv ==
  ASSUME Inv, [Next]_vars
  PROVE  Inv' /\ Implemented
<1>1. ASSUME NEW c \in Calls, Begin(c) \/ WriteLine(c) \/ Insert(c) \/ Commit(c) \/ Publish(c)
      PROVE  Inv' /\ Implemented
  BY <1>1, RequestInv, WriteInv, CommitInv DEF Implemented
<1>2. CASE Scan \/ Rename \/ PurgeFails \/ Delete
  BY <1>2, ScanInv, RenameInv, PurgeFailsInv, DeleteInv DEF Implemented
<1>3. CASE ExportTick \/ Export \/ Poll \/ UNCHANGED vars
  <2>1. UNCHANGED <<setup, clock, call, store>>
    BY <1>3, Zenon DEF ExportTick, Export, Poll, vars
  <2> QED
    BY <2>1, ReadersInv DEF Implemented
<1>4. CASE Restart \/ Tick
  BY <1>4, RestartInv, TickInv
<1> QED
  BY <1>1, <1>2, <1>3, <1>4 DEF Next

(***************************************************************************)
(* The audit log implements the abstract trail: an entry that the writer   *)
(* acknowledged outside a replacement of the file stays until a purge      *)
(* whose cutoff it is older than, a purge leaves nothing readable that is  *)
(* older than its cutoff, and a line that does not parse is never purged.  *)
(***************************************************************************)
THEOREM LogImplementsTrail == Spec => TrailImplemented
<1>1. Implemented => [AbstractTrail!Next]_<<clock, setup.retention,
                       {Entry(c) : c \in OnDisk}, {Entry(c) : c \in vouched}>>
  BY DEF Implemented, Stays, Disk, Kept
<1> QED
  BY <1>1, InitInv, StepInv, PTL DEF Spec, TrailImplemented, AbstractTrail!Spec
-----------------------------------------------------------------------------
(***************************************************************************)
(* The scheduled export.  The windows of the bundles are apart and end     *)
(* where the job is; a bundle's entries have their final time, inside its  *)
(* window; and no window is entered before the job's start.                *)
(***************************************************************************)
Windows ==
  /\ export \in [pc : {"idle", "due"}, start : Nat, lastTick : Nat, tick : Nat]
  /\ export.lastTick <= export.tick /\ export.tick <= clock
  /\ \A c \in Calls : call[c].ts <= clock
  /\ \A b \in bundles :
       /\ b.from \in Nat /\ b.to \in Nat /\ b.to <= export.lastTick
       /\ \A c \in b.calls : /\ c \in Calls /\ call[c].pc \in Over
                             /\ Bound(b.from) <= Stored(c) /\ Stored(c) < Bound(b.to)
  /\ \A a, b \in bundles : a # b => a.to <= b.from \/ b.to <= a.from

\* An entry that the job owes a bundle.
Due(c) == c \in Acked /\ c \in Readable /\ Covered(c) /\ ~call[c].late /\ call[c].ts >= export.start
Delivered == \A c \in Calls : Due(c) => \E b \in bundles : c \in b.calls

ExportInv == Windows /\ Delivered

LEMMA SecondGrows ==
  ASSUME NEW s \in Nat, NEW t \in Nat, s <= t
  PROVE  Second(s) \in Nat /\ Second(s) <= Second(t)
<1> DEFINE L == SecondLen
           p == s \div L
           q == t \div L
<1>1. L \in Nat /\ L > 0
  BY AuditAssumption
<1> HIDE DEF L
<1>2. p \in Nat /\ q \in Nat /\ s % L \in 0..(L - 1) /\ t % L \in 0..(L - 1)
      /\ s = L * p + (s % L) /\ t = L * q + (t % L)
  BY <1>1
<1> HIDE DEF p, q
<1>3. p <= q
  <2> SUFFICES ASSUME q + 1 <= p PROVE FALSE
    BY <1>2
  <2>1. L * (q + 1) <= L * p
    BY <1>1, <1>2
  <2>2. L * (q + 1) = L * q + L
    BY <1>1, <1>2
  <2> QED
    BY <1>1, <1>2, <2>1, <2>2
<1>4. L * p <= L * q /\ L * p \in Nat
  BY <1>1, <1>2, <1>3
<1>5. Second(s) = L * p /\ Second(t) = L * q
  BY <1>1, <1>2 DEF Second, L
<1> QED
  BY <1>4, <1>5

LEMMA BoundGrows ==
  ASSUME Types, NEW s \in Nat, NEW t \in Nat, s <= t
  PROVE  Bound(s) \in Nat /\ Bound(t) \in Nat /\ Bound(s) <= Bound(t)
BY SecondGrows DEF Bound, Types

\* The job is past an entry when the end of its last window is.
LEMMA CoveredIff ==
  ASSUME Types, NEW c
  PROVE  Covered(c) <=> Stored(c) < Bound(export.lastTick)
BY DEF Covered, Bound

LEMMA StoredIsBound ==
  ASSUME NEW c
  PROVE  Stored(c) = Bound(call[c].ts)
BY DEF Stored, Bound

\* Steps that leave the job alone: an entry that becomes readable or
\* acknowledged is marked late if the job is past it.
LEMMA ExportKept ==
  ASSUME Inv, ExportInv, UNCHANGED <<setup, export, bundles>>, clock' \in Nat, clock <= clock',
         \A c \in Calls :
           /\ call'[c].ts <= clock'
           /\ call[c].pc \in Over => call'[c].pc \in Over /\ call'[c].ts = call[c].ts,
         \A c \in Calls : call'[c].acked /\ c \in Readable' =>
           /\ call'[c].ts = call[c].ts
           /\ \/ call[c].acked /\ c \in Readable /\ call'[c].late = call[c].late
              \/ call'[c].late = Covered(c)
  PROVE  ExportInv'
<1>1. \A c \in Calls : call'[c].ts = call[c].ts =>
        Stored(c)' = Stored(c) /\ (Covered(c)' <=> Covered(c))
  BY Zenon DEF Stored, Covered, Second
<1>2. \A t : Bound(t)' = Bound(t)
  BY Zenon DEF Bound, Second
<1>3. Windows'
  <2>1. export'.tick <= clock'
    BY SMT DEF ExportInv, Windows, Inv, Types
  <2>2. ASSUME NEW b \in bundles
        PROVE  \A c \in b.calls : /\ c \in Calls /\ call'[c].pc \in Over
                                  /\ Bound(b.from)' <= Stored(c)' /\ Stored(c)' < Bound(b.to)'
    BY <1>1, <1>2, <2>2, Zenon DEF ExportInv, Windows
  <2> QED
    BY <2>1, <2>2, Zenon DEF ExportInv, Windows
<1>4. Delivered'
  <2> SUFFICES ASSUME NEW c \in Calls, Due(c)' PROVE \E b \in bundles : c \in b.calls
    BY Zenon DEF Delivered
  <2>1. /\ call'[c].acked /\ c \in Readable' /\ Covered(c)' /\ ~call'[c].late
        /\ call'[c].ts >= export.start
    BY Zenon DEF Due, Acked
  <2>2. Due(c)
    BY <1>1, <2>1, Zenon DEF Due, Acked
  <2> QED
    BY <2>2, Zenon DEF ExportInv, Delivered
<1> QED
  BY <1>3, <1>4, Zenon DEF ExportInv

LEMMA ExportInit ==
  ASSUME Init
  PROVE  ExportInv
<1>1. \A c \in Calls : call[c].ts = 0 /\ call[c].acked = FALSE
  BY Zenon DEF Init, Request
<1>2. export = [pc |-> "idle", start |-> 0, lastTick |-> 0, tick |-> 0] /\ clock = 0 /\ bundles = {}
  BY Zenon DEF Init, StartExport
<1>3. Windows
  BY <1>1, <1>2 DEF Windows
<1>4. Delivered
  BY <1>1, Zenon DEF Delivered, Due, Acked
<1> QED
  BY <1>3, <1>4, Zenon DEF ExportInv

\* The steps of a request.
LEMMA ExportRequest ==
  ASSUME Inv, ExportInv, NEW c \in Calls,
         Begin(c) \/ WriteLine(c) \/ Insert(c) \/ Commit(c) \/ Publish(c)
  PROVE  ExportInv'
<1>1. /\ setup' = setup /\ export' = export /\ bundles' = bundles /\ clock' = clock
      /\ clock \in Nat /\ clock <= clock /\ clock <= clock'
      /\ DOMAIN call = Calls /\ call[c].ts <= clock
  <2>1. setup' = setup /\ export' = export /\ bundles' = bundles /\ clock' = clock
    BY Zenon DEF Begin, WriteLine, Insert, Commit, Publish, jobs
  <2>2. clock \in Nat /\ DOMAIN call = Calls /\ call[c].ts <= clock
    BY Zenon DEF Inv, Types, ExportInv, Windows
  <2> QED
    BY <2>1, <2>2
<1>2. \A d \in Calls : d # c => /\ call'[d] = call[d]
                                /\ d \in Readable' <=> d \in Readable
  <2>1. \A d \in Calls : d # c => call'[d] = call[d]
    BY <1>1, Zenon DEF Begin, WriteLine, Insert, Commit, Publish, Recorded
  <2>2. CASE Begin(c) \/ Insert(c) \/ Publish(c)
    BY <2>1, <2>2, Zenon DEF Begin, Insert, Publish, store, Readable
  <2>3. CASE Commit(c)
    <3>1. file' = file /\ rows \subseteq rows' /\ rows' \subseteq rows \union {c}
      BY <2>3, Zenon DEF Commit
    <3> QED
      BY <1>1, <2>1, <3>1, Zenon DEF Readable
  <2>4. CASE WriteLine(c)
    <3>1. file \in [lines : SUBSET Calls, mangled : SUBSET Calls, torn : BOOLEAN]
      BY Zenon DEF Inv, Types
    <3>2. \/ file' = file
          \/ file' = [file EXCEPT !.torn = TRUE]
          \/ file' = [file EXCEPT !.lines = @ \union {c}]
          \/ file' = [file EXCEPT !.mangled = @ \union {c}, !.torn = FALSE]
      BY <2>4, Zenon DEF WriteLine, AppendLine
    <3>3. file'.lines = file.lines \/ file'.lines = file.lines \union {c}
      BY <3>1, <3>2, Zenon
    <3>4. rows' = rows
      BY <2>4, Zenon DEF WriteLine
    <3> QED
      BY <1>1, <2>1, <3>3, <3>4, Zenon DEF Readable
  <2> QED
    BY <2>2, <2>3, <2>4, Zenon
<1>3. ASSUME call'[c].ts <= clock,
             call[c].pc \in Over => call'[c].pc \in Over /\ call'[c].ts = call[c].ts,
             call'[c].acked /\ c \in Readable' =>
               /\ call'[c].ts = call[c].ts
               /\ \/ call[c].acked /\ c \in Readable /\ call'[c].late = call[c].late
                  \/ call'[c].late = Covered(c)
      PROVE  ExportInv'
  <2>1. \A d \in Calls : call'[d].ts <= clock'
    <3> SUFFICES ASSUME NEW d \in Calls PROVE call'[d].ts <= clock
      BY <1>1, Zenon
    <3>1. call[d].ts <= clock
      BY Zenon DEF ExportInv, Windows
    <3>2. CASE d = c
      BY <1>3, <3>2, Zenon
    <3>3. CASE d # c
      BY <1>2, <3>1, <3>3, Zenon
    <3> QED
      BY <3>2, <3>3, Zenon
  <2>2. \A d \in Calls : call[d].pc \in Over => call'[d].pc \in Over /\ call'[d].ts = call[d].ts
    BY <1>2, <1>3, Zenon
  <2>3. \A d \in Calls : call'[d].acked /\ d \in Readable' =>
          /\ call'[d].ts = call[d].ts
          /\ \/ call[d].acked /\ d \in Readable /\ call'[d].late = call[d].late
             \/ call'[d].late = Covered(d)
    <3> SUFFICES ASSUME NEW d \in Calls, d # c, call'[d].acked, d \in Readable'
                 PROVE  /\ call'[d].ts = call[d].ts
                        /\ call[d].acked /\ d \in Readable /\ call'[d].late = call[d].late
      BY <1>3, Zenon
    <3> QED
      BY <1>2, Zenon
  <2> QED
    BY <1>1, <2>1, <2>2, <2>3, ExportKept, Zenon
<1>4. CASE Begin(c)
  <2>1. call'[c].ts = clock /\ call'[c].acked = FALSE /\ call[c].pc \notin Over
    BY <1>1, <1>4, Zenon DEF Begin, Request, Over
  <2> QED
    BY <1>1, <1>3, <2>1, Zenon
<1>5. CASE Insert(c)
  <2>1. call'[c].ts = call[c].ts /\ call'[c].acked = FALSE /\ call[c].pc \notin Over
    BY <1>1, <1>5, Zenon DEF Insert, Request, Over
  <2> QED
    BY <1>1, <1>3, <2>1, Zenon
<1>6. CASE Publish(c)
  <2>1. /\ call'[c].ts = call[c].ts /\ call'[c].acked = call[c].acked /\ call'[c].pc \in Over
        /\ call'[c].late = call[c].late /\ Readable' = Readable
    BY <1>1, <1>6, Zenon DEF Publish, Request, Over, Readable, store
  <2> QED
    BY <1>1, <1>3, <2>1, Zenon
<1>7. CASE WriteLine(c) \/ Commit(c)
  <2>1. PICK a : Recorded(c, a)
    BY <1>7, Zenon DEF WriteLine, Commit
  <2>2. call'[c].ts = call[c].ts /\ call'[c].late = Covered(c) /\ call'[c].pc \in Over
    BY <1>1, <2>1, Zenon DEF Recorded, Request, Over
  <2> QED
    BY <1>1, <1>3, <2>2, Zenon
<1> QED
  BY <1>4, <1>5, <1>6, <1>7, Zenon

\* An entry that can be read has its final time.
LEMMA ReadableOver ==
  ASSUME Inv
  PROVE  \A c \in Readable : c \in Calls /\ call[c].pc \in Over
<1>1. file.lines \subseteq Calls /\ rows \subseteq Calls
  BY DEF Inv, Types
<1>2. \A c \in file.lines \union rows : call[c].pc \in Over
  BY Zenon DEF Inv, Placed
<1> QED
  BY <1>1, <1>2, Zenon DEF Readable

\* The retention job, the page and the clock: no entry becomes readable.
LEMMA ExportStore ==
  ASSUME Inv, ExportInv,
         Scan \/ Rename \/ PurgeFails \/ Delete \/ Poll \/ Tick \/ UNCHANGED vars
  PROVE  ExportInv'
<1>1. setup' = setup /\ export' = export /\ bundles' = bundles /\ call' = call
  BY Zenon DEF Scan, Rename, PurgeFails, Delete, Poll, Tick, vars, jobs
<1>2. clock' = clock \/ clock' = clock + 1
  BY Zenon DEF Scan, Rename, PurgeFails, Delete, Poll, Tick, vars
<1>3. clock \in Nat /\ \A c \in Calls : call[c].ts \in Nat /\ call[c].ts <= clock
  BY Zenon DEF Inv, Types, ExportInv, Windows
<1>4. clock' \in Nat /\ clock <= clock' /\ \A c \in Calls : call'[c].ts <= clock'
  BY <1>1, <1>2, <1>3
<1>5. Readable' \subseteq Readable
  <2>1. CASE Rename
    BY <1>1, <2>1, Zenon DEF Rename, Replaced, Readable
  <2>2. CASE Delete
    BY <1>1, <2>2, Zenon DEF Delete, Readable
  <2>3. CASE Scan \/ PurgeFails \/ Poll \/ Tick \/ UNCHANGED vars
    BY <1>1, <2>3, Zenon DEF Scan, PurgeFails, Poll, Tick, vars, store, Readable
  <2> QED
    BY <2>1, <2>2, <2>3, Zenon
<1> QED
  BY <1>1, <1>4, <1>5, ExportKept, Zenon

LEMMA ExportTicks ==
  ASSUME Inv, ExportInv, ExportTick
  PROVE  ExportInv'
<1>1. PICK now \in export.tick + SecondLen .. clock :
        export' = [pc |-> "due", start |-> export.start, lastTick |-> export.lastTick, tick |-> now]
  BY Zenon DEF ExportTick
<1>2. /\ setup' = setup /\ clock' = clock /\ call' = call /\ bundles' = bundles
      /\ Readable' = Readable
  BY Zenon DEF ExportTick, store, Readable
<1>3. SecondLen \in Nat /\ clock \in Nat
      /\ export \in [pc : {"idle", "due"}, start : Nat, lastTick : Nat, tick : Nat]
      /\ export.lastTick <= export.tick
  BY AuditAssumption, Zenon DEF Inv, Types, ExportInv, Windows
<1>4. now \in Nat /\ export.lastTick <= now /\ now <= clock
  BY <1>1, <1>3, SMT
<1>5. /\ export'.lastTick = export.lastTick /\ export'.start = export.start /\ export'.tick = now
      /\ export' \in [pc : {"idle", "due"}, start : Nat, lastTick : Nat, tick : Nat]
  BY <1>1, <1>3, <1>4, Zenon
<1>6. /\ \A c : Stored(c)' = Stored(c) /\ (Covered(c)' <=> Covered(c))
      /\ \A t : Bound(t)' = Bound(t)
  BY <1>2, <1>5, Zenon DEF Stored, Covered, Bound, Second
<1>7. Windows'
  BY <1>2, <1>4, <1>5, <1>6, Zenon DEF ExportInv, Windows
<1>8. Delivered'
  BY <1>2, <1>5, <1>6, Zenon DEF ExportInv, Delivered, Due, Acked
<1> QED
  BY <1>7, <1>8, Zenon DEF ExportInv

\* A bundle's window starts where the last one ended, and holds every
\* readable entry the job goes past.
LEMMA Exports ==
  ASSUME Inv, ExportInv, Export
  PROVE  ExportInv'
<1>1. /\ setup' = setup /\ clock' = clock /\ call' = call /\ Readable' = Readable
  BY Zenon DEF Export, store, Readable
<1>2. /\ export \in [pc : {"idle", "due"}, start : Nat, lastTick : Nat, tick : Nat]
      /\ export.lastTick <= export.tick /\ export.tick <= clock /\ Types
  BY Zenon DEF Inv, ExportInv, Windows
<1>3. /\ \A c : Stored(c)' = Stored(c)
      /\ \A t : Bound(t)' = Bound(t)
  BY <1>1, Zenon DEF Stored, Bound, Second
<1>4. CASE export' = [export EXCEPT !.pc = "idle"] /\ bundles' = bundles
  <2>1. /\ export'.lastTick = export.lastTick /\ export'.start = export.start
        /\ export'.tick = export.tick
        /\ export' \in [pc : {"idle", "due"}, start : Nat, lastTick : Nat, tick : Nat]
    BY <1>2, <1>4
  <2>2. \A c : Covered(c)' <=> Covered(c)
    BY <1>1, <1>3, <2>1, Zenon DEF Covered, Second
  <2>3. Windows'
    BY <1>1, <1>3, <1>4, <2>1, Zenon DEF ExportInv, Windows
  <2>4. Delivered'
    BY <1>1, <1>4, <2>1, <2>2, Zenon DEF ExportInv, Delivered, Due, Acked
  <2> QED
    BY <2>3, <2>4, Zenon DEF ExportInv
<1>5. CASE /\ export' = Advance
           /\ bundles' = bundles \union {[from |-> export.lastTick, to |-> export.tick,
                                          calls |-> Query(export.lastTick, export.tick)]}
  <2> DEFINE new == [from |-> export.lastTick, to |-> export.tick,
                     calls |-> Query(export.lastTick, export.tick)]
  <2>1. /\ export'.lastTick = export.tick /\ export'.start = export.start
        /\ export'.tick = export.tick /\ export.tick <= export.tick
        /\ export' \in [pc : {"idle", "due"}, start : Nat, lastTick : Nat, tick : Nat]
    BY <1>2, <1>5 DEF Advance
  <2>2. /\ new.from = export.lastTick /\ new.to = export.tick
        /\ new.calls = Query(export.lastTick, export.tick)
    BY Zenon
  <2>3. \A b \in bundles : b.to <= export.tick /\ b.to <= new.from
    <3>1. \A b \in bundles : b.to \in Nat /\ b.to <= export.lastTick
      BY Zenon DEF ExportInv, Windows
    <3> QED
      BY <1>2, <2>2, <3>1
  <2>4. \A c \in new.calls : /\ c \in Calls /\ call[c].pc \in Over
                             /\ Bound(new.from) <= Stored(c) /\ Stored(c) < Bound(new.to)
    <3>1. \A c \in Readable : c \in Calls /\ call[c].pc \in Over
      BY ReadableOver, Zenon
    <3> QED
      BY <2>2, <3>1, Zenon DEF Query
  <2> HIDE DEF new
  <2>5. bundles' = bundles \union {new}
    BY <1>5, Zenon DEF new
  <2>6. Windows'
    <3>1. \A b \in bundles' :
            /\ b.from \in Nat /\ b.to \in Nat /\ b.to <= export'.lastTick
            /\ \A c \in b.calls : /\ c \in Calls /\ call'[c].pc \in Over
                                  /\ Bound(b.from)' <= Stored(c)' /\ Stored(c)' < Bound(b.to)'
      <4> SUFFICES ASSUME NEW b \in bundles'
                   PROVE  /\ b.from \in Nat /\ b.to \in Nat /\ b.to <= export.tick
                          /\ \A c \in b.calls : /\ c \in Calls /\ call[c].pc \in Over
                                  /\ Bound(b.from) <= Stored(c) /\ Stored(c) < Bound(b.to)
        BY <1>1, <1>3, <2>1, Zenon
      <4>1. CASE b \in bundles
        BY <2>3, <4>1, Zenon DEF ExportInv, Windows
      <4>2. CASE b = new
        BY <1>2, <2>1, <2>2, <2>4, <4>2, Zenon
      <4> QED
        BY <2>5, <4>1, <4>2, Zenon
    <3>2. \A a, b \in bundles' : a # b => a.to <= b.from \/ b.to <= a.from
      BY <2>3, <2>5, Zenon DEF ExportInv, Windows
    <3> QED
      BY <1>1, <1>2, <2>1, <3>1, <3>2, Zenon DEF ExportInv, Windows
  <2>7. Delivered'
    <3> SUFFICES ASSUME NEW c \in Calls, Due(c)' PROVE \E b \in bundles' : c \in b.calls
      BY Zenon DEF Delivered
    <3>1. /\ c \in Acked /\ c \in Readable /\ ~call[c].late /\ call[c].ts >= export.start
          /\ Covered(c)'
      BY <1>1, <2>1, Zenon DEF Due, Acked
    <3>2. Stored(c) < Bound(export.tick)
      BY <1>1, <1>3, <2>1, <3>1, Zenon DEF Covered, Bound, Second
    <3>3. CASE Covered(c)
      BY <2>5, <3>1, <3>3, Zenon DEF ExportInv, Delivered, Due
    <3>4. CASE ~Covered(c)
      <4>1. Bound(export.lastTick) \in Nat /\ Stored(c) \in Nat
        BY <1>2, BoundGrows, StoredIsBound DEF Types
      <4>2. Bound(export.lastTick) <= Stored(c)
        BY <1>2, <3>4, <4>1, CoveredIff
      <4> QED
        BY <2>2, <2>5, <3>1, <3>2, <4>2, Zenon DEF Query
    <3> QED
      BY <3>3, <3>4, Zenon
  <2> QED
    BY <2>6, <2>7, Zenon DEF ExportInv
<1> QED
  BY <1>4, <1>5, Zenon DEF Export

\* The job starts over at the restart: what was recorded until then is not
\* owed a bundle by the new one unless its time is the restart's, which no
\* window is past yet.
LEMMA ExportRestart ==
  ASSUME Inv, ExportInv, Restart
  PROVE  ExportInv'
<1>1. /\ setup' = setup /\ clock' = clock /\ bundles' = bundles
      /\ export' = [pc |-> "idle", start |-> clock, lastTick |-> clock, tick |-> clock]
      /\ call' = [c \in Calls |-> IF call[c].pc \in {"idle", "done"} THEN call[c]
                              ELSE Request("gone", call[c].ts, call[c].id, call[c].acked,
                                           Covered(c), Passed(c))]
  BY Zenon DEF Restart, StartExport
<1>2. \A c \in Calls : /\ call'[c].ts = call[c].ts
                       /\ call[c].pc \in Over => call'[c].pc \in Over
  <2> SUFFICES ASSUME NEW c \in Calls
               PROVE  /\ call'[c].ts = call[c].ts
                      /\ call[c].pc \in Over => call'[c].pc \in Over
    BY Zenon
  <2>1. CASE call[c].pc \in {"idle", "done"}
    BY <1>1, <2>1, Zenon
  <2>2. CASE call[c].pc \notin {"idle", "done"}
    <3>1. call'[c] = Request("gone", call[c].ts, call[c].id, call[c].acked, Covered(c), Passed(c))
      BY <1>1, <2>2, Zenon
    <3>2. call'[c].ts = call[c].ts /\ call'[c].pc = "gone"
      BY <3>1, SMT DEF Request
    <3> QED
      BY <3>2, Zenon DEF Over
  <2> QED
    BY <2>1, <2>2, Zenon
<1>3. /\ \A c \in Calls : Stored(c)' = Stored(c)
      /\ \A t : Bound(t)' = Bound(t)
  BY <1>1, <1>2, Zenon DEF Stored, Bound, Second
<1>4. /\ export \in [pc : {"idle", "due"}, start : Nat, lastTick : Nat, tick : Nat]
      /\ export.lastTick <= export.tick /\ export.tick <= clock /\ clock \in Nat /\ Types
      /\ \A b \in bundles : b.to \in Nat /\ b.to <= export.lastTick
      /\ \A c \in Calls : call[c].ts \in Nat /\ call[c].ts <= clock
  BY Zenon DEF Inv, Types, ExportInv, Windows
<1>5. clock <= clock /\ \A b \in bundles : b.to <= clock
  BY <1>4
<1>6. /\ export'.lastTick = clock /\ export'.start = clock /\ export'.tick = clock
      /\ export' \in [pc : {"idle", "due"}, start : Nat, lastTick : Nat, tick : Nat]
  BY <1>1, <1>4, Zenon
<1>7. Windows'
  <2>1. \A b \in bundles :
          \A c \in b.calls : /\ c \in Calls /\ call'[c].pc \in Over
                             /\ Bound(b.from)' <= Stored(c)' /\ Stored(c)' < Bound(b.to)'
    BY <1>2, <1>3, Zenon DEF ExportInv, Windows
  <2>2. \A c \in Calls : call'[c].ts <= clock
    BY <1>2, <1>4, Zenon
  <2> QED
    BY <1>1, <1>4, <1>5, <1>6, <2>1, <2>2, Zenon DEF ExportInv, Windows
<1>8. Delivered'
  <2> SUFFICES ASSUME NEW c \in Calls, Due(c)' PROVE FALSE
    BY Zenon DEF Delivered
  <2>1. call[c].ts >= clock /\ Covered(c)'
    BY <1>2, <1>6, Zenon DEF Due
  <2>2. call[c].ts = clock
    BY <1>4, <2>1
  <2>3. Stored(c) < Bound(clock)
    BY <1>1, <1>3, <1>6, <2>1, Zenon DEF Covered, Bound, Second
  <2>4. Stored(c) = Bound(clock)
    BY <2>2, StoredIsBound, Zenon
  <2>5. Bound(clock) \in Nat
    BY <1>4, BoundGrows
  <2> QED
    BY <2>3, <2>4, <2>5
<1> QED
  BY <1>7, <1>8, Zenon DEF ExportInv

\* Windows that are apart share no entry.
LEMMA ExportedOnceFollows ==
  ASSUME Inv, ExportInv
  PROVE  ExportedOnce
<1>1. ASSUME NEW a \in bundles, NEW b \in bundles, NEW c \in a.calls, c \in b.calls, a.to <= b.from
      PROVE  FALSE
  <2>1. /\ a.to \in Nat /\ b.from \in Nat /\ Types /\ c \in Calls
        /\ Stored(c) < Bound(a.to) /\ Bound(b.from) <= Stored(c)
    BY <1>1, Zenon DEF Inv, ExportInv, Windows
  <2>2. Bound(a.to) \in Nat /\ Bound(b.from) \in Nat /\ Bound(a.to) <= Bound(b.from)
    BY <1>1, <2>1, BoundGrows
  <2>3. Stored(c) \in Nat
    BY <2>1, StoredType, Zenon
  <2> QED
    BY <2>1, <2>2, <2>3
<1>2. \A a, b \in bundles : a # b => a.calls \intersect b.calls = {}
  <2> SUFFICES ASSUME NEW a \in bundles, NEW b \in bundles, a # b,
                      NEW c \in a.calls, c \in b.calls
               PROVE  FALSE
    BY Zenon
  <2>1. a.to <= b.from \/ b.to <= a.from
    BY Zenon DEF ExportInv, Windows
  <2> QED
    BY <1>1, <2>1, Zenon
<1> QED
  BY <1>2, Zenon DEF ExportInv, Delivered, Due, ExportedOnce, Acked

\* Each entry goes out in one evidence bundle: startScheduledExportJob, over
\* all its windows, retries after failed bundles and restarts, never puts an
\* entry in two, and puts every readable entry recorded before the job was
\* past its second in one, for any number of requests and any second length.
THEOREM ExportsOnce == Spec => []ExportedOnce
<1>1. Init => ExportInv
  BY ExportInit, Zenon
<1>2. Inv /\ ExportInv /\ [Next]_vars => ExportInv'
  <2> SUFFICES ASSUME Inv, ExportInv, [Next]_vars PROVE ExportInv'
    BY Zenon
  <2>1. ASSUME NEW c \in Calls, Begin(c) \/ WriteLine(c) \/ Insert(c) \/ Commit(c) \/ Publish(c)
        PROVE  ExportInv'
    BY <2>1, ExportRequest, Zenon
  <2>2. CASE Scan \/ Rename \/ PurgeFails \/ Delete \/ Poll \/ Tick \/ UNCHANGED vars
    BY <2>2, ExportStore, Zenon
  <2>3. CASE ExportTick
    BY <2>3, ExportTicks, Zenon
  <2>4. CASE Export
    BY <2>4, Exports, Zenon
  <2>5. CASE Restart
    BY <2>5, ExportRestart, Zenon
  <2> QED
    BY <2>1, <2>2, <2>3, <2>4, <2>5, Zenon DEF Next
<1>3. Inv /\ ExportInv => ExportedOnce
  BY ExportedOnceFollows, Zenon
<1> QED
  BY <1>1, <1>2, <1>3, InitInv, StepInv, PTL DEF Spec

-----------------------------------------------------------------------------
(***************************************************************************)
(* The live view.  Of the ring, the page's cursor is an ID of this life or *)
(* of an earlier one, and an entry that was shown is still in the ring     *)
(* only under an ID the cursor has reached in this life.  Of the table,    *)
(* the cursor is the id of a row that was shown, and a row whose commit    *)
(* came after that is marked as passed.                                    *)
(***************************************************************************)
HasId == {c \in Calls : call[c].id > 0}

Ids ==
  /\ \A c \in Calls : /\ call[c].id \in Nat /\ call[c].id <= Cardinality(HasId)
                      /\ call[c].pc \in {"idle", "serving"} => call[c].id = 0
                      /\ call[c].pc = "inserting" \/ c \in rows => call[c].id > 0
  /\ \A c, d \in Calls : call[c].id = call[d].id /\ call[c].id > 0 => c = d

Seen(c) == \E a \in client.seen : a.item = c

ViewTypes ==
  /\ life \in Nat /\ setup.limit \in Nat \ {0} /\ setup.capacity \in Nat \ {0}
  /\ ring.nextID \in Nat /\ ring.entries \in Seq([id : Nat, item : Calls])
  /\ client.life \in Nat /\ client.life <= life
  /\ client.lastID \in Nat /\ client.floor \in Nat
  /\ \A a \in client.seen : a.id \in Nat /\ a.item \in Calls

RingView ==
  /\ \A e \in Range(ring.entries) :
       /\ e.id \in Nat /\ e.id <= ring.nextID
       /\ e.item \in Calls /\ call[e.item].pc = "done"
       /\ Seen(e.item) => client.life = life /\ e.id <= client.lastID
  /\ \A e, f \in Range(ring.entries) : e.id = f.id \/ e.item = f.item => e = f
  /\ \A a \in client.seen : call[a.item].pc = "done"
  /\ client.life = life =>
       /\ client.lastID <= ring.nextID
       /\ \A e \in Range(ring.entries) :
            /\ Mine(e.item) /\ e.id > client.floor /\ e.id <= client.lastID
            /\ e.id > ring.nextID - Reach
            => Seen(e.item)

TableView ==
  /\ \A a \in client.seen : /\ a.id = call[a.item].id /\ a.id <= client.lastID
                            /\ call[a.item].pc \in Over
  /\ client.lastID = 0 \/ \E a \in client.seen : a.id = client.lastID
  /\ \A c \in Calls : call[c].passed => client.lastID > call[c].id
  /\ \A c \in rows : ~call[c].passed /\ Mine(c) /\ call[c].id <= client.lastID => Seen(c)

ViewInv ==
  /\ ViewTypes /\ Ids /\ LiveViewComplete
  /\ ~setup.postgres => RingView
  /\ setup.postgres => TableView

LEMMA IdsKept ==
  ASSUME Inv, Ids, \A c \in Calls : call'[c].id = call[c].id,
         \A c \in Calls : call'[c].pc \in {"idle", "serving"} => call[c].pc \in {"idle", "serving"},
         \A c \in Calls : call'[c].pc = "inserting" => call[c].pc = "inserting",
         \A c \in rows' : c \in rows \/ call[c].pc = "inserting"
  PROVE  Ids'
<1>1. HasId' = HasId
  BY Zenon DEF HasId
<1> QED
  BY <1>1, ZenonT(30) DEF Ids

LEMMA IdsInsert ==
  ASSUME Inv, Ids, NEW c \in Calls, Insert(c)
  PROVE  Ids'
<1> DEFINE n == Cardinality(HasId)
           id == 1 + Cardinality({d \in Calls : call[d].id > 0})
<1>1. id = n + 1 /\ n \in Nat /\ IsFiniteSet(HasId)
  <2>1. IsFiniteSet(HasId)
    BY AuditAssumption, FS_Subset, Zenon DEF HasId
  <2>2. n \in Nat
    BY <2>1, FS_CardinalityType, Zenon
  <2>3. id = 1 + n
    BY Zenon DEF HasId
  <2> QED
    BY <2>1, <2>2, <2>3
<1>2. /\ call' = [call EXCEPT ![c] = Request("inserting", call[c].ts, id, FALSE, FALSE, FALSE)]
      /\ rows' = rows /\ call[c].pc = "serving" /\ DOMAIN call = Calls
  BY Zenon DEF Insert, store, Inv, Types
<1> HIDE DEF id, n
<1>3. /\ call'[c].id = id /\ call'[c].pc = "inserting"
      /\ \A d \in Calls \ {c} : call'[d] = call[d]
  BY <1>2, Zenon DEF Request
<1>4. call[c].id = 0 /\ c \notin rows
  <2>1. c \notin rows
    BY <1>2, Zenon DEF Inv, Placed, Over
  <2> QED
    BY <1>2, <2>1, Zenon DEF Ids
<1>5. HasId' = HasId \union {c} /\ c \notin HasId
  BY <1>1, <1>3, <1>4 DEF HasId
<1>6. Cardinality(HasId)' = n + 1
  BY <1>1, <1>5, FS_AddElement DEF n
<1>7. \A d \in Calls \ {c} : call[d].id \in Nat /\ call[d].id <= n
  BY Zenon DEF Ids, n
<1>8. ASSUME NEW d \in Calls
      PROVE  /\ call'[d].id \in Nat /\ call'[d].id <= Cardinality(HasId)'
             /\ call'[d].pc \in {"idle", "serving"} => call'[d].id = 0
             /\ call'[d].pc = "inserting" \/ d \in rows' => call'[d].id > 0
  <2>1. CASE d = c
    BY <1>1, <1>3, <1>6, <2>1
  <2>2. CASE d # c
    <3>1. call'[d] = call[d] /\ call[d].id \in Nat /\ call[d].id <= Cardinality(HasId)'
      BY <1>1, <1>3, <1>6, <1>7, <2>2
    <3> QED
      BY <1>2, <3>1, Zenon DEF Ids
  <2> QED
    BY <2>1, <2>2, Zenon
<1>9. ASSUME NEW d \in Calls, NEW e \in Calls, call'[d].id = call'[e].id, call'[d].id > 0
      PROVE  d = e
  <2>1. CASE d # c /\ e # c
    BY <1>3, <1>9, <2>1, Zenon DEF Ids
  <2>2. CASE d = c \/ e = c
    BY <1>1, <1>3, <1>7, <1>9, <2>2
  <2> QED
    BY <2>1, <2>2, Zenon
<1> QED
  BY <1>8, <1>9, Zenon DEF Ids

LEMMA ReachBound ==
  ASSUME ViewTypes
  PROVE  Reach \in Nat /\ Reach <= setup.limit
<1> DEFINE S == {setup.capacity, setup.limit}
<1>1. setup.capacity \in Nat /\ setup.limit \in Nat
  BY Zenon DEF ViewTypes
<1>2. \E x \in S : \A y \in S : x <= y
  BY <1>1
<1>3. Min(S) \in S /\ \A y \in S : Min(S) <= y
  BY <1>2, Zenon DEF Min
<1> QED
  BY <1>1, <1>3 DEF Reach

\* An entry near enough to the newest has fewer than the limit after it.
LEMMA FewNewer ==
  ASSUME NEW S, NEW n \in Nat, NEW k \in Nat, NEW i \in Nat, i <= n, i > n - k,
         \A e \in S : e.id \in Nat /\ e.id <= n,
         \A e, f \in S : e.id = f.id => e = f,
         NEW T, T \subseteq S, \A f \in T : f.id > i
  PROVE  Cardinality(T) \in Nat /\ Cardinality(T) < k
<1> DEFINE I == (i + 1)..n
           g == [f \in T |-> f.id]
<1>1. g \in Injection(T, I)
  <2>1. g \in [T -> I]
    <3>1. \A f \in T : f.id \in I
      OBVIOUS
    <3> QED
      BY <3>1, Zenon
  <2>2. \A e, f \in T : g[e] = g[f] => e = f
    BY Zenon
  <2> QED
    BY <2>1, <2>2, Zenon DEF Injection, IsInjective
<1>2. IsFiniteSet(I) /\ Cardinality(I) = IF i + 1 > n THEN 0 ELSE n - (i + 1) + 1
  BY FS_Interval
<1> HIDE DEF g, I
<1>3. IsFiniteSet(T) /\ Cardinality(T) <= Cardinality(I)
  BY <1>1, <1>2, FS_Injection, Zenon
<1>4. Cardinality(T) \in Nat
  BY <1>3, FS_CardinalityType, Zenon
<1>5. k > 0
  OBVIOUS
<1> QED
  BY <1>2, <1>3, <1>4, <1>5

\* What a poll answers from the ring.
LEMMA RingAnswer ==
  ASSUME Inv, ViewInv, ~setup.postgres, NEW got, got = Since(client.lastID)
  PROVE  /\ \A e \in got : /\ e \in Range(ring.entries) /\ Mine(e.item)
                           /\ client.life = life => e.id > client.lastID
                           /\ ~Seen(e.item)
         /\ \A e \in Range(ring.entries) :
              Mine(e.item) /\ e.id > Floor /\ e.id > ring.nextID - Reach
                => Seen(e.item) \/ e \in got
<1> DEFINE E == Range(ring.entries)
           new == {e \in E : /\ e.id > ResumeAt(ring, client.lastID)
                             /\ e.item \in {c \in Calls : Mine(c)}}
<1>1. ViewTypes /\ RingView
  BY Zenon DEF ViewInv
<1>2. got = {e \in new : Cardinality({f \in new : f.id > e.id}) < setup.limit}
  BY Zenon DEF Since, RingSince, MostRecent
<1>3. client.lastID \in Nat /\ ring.nextID \in Nat /\ client.life \in Nat /\ life \in Nat
      /\ Reach \in Nat /\ setup.limit \in Nat /\ Reach <= setup.limit
  BY <1>1, ReachBound, Zenon DEF ViewTypes
<1>4. client.life = life => ResumeAt(ring, client.lastID) = client.lastID
  BY <1>1, <1>3 DEF RingView, ResumeAt
<1>5. client.life # life => ResumeAt(ring, client.lastID) = Floor
  BY <1>3 DEF ResumeAt, Floor
<1>6. \A e \in E : e.id \in Nat /\ e.id <= ring.nextID /\ e.item \in Calls
  BY <1>1, Zenon DEF RingView
<1> HIDE DEF E
<1>7. ASSUME NEW e \in got
      PROVE  /\ e \in E /\ Mine(e.item) /\ (client.life = life => e.id > client.lastID)
             /\ ~Seen(e.item)
  <2>1. e \in E /\ Mine(e.item) /\ (client.life = life => e.id > client.lastID) /\ e.id \in Nat
    BY <1>2, <1>4, <1>6, <1>7, Zenon
  <2>2. Seen(e.item) => client.life = life /\ e.id <= client.lastID
    BY <1>1, <2>1, Zenon DEF RingView, E
  <2> QED
    BY <1>3, <2>1, <2>2
<1>8. ASSUME NEW e \in E, Mine(e.item), e.id > Floor, e.id > ring.nextID - Reach
      PROVE  Seen(e.item) \/ e \in got
  <2>1. e \in new => e \in got
    <3> DEFINE T == {f \in new : f.id > e.id}
    <3>1. Cardinality(T) \in Nat /\ Cardinality(T) < Reach
      <4>1. \A f, h \in E : f.id = h.id => f = h
        BY <1>1, Zenon DEF RingView, E
      <4>2. T \subseteq E /\ (\A f \in T : f.id > e.id) /\ e.id \in Nat /\ e.id <= ring.nextID
        BY <1>6, Zenon
      <4> HIDE DEF T, new
      <4> QED
        BY <1>3, <1>6, <1>8, <4>1, <4>2, FewNewer, Zenon
    <3>2. Cardinality(T) < setup.limit
      <4> HIDE DEF T, new
      <4> QED
        BY <1>3, <3>1
    <3> QED
      BY <1>2, <3>2, Zenon
  <2>2. CASE client.life # life
    BY <1>5, <1>6, <1>8, <2>1, <2>2, Zenon
  <2>3. CASE client.life = life /\ e.id > client.lastID
    BY <1>4, <1>6, <1>8, <2>1, <2>3, Zenon
  <2>4. CASE client.life = life /\ e.id <= client.lastID
    <3>1. Floor = client.floor
      BY <2>4, Zenon DEF Floor
    <3> QED
      BY <1>1, <1>8, <2>4, <3>1, Zenon DEF RingView, E
  <2> QED
    BY <1>3, <1>6, <2>2, <2>3, <2>4
<1> QED
  BY <1>7, <1>8, Zenon DEF E

\* What a poll answers from the table.
LEMMA TableAnswer ==
  ASSUME Inv, ViewInv, setup.postgres, NEW got, got = Since(client.lastID)
  PROVE  /\ \A e \in got : /\ e.item \in rows /\ Mine(e.item) /\ e.id = call[e.item].id
                           /\ e.id > client.lastID /\ ~Seen(e.item)
         /\ \A c \in rows :
              /\ Mine(c) /\ call[c].id > client.lastID
              /\ \/ \E e \in got : call[c].id <= e.id
                 \/ c \in OwedByTable
              => [id |-> call[c].id, item |-> c] \in got
<1> DEFINE new == {c \in rows : call[c].id > client.lastID /\ Mine(c)}
           before(c) == {d \in new : call[d].id < call[c].id}
           first == {c \in new : Cardinality(before(c)) < setup.limit}
<1>1. ViewTypes /\ TableView /\ Ids
  BY Zenon DEF ViewInv
<1>2. got = {[id |-> call[c].id, item |-> c] : c \in first}
  BY Zenon DEF Since, RowsSince
<1>3. rows \subseteq Calls /\ IsFiniteSet(rows)
  <2>1. rows \subseteq Calls
    BY Zenon DEF Inv, Types
  <2> QED
    BY <2>1, AuditAssumption, FS_Subset, Zenon
<1>4. client.lastID \in Nat /\ setup.limit \in Nat
  BY <1>1 DEF ViewTypes
<1>5. \A c \in rows : call[c].id \in Nat
  BY <1>1, <1>3, Zenon DEF Ids
<1>6. new \subseteq rows /\ IsFiniteSet(new)
  BY <1>3, FS_Subset, Zenon
<1>7. \A c : before(c) \subseteq new /\ IsFiniteSet(before(c)) /\ Cardinality(before(c)) \in Nat
  BY <1>6, FS_Subset, FS_CardinalityType, Zenon
<1>8. \A c \in new : c \in first <=> Cardinality(before(c)) < setup.limit
  BY Zenon
<1>9. \A c \in first : c \in rows /\ call[c].id > client.lastID /\ Mine(c)
  BY Zenon
<1>10. \A c \in rows : call[c].id > client.lastID /\ Mine(c) => c \in new
  BY Zenon
<1>11. \A c, d : d \in before(c) <=> d \in new /\ call[d].id < call[c].id
  BY Zenon
<1> HIDE DEF first, before
<1>12. ASSUME NEW e \in got
       PROVE  /\ e.item \in rows /\ Mine(e.item) /\ e.id = call[e.item].id
              /\ e.id > client.lastID /\ ~Seen(e.item)
  <2>1. PICK c \in first : e = [id |-> call[c].id, item |-> c]
    BY <1>2, <1>12, Zenon
  <2>2. e.id = call[c].id /\ e.item = c
    BY <2>1, Zenon
  <2>3. ASSUME NEW a \in client.seen, a.item = c
        PROVE  FALSE
    <3>1. a.id = call[c].id /\ a.id <= client.lastID
      BY <1>1, <2>3, Zenon DEF TableView
    <3> QED
      BY <1>4, <1>5, <1>9, <3>1
  <2> QED
    BY <1>9, <2>2, <2>3, Zenon DEF Seen
<1>13. ASSUME NEW c \in rows, Mine(c), call[c].id > client.lastID,
              NEW e \in got, call[c].id <= e.id
       PROVE  c \in first
  <2>1. PICK l \in first : e = [id |-> call[l].id, item |-> l]
    BY <1>2, <1>13, Zenon
  <2>2. call[c].id <= call[l].id /\ l \in rows /\ l \in new
    BY <1>9, <1>10, <1>13, <2>1, Zenon
  <2>3. before(c) \subseteq before(l)
    BY <1>5, <1>6, <1>11, <2>2
  <2>4. Cardinality(before(c)) <= Cardinality(before(l))
    BY <1>7, <2>3, FS_Subset, Zenon
  <2>5. Cardinality(before(l)) < setup.limit
    BY <1>8, <2>2, <2>1, Zenon
  <2>6. Cardinality(before(c)) < setup.limit
    BY <1>4, <1>7, <2>4, <2>5
  <2> QED
    BY <1>8, <1>10, <1>13, <2>6, Zenon
<1>14. ASSUME NEW c \in rows, Mine(c), call[c].id > client.lastID, c \in OwedByTable
       PROVE  c \in first
  <2> DEFINE due == {d \in rows : ~call[d].passed}
             D == {d \in due : Mine(d) /\ call[d].id > client.lastID}
  <2>1. Cardinality(D) <= setup.limit
    <3>1. ~(Cardinality(D) > setup.limit)
      BY <1>14, Zenon DEF OwedByTable
    <3>2. Cardinality(D) \in Nat
      <4>1. D \subseteq rows
        BY Zenon
      <4> HIDE DEF D
      <4> QED
        BY <1>3, <4>1, FS_Subset, FS_CardinalityType, Zenon
    <3> HIDE DEF D
    <3> QED
      BY <1>4, <3>1, <3>2
  <2>2. new \subseteq D
    <3> SUFFICES ASSUME NEW d \in new, call[d].passed PROVE FALSE
      BY Zenon
    <3>1. d \in rows /\ call[d].id > client.lastID /\ client.lastID > call[d].id
      BY <1>1, <1>3, Zenon DEF TableView
    <3> QED
      BY <1>4, <1>5, <3>1
  <2>3. c \in new /\ D \subseteq rows
    BY <1>10, <1>14, Zenon
  <2> HIDE DEF D, new
  <2>4. IsFiniteSet(D)
    BY <1>3, <2>3, FS_Subset, Zenon
  <2>5. before(c) \subseteq D \ {c} /\ c \in D
    <3>1. ~(call[c].id < call[c].id)
      BY <1>5
    <3> QED
      BY <1>11, <2>2, <2>3, <3>1, Zenon
  <2>6. Cardinality(D \ {c}) = Cardinality(D) - 1 /\ IsFiniteSet(D \ {c})
    BY <2>4, <2>5, FS_RemoveElement
  <2>7. Cardinality(before(c)) <= Cardinality(D \ {c})
    BY <2>5, <2>6, FS_Subset, Zenon
  <2>8. Cardinality(D) \in Nat /\ Cardinality(before(c)) \in Nat
    BY <1>7, <2>4, FS_CardinalityType, Zenon
  <2>9. Cardinality(before(c)) < setup.limit
    BY <1>4, <2>1, <2>6, <2>7, <2>8
  <2> QED
    BY <1>8, <2>3, <2>9, Zenon
<1>15. \A c \in first : [id |-> call[c].id, item |-> c] \in got
  BY <1>2, Zenon
<1> QED
  BY <1>12, <1>13, <1>14, <1>15, Zenon

\* The entries of an answer as the page keeps them.
Answer(got) == {[poll |-> client.polls + 1, id |-> e.id, item |-> e.item] : e \in got}

\* What a poll does to the page.
LEMMA PollMoves ==
  ASSUME Poll, NEW got, got = Since(client.lastID)
  PROVE  /\ UNCHANGED <<setup, life, call, rows, ring>>
         /\ client'.owed = client.owed \union Owed
         /\ client'.seen = client.seen \union Answer(got)
         /\ \/ /\ got = {}
               /\ client'.life = client.life /\ client'.floor = client.floor
               /\ client'.lastID = client.lastID
            \/ \E last \in got :
                 /\ \A e \in got : e.id <= last.id
                 /\ client'.life = life /\ client'.floor = Floor /\ client'.lastID = last.id
<1>1. UNCHANGED <<setup, life, call, rows, ring>>
  BY Zenon DEF Poll, store
<1>2. CASE /\ got = {}
           /\ client' = [polls |-> client.polls + 1, life |-> client.life, floor |-> client.floor,
                         lastID |-> client.lastID, seen |-> client.seen,
                         owed |-> client.owed \union Owed]
  <2>1. /\ client'.owed = client.owed \union Owed /\ client'.seen = client.seen
        /\ client'.life = client.life /\ client'.floor = client.floor
        /\ client'.lastID = client.lastID
    BY <1>2, Zenon
  <2>2. Answer(got) = {}
    BY <1>2, Zenon DEF Answer
  <2> QED
    BY <1>1, <1>2, <2>1, <2>2, Zenon
<1>3. ASSUME NEW last \in got, \A e \in got : e.id <= last.id,
             client' = [polls |-> client.polls + 1, life |-> life, floor |-> Floor,
                        lastID |-> last.id, seen |-> client.seen \union Answer(got),
                        owed |-> client.owed \union Owed]
      PROVE  /\ client'.owed = client.owed \union Owed
             /\ client'.seen = client.seen \union Answer(got)
             /\ client'.life = life /\ client'.floor = Floor /\ client'.lastID = last.id
  BY <1>3, Zenon
<1>4. \/ /\ got = {}
         /\ client' = [polls |-> client.polls + 1, life |-> client.life, floor |-> client.floor,
                       lastID |-> client.lastID, seen |-> client.seen,
                       owed |-> client.owed \union Owed]
      \/ \E last \in got :
           /\ \A e \in got : e.id <= last.id
           /\ client' = [polls |-> client.polls + 1, life |-> life, floor |-> Floor,
                         lastID |-> last.id, seen |-> client.seen \union Answer(got),
                         owed |-> client.owed \union Owed]
  BY Zenon DEF Poll, Answer
<1> QED
  BY <1>1, <1>2, <1>3, <1>4, Zenon

\* A poll shows what is owed, once.
LEMMA PollShows ==
  ASSUME Poll, ViewTypes, LiveViewComplete, NEW got, got = Since(client.lastID),
         \A e \in got : e.id \in Nat /\ e.item \in Calls /\ Mine(e.item) /\ ~Seen(e.item),
         \A e, f \in got : e.item = f.item => e.id = f.id,
         \A c \in Owed : Seen(c) \/ \E e \in got : e.item = c
  PROVE  /\ \A c : Seen(c)' <=> Seen(c) \/ \E e \in got : e.item = c
         /\ \A a \in client'.seen :
              a \in client.seen \/ \E e \in got : a.id = e.id /\ a.item = e.item
         /\ \A e \in got : \E a \in client'.seen : a.id = e.id
         /\ LiveViewComplete'
<1> DEFINE new == Answer(got)
           n == client.polls + 1
<1>1. client'.seen = client.seen \union new
  BY PollMoves, Zenon
<1>2. client'.owed = client.owed \union Owed /\ setup' = setup
  BY PollMoves, Zenon
<1>3. \A a \in new : \E e \in got : a = [poll |-> n, id |-> e.id, item |-> e.item]
  BY Zenon DEF Answer
<1> HIDE DEF n
<1>4. \A a \in new : \E e \in got : a.id = e.id /\ a.item = e.item
  <2> SUFFICES ASSUME NEW a \in new PROVE \E e \in got : a.id = e.id /\ a.item = e.item
    BY Zenon
  <2>1. PICK e \in got : a = [poll |-> n, id |-> e.id, item |-> e.item]
    BY <1>3, Zenon
  <2>2. a.id = e.id /\ a.item = e.item
    BY <2>1, Zenon
  <2> QED
    BY <2>2, Zenon
<1>5. \A e \in got : \E a \in new : a.id = e.id /\ a.item = e.item
  <2> SUFFICES ASSUME NEW e \in got PROVE \E a \in new : a.id = e.id /\ a.item = e.item
    BY Zenon
  <2>1. [poll |-> n, id |-> e.id, item |-> e.item] \in new
    BY Zenon DEF Answer, n
  <2> HIDE DEF new
  <2> QED
    BY <2>1, Zenon
<1>6. \A a, b \in new : a.item = b.item => a = b
  <2> SUFFICES ASSUME NEW a \in new, NEW b \in new, a.item = b.item PROVE a = b
    BY Zenon
  <2>1. PICK e \in got : a = [poll |-> n, id |-> e.id, item |-> e.item]
    BY <1>3, Zenon
  <2>2. PICK f \in got : b = [poll |-> n, id |-> f.id, item |-> f.item]
    BY <1>3, Zenon
  <2>3. e.item = f.item
    BY <2>1, <2>2, Zenon
  <2>4. e.id = f.id
    BY <2>3, Zenon
  <2> QED
    BY <2>1, <2>2, <2>3, <2>4, Zenon
<1> HIDE DEF new
<1>7. \A c : (\E a \in new : a.item = c) <=> \E e \in got : e.item = c
  <2>1. ASSUME NEW c, NEW a \in new, a.item = c
        PROVE  \E e \in got : e.item = c
    <3>1. PICK e \in got : a.item = e.item
      BY <1>4, <2>1, ZenonT(30)
    <3> QED
      BY <2>1, <3>1, Zenon
  <2>2. ASSUME NEW c, NEW e \in got, e.item = c
        PROVE  \E a \in new : a.item = c
    <3>1. PICK a \in new : a.item = e.item
      BY <1>5, <2>2, Zenon
    <3> QED
      BY <2>2, <3>1, Zenon
  <2> QED
    BY <2>1, <2>2, Zenon
<1>8. \A c : Seen(c)' <=> Seen(c) \/ \E e \in got : e.item = c
  BY <1>1, <1>7, ZenonT(30) DEF Seen
<1>9. \A a \in client'.seen : a \in client.seen \/ \E e \in got : a.id = e.id /\ a.item = e.item
  BY <1>1, <1>4, Zenon
<1>10. \A a, b \in client'.seen : a.item = b.item => a = b
  <2>1. \A a \in client.seen : \A b \in new : a.item # b.item
    <3> SUFFICES ASSUME NEW a \in client.seen, NEW b \in new, a.item = b.item PROVE FALSE
      BY Zenon
    <3>1. PICK e \in got : b.item = e.item
      BY <1>4, ZenonT(30)
    <3>2. a.item = e.item
      BY <3>1, Zenon
    <3> QED
      BY <3>2, Zenon DEF Seen
  <2> QED
    BY <1>1, <1>6, <2>1, Zenon DEF LiveViewComplete
<1>11. \A c \in client'.owed : Seen(c)'
  BY <1>2, <1>8, Zenon DEF LiveViewComplete, Seen
<1>12. \A a \in client'.seen : Mine(a.item)'
  BY <1>2, <1>9, ZenonT(30) DEF LiveViewComplete, Mine
<1>13. LiveViewComplete'
  BY <1>10, <1>11, <1>12, Zenon DEF LiveViewComplete, Seen
<1>14. \A e \in got : \E a \in client'.seen : a.id = e.id
  BY <1>1, <1>5, Zenon
<1> QED
  BY <1>8, <1>9, <1>13, <1>14, Zenon

LEMMA PollRing ==
  ASSUME Inv, ViewInv, Poll, ~setup.postgres
  PROVE  RingView' /\ LiveViewComplete'
<1> DEFINE E == Range(ring.entries)
<1>1. PICK got : got = Since(client.lastID)
  BY Zenon
<1>2. ViewTypes /\ RingView /\ LiveViewComplete
  BY Zenon DEF ViewInv
<1>3. \A e \in got : /\ e \in E /\ Mine(e.item) /\ ~Seen(e.item)
                     /\ client.life = life => e.id > client.lastID
  BY <1>1, RingAnswer, Zenon
<1>4. \A e \in E : Mine(e.item) /\ e.id > Floor /\ e.id > ring.nextID - Reach
                     => Seen(e.item) \/ e \in got
  BY <1>1, RingAnswer, Zenon
<1> HIDE DEF E
<1>5. \A e \in E : /\ e.id \in Nat /\ e.id <= ring.nextID
                   /\ e.item \in Calls /\ call[e.item].pc = "done"
                   /\ Seen(e.item) => client.life = life /\ e.id <= client.lastID
  BY <1>2, Zenon DEF RingView, E
<1>6. \A e, f \in E : e.id = f.id \/ e.item = f.item => e = f
  BY <1>2, Zenon DEF RingView, E
<1>7. \A c \in Owed : Seen(c) \/ \E e \in got : e.item = c
  <2> SUFFICES ASSUME NEW c \in Owed PROVE Seen(c) \/ \E e \in got : e.item = c
    BY Zenon
  <2>1. c \in OwedByRing /\ Mine(c)
    BY Zenon DEF Owed
  <2>2. PICK e \in E : e.item = c /\ e.id > Floor /\ e.id > ring.nextID - Reach
    BY <2>1, Zenon DEF OwedByRing, E
  <2>3. Mine(e.item)
    BY <2>1, <2>2, Zenon
  <2>4. Seen(e.item) \/ e \in got
    BY <1>4, <2>2, <2>3, Zenon
  <2> QED
    BY <2>2, <2>4, Zenon
<1>8. /\ \A c : Seen(c)' <=> Seen(c) \/ \E e \in got : e.item = c
      /\ \A a \in client'.seen : a \in client.seen \/ \E e \in got : a.id = e.id /\ a.item = e.item
      /\ \A e \in got : \E a \in client'.seen : a.id = e.id
      /\ LiveViewComplete'
  <2>1. \A e \in got : e.id \in Nat /\ e.item \in Calls /\ Mine(e.item) /\ ~Seen(e.item)
    BY <1>3, <1>5, Zenon
  <2>2. \A e, f \in got : e.item = f.item => e.id = f.id
    BY <1>3, <1>6, Zenon
  <2>3. ViewTypes /\ LiveViewComplete
    BY <1>2, Zenon
  <2> QED
    BY <1>1, <1>7, <2>1, <2>2, <2>3, PollShows
<1>9. setup' = setup /\ life' = life /\ call' = call /\ ring' = ring /\ E' = E
  BY PollMoves, Zenon DEF E
<1>10. \A c : Mine(c)' <=> Mine(c)
  BY <1>9, Zenon DEF Mine
<1>11. Reach' = Reach
  BY <1>9, Zenon DEF Reach
<1>12. \A e \in E : Seen(e.item)' => Seen(e.item) \/ e \in got
  <2> SUFFICES ASSUME NEW e \in E, Seen(e.item)' PROVE Seen(e.item) \/ e \in got
    BY Zenon
  <2>1. Seen(e.item) \/ \E f \in got : f.item = e.item
    BY <1>8, Zenon
  <2> QED
    BY <1>3, <1>6, <2>1, Zenon
<1>13. \A a \in client'.seen : call[a.item].pc = "done"
  <2> SUFFICES ASSUME NEW a \in client'.seen PROVE call[a.item].pc = "done"
    BY Zenon
  <2>1. CASE a \in client.seen
    BY <1>2, <2>1, Zenon DEF RingView
  <2>2. CASE a \notin client.seen
    <3>1. PICK e \in got : a.id = e.id /\ a.item = e.item
      BY <1>8, <2>2, Zenon
    <3> QED
      BY <1>3, <1>5, <3>1, Zenon
  <2> QED
    BY <2>1, <2>2, Zenon
<1>14. client.lastID \in Nat /\ ring.nextID \in Nat
  BY <1>2, Zenon DEF ViewTypes
<1>15. CASE got = {} /\ client'.life = client.life /\ client'.floor = client.floor
            /\ client'.lastID = client.lastID
  <2>1. \A c : Seen(c)' <=> Seen(c)
    BY <1>8, <1>15, Zenon
  <2>2. client'.life = life =>
          /\ client'.lastID <= ring.nextID
          /\ \A e \in E :
               /\ Mine(e.item)' /\ e.id > client'.floor /\ e.id <= client'.lastID
               /\ e.id > ring.nextID - Reach'
               => Seen(e.item)'
    BY <1>2, <1>10, <1>11, <1>15, <2>1, Zenon DEF RingView, E
  <2> QED
    BY <1>5, <1>6, <1>8, <1>9, <1>13, <1>15, <2>1, <2>2, Zenon DEF RingView, E
<1>16. ASSUME NEW last \in got, \A e \in got : e.id <= last.id,
              client'.life = life, client'.floor = Floor, client'.lastID = last.id
       PROVE  RingView'
  <2>1. \A e \in E : Seen(e.item)' => client'.life = life /\ e.id <= client'.lastID
    <3> SUFFICES ASSUME NEW e \in E, Seen(e.item)' PROVE e.id <= last.id
      BY <1>16, Zenon
    <3>1. CASE e \in got
      BY <1>16, <3>1, Zenon
    <3>2. CASE Seen(e.item)
      <4>1. e.id <= client.lastID /\ last.id > client.lastID /\ e.id \in Nat /\ last.id \in Nat
        BY <1>3, <1>5, <1>16, <3>2, Zenon
      <4> QED
        BY <1>14, <4>1
    <3> QED
      BY <1>12, <3>1, <3>2, Zenon
  <2>2. client'.lastID <= ring.nextID
    BY <1>3, <1>5, <1>16, Zenon
  <2>3. \A e \in E :
          /\ Mine(e.item)' /\ e.id > client'.floor /\ e.id <= client'.lastID
          /\ e.id > ring.nextID - Reach'
          => Seen(e.item)'
    BY <1>4, <1>8, <1>10, <1>11, <1>16, Zenon
  <2> QED
    BY <1>5, <1>6, <1>9, <1>13, <2>1, <2>2, <2>3, Zenon DEF RingView, E
<1>17. \/ /\ got = {} /\ client'.life = client.life /\ client'.floor = client.floor
          /\ client'.lastID = client.lastID
       \/ \E last \in got :
            /\ \A e \in got : e.id <= last.id
            /\ client'.life = life /\ client'.floor = Floor /\ client'.lastID = last.id
  BY <1>1, PollMoves, ZenonT(30)
<1> QED
  BY <1>8, <1>15, <1>16, <1>17, Zenon

LEMMA PollTable ==
  ASSUME Inv, ViewInv, Poll, setup.postgres
  PROVE  TableView' /\ LiveViewComplete'
<1>1. PICK got : got = Since(client.lastID)
  BY Zenon
<1>2. ViewTypes /\ TableView /\ LiveViewComplete /\ Ids
  BY Zenon DEF ViewInv
<1>3. \A e \in got : /\ e.item \in rows /\ Mine(e.item) /\ e.id = call[e.item].id
                     /\ e.id > client.lastID /\ ~Seen(e.item)
  BY <1>1, TableAnswer, Zenon
<1>4. \A c \in rows :
        /\ Mine(c) /\ call[c].id > client.lastID
        /\ \/ \E e \in got : call[c].id <= e.id
           \/ c \in OwedByTable
        => \E e \in got : e.item = c
  <2>1. \A c \in rows : LET e == [id |-> call[c].id, item |-> c] IN e.item = c
    BY Zenon
  <2> QED
    BY <1>1, <2>1, TableAnswer, Zenon
<1>5. /\ client.lastID \in Nat /\ rows \subseteq Calls
      /\ \A c \in Calls : call[c].id \in Nat
  BY <1>2, Zenon DEF ViewTypes, Ids, Inv, Types
<1>6. \A c \in Calls : call[c].id <= client.lastID \/ call[c].id > client.lastID
  BY <1>5
<1>7. \A c \in Owed : Seen(c) \/ \E e \in got : e.item = c
  <2> SUFFICES ASSUME NEW c \in Owed PROVE Seen(c) \/ \E e \in got : e.item = c
    BY Zenon
  <2>1. c \in OwedByTable /\ Mine(c)
    BY Zenon DEF Owed
  <2>2. c \in rows /\ ~call[c].passed
    BY <2>1, Zenon DEF OwedByTable
  <2>3. CASE call[c].id <= client.lastID
    BY <1>2, <2>1, <2>2, <2>3, Zenon DEF TableView
  <2>4. CASE call[c].id > client.lastID
    BY <1>4, <2>1, <2>2, <2>4, Zenon
  <2> QED
    BY <1>5, <1>6, <2>2, <2>3, <2>4, Zenon
<1>8. /\ \A c : Seen(c)' <=> Seen(c) \/ \E e \in got : e.item = c
      /\ \A a \in client'.seen : a \in client.seen \/ \E e \in got : a.id = e.id /\ a.item = e.item
      /\ \A e \in got : \E a \in client'.seen : a.id = e.id
      /\ LiveViewComplete'
  <2>1. \A e \in got : e.id \in Nat /\ e.item \in Calls /\ Mine(e.item) /\ ~Seen(e.item)
    BY <1>3, <1>5, Zenon
  <2>2. \A e, f \in got : e.item = f.item => e.id = f.id
    BY <1>3, Zenon
  <2>3. ViewTypes /\ LiveViewComplete
    BY <1>2, Zenon
  <2> QED
    BY <1>1, <1>7, <2>1, <2>2, <2>3, PollShows
<1>9. setup' = setup /\ call' = call /\ rows' = rows /\ \A c : Mine(c)' <=> Mine(c)
  BY PollMoves, Zenon DEF Mine
<1>10. CASE got = {} /\ client'.lastID = client.lastID
  <2>1. client'.seen = client.seen \union Answer(got)
    BY <1>1, PollMoves, Zenon
  <2>2. Answer(got) = {}
    BY <1>10, Zenon DEF Answer
  <2>3. client'.seen = client.seen
    BY <2>1, <2>2, Zenon
  <2> QED
    BY <1>2, <1>8, <1>9, <1>10, <2>3, Zenon DEF TableView, Seen
<1>11. ASSUME NEW last \in got, \A e \in got : e.id <= last.id, client'.lastID = last.id
       PROVE  TableView'
  <2>1. last.id > client.lastID /\ last.id \in Nat /\ last.item \in Calls
    BY <1>3, <1>5, <1>11, Zenon
  <2>2. \A a \in client'.seen : /\ a.id = call'[a.item].id /\ a.id <= client'.lastID
                                /\ call'[a.item].pc \in Over
    <3> SUFFICES ASSUME NEW a \in client'.seen
                 PROVE  a.id = call[a.item].id /\ a.id <= last.id /\ call[a.item].pc \in Over
      BY <1>9, <1>11, Zenon
    <3>1. CASE a \in client.seen
      <4>1. /\ a.id = call[a.item].id /\ a.id <= client.lastID /\ call[a.item].pc \in Over
            /\ a.id \in Nat
        BY <1>2, <3>1, Zenon DEF TableView, ViewTypes
      <4> QED
        BY <1>5, <2>1, <4>1
    <3>2. ASSUME NEW e \in got, a.id = e.id, a.item = e.item
          PROVE  a.id = call[a.item].id /\ a.id <= last.id /\ call[a.item].pc \in Over
      <4>1. call[e.item].pc \in Over
        BY <1>3, <3>2, Zenon DEF Inv, Placed
      <4> QED
        BY <1>3, <1>11, <3>2, <4>1, Zenon
    <3> QED
      BY <1>8, <3>1, <3>2, Zenon
  <2>3. \E a \in client'.seen : a.id = client'.lastID
    BY <1>8, <1>11, ZenonT(30)
  <2>4. \A c \in Calls : call'[c].passed => client'.lastID > call'[c].id
    <3> SUFFICES ASSUME NEW c \in Calls, call[c].passed PROVE last.id > call[c].id
      BY <1>9, <1>11, Zenon
    <3>1. client.lastID > call[c].id
      BY <1>2, Zenon DEF TableView
    <3> QED
      BY <1>5, <2>1, <3>1
  <2>5. \A c \in rows' : ~call'[c].passed /\ Mine(c)' /\ call'[c].id <= client'.lastID => Seen(c)'
    <3> SUFFICES ASSUME NEW c \in rows, ~call[c].passed, Mine(c), call[c].id <= last.id
                 PROVE  Seen(c)'
      BY <1>9, <1>11, Zenon
    <3>1. CASE call[c].id <= client.lastID
      BY <1>2, <1>8, <3>1, Zenon DEF TableView
    <3>2. CASE call[c].id > client.lastID
      BY <1>4, <1>8, <1>11, <3>2, Zenon
    <3> QED
      BY <1>5, <1>6, <3>1, <3>2, Zenon
  <2> QED
    BY <2>2, <2>3, <2>4, <2>5, Zenon DEF TableView
<1> QED
  BY <1>1, <1>8, <1>10, <1>11, PollMoves, Zenon

LEMMA PollView ==
  ASSUME Inv, ViewInv, Poll
  PROVE  ViewInv'
<1>1. PICK got : got = Since(client.lastID)
  BY Zenon
<1>2. ViewTypes /\ Ids /\ LiveViewComplete /\ setup.postgres \in BOOLEAN
  BY Zenon DEF ViewInv, Inv, Types
<1>3. setup' = setup /\ life' = life /\ call' = call /\ ring' = ring /\ rows' = rows
  BY PollMoves, Zenon
<1>4. Ids'
  BY <1>2, <1>3, Zenon DEF Ids, HasId
<1>5. (~setup.postgres => RingView') /\ (setup.postgres => TableView') /\ LiveViewComplete'
  BY <1>2, PollRing, PollTable, Zenon
<1>6. \A e \in got : e.id \in Nat /\ e.item \in Calls
  <2>1. CASE setup.postgres
    <3>1. \A e \in got : e.item \in rows /\ e.id = call[e.item].id
      BY <1>1, <2>1, TableAnswer, Zenon
    <3>2. rows \subseteq Calls
      BY Zenon DEF Inv, Types
    <3> QED
      BY <1>2, <3>1, <3>2, Zenon DEF Ids
  <2>2. CASE ~setup.postgres
    <3>1. \A e \in got : e \in Range(ring.entries)
      BY <1>1, <2>2, RingAnswer, Zenon
    <3> QED
      BY <2>2, <3>1, Zenon DEF ViewInv, RingView
  <2> QED
    BY <2>1, <2>2, Zenon
<1>7. Floor \in Nat /\ life <= life
  BY <1>2 DEF Floor, ViewTypes
<1>8. /\ client'.life \in Nat /\ client'.life <= life
      /\ client'.lastID \in Nat /\ client'.floor \in Nat
  <2>1. CASE /\ client'.life = client.life /\ client'.floor = client.floor
             /\ client'.lastID = client.lastID
    BY <1>2, <2>1, Zenon DEF ViewTypes
  <2>2. ASSUME NEW last \in got, client'.life = life, client'.floor = Floor,
               client'.lastID = last.id
        PROVE  /\ client'.life \in Nat /\ client'.life <= life
               /\ client'.lastID \in Nat /\ client'.floor \in Nat
    BY <1>2, <1>6, <1>7, <2>2, Zenon DEF ViewTypes
  <2> QED
    BY <1>1, <2>1, <2>2, PollMoves, Zenon
<1>9. \A a \in client'.seen : a.id \in Nat /\ a.item \in Calls
  <2> SUFFICES ASSUME NEW a \in client'.seen PROVE a.id \in Nat /\ a.item \in Calls
    BY Zenon
  <2>1. CASE a \in client.seen
    BY <1>2, <2>1, Zenon DEF ViewTypes
  <2>2. CASE a \in Answer(got)
    <3>1. PICK e \in got : a = [poll |-> client.polls + 1, id |-> e.id, item |-> e.item]
      BY <2>2, Zenon DEF Answer
    <3>2. a.id = e.id /\ a.item = e.item
      BY <3>1, Zenon
    <3> QED
      BY <1>6, <3>2, Zenon
  <2>3. client'.seen = client.seen \union Answer(got)
    BY <1>1, PollMoves, Zenon
  <2> QED
    BY <2>1, <2>2, <2>3, Zenon
<1>10. ViewTypes'
  BY <1>2, <1>3, <1>8, <1>9, Zenon DEF ViewTypes
<1> QED
  BY <1>3, <1>4, <1>5, <1>10, Zenon DEF ViewInv

\* Steps other than the page's: a row that commits is passed, or new to the
\* page, or the one the cursor stands on.
LEMMA TableKept ==
  ASSUME Inv, Inv', TableView, ViewTypes, Ids', client' = client, setup' = setup,
         \A c \in Calls : call[c].pc \in Over => call'[c].pc \in Over /\ call'[c].id = call[c].id,
         \A c \in Calls : call'[c].passed => client.lastID > call'[c].id,
         \A c \in rows' : \/ /\ c \in rows /\ call'[c].id = call[c].id
                             /\ call[c].passed => call'[c].passed
                          \/ ~call'[c].passed => client.lastID <= call'[c].id
  PROVE  TableView'
<1>1. \A a \in client.seen : /\ a.id = call'[a.item].id /\ a.id <= client.lastID
                             /\ call'[a.item].pc \in Over /\ a.item \in Calls
  BY Zenon DEF TableView, ViewTypes
<1>2. \A c : (Seen(c)' <=> Seen(c)) /\ (Mine(c)' <=> Mine(c))
  BY Zenon DEF Seen, Mine
<1>3. ASSUME NEW c \in rows', ~call'[c].passed, Mine(c), call'[c].id <= client.lastID
      PROVE  Seen(c)
  <2>1. CASE /\ c \in rows /\ call'[c].id = call[c].id
             /\ call[c].passed => call'[c].passed
    BY <1>3, <2>1, Zenon DEF TableView
  <2>2. CASE client.lastID <= call'[c].id
    <3>1. c \in Calls /\ call'[c].id \in Nat /\ call'[c].id > 0 /\ client.lastID \in Nat
      <4>1. c \in Calls
        BY <1>3, Zenon DEF Inv, Types
      <4> QED
        BY <1>3, <4>1, Zenon DEF Ids, ViewTypes
    <3>2. client.lastID = call'[c].id /\ client.lastID # 0
      BY <1>3, <2>2, <3>1
    <3>3. PICK a \in client.seen : a.id = client.lastID
      BY <3>2, Zenon DEF TableView
    <3>4. call'[a.item].id = call'[c].id /\ a.item \in Calls
      BY <1>1, <3>2, <3>3, Zenon
    <3>5. a.item = c
      BY <3>1, <3>4, Zenon DEF Ids
    <3> QED
      BY <3>5, Zenon DEF Seen
  <2> QED
    BY <1>3, <2>1, <2>2, Zenon
<1>4. \A c \in rows' : ~call'[c].passed /\ Mine(c)' /\ call'[c].id <= client'.lastID => Seen(c)'
  BY <1>2, <1>3, Zenon
<1> QED
  BY <1>1, <1>4, Zenon DEF TableView

LEMMA RingKept ==
  ASSUME RingView, client' = client, setup' = setup, ring' = ring, life' = life,
         \A c \in Calls : call[c].pc = "done" => call'[c].pc = "done", ViewTypes
  PROVE  RingView'
<1>1. \A c : (Seen(c)' <=> Seen(c)) /\ (Mine(c)' <=> Mine(c))
  BY Zenon DEF Seen, Mine
<1>2. Reach' = Reach
  BY Zenon DEF Reach
<1>3. \A a \in client.seen : call'[a.item].pc = "done"
  BY Zenon DEF RingView, ViewTypes
<1> QED
  BY <1>1, <1>2, <1>3, Zenon DEF RingView

LEMMA RingGrows ==
  ASSUME ViewTypes, NEW c \in Calls, client' = client, setup' = setup, life' = life,
         ring' = RingPublish(ring, setup.capacity, c)
  PROVE  /\ ViewTypes' /\ ring'.nextID = ring.nextID + 1
         /\ \E x : /\ x.id = ring.nextID + 1 /\ x.item = c
                   /\ Range(ring'.entries) \subseteq Range(ring.entries) \union {x}
<1> DEFINE x == [id |-> ring.nextID + 1, item |-> c]
           kept == IF Len(ring.entries) >= setup.capacity THEN Tail(ring.entries)
                   ELSE ring.entries
           R == [id : Nat, item : Calls]
<1>1. ring.nextID \in Nat /\ ring.entries \in Seq(R) /\ setup.capacity \in Nat \ {0}
  BY Zenon DEF ViewTypes
<1>2. ring'.entries = Append(kept, x) /\ ring'.nextID = ring.nextID + 1
  BY Zenon DEF RingPublish
<1>3. kept \in Seq(R) /\ Range(kept) \subseteq Range(ring.entries)
  <2>1. CASE Len(ring.entries) >= setup.capacity
    <3>1. Len(ring.entries) > 0
      BY <1>1, <2>1
    <3> QED
      BY <1>1, <2>1, <3>1 DEF Range
  <2>2. CASE ~(Len(ring.entries) >= setup.capacity)
    BY <1>1, <2>2, Zenon
  <2> QED
    BY <2>1, <2>2, Zenon
<1>4. x \in R /\ x.id = ring.nextID + 1 /\ x.item = c
  BY <1>1
<1> HIDE DEF kept, x, R
<1>5. Append(kept, x) \in Seq(R) /\ Range(Append(kept, x)) \subseteq Range(kept) \union {x}
  BY <1>3, <1>4 DEF Range
<1>6. Range(ring'.entries) \subseteq Range(ring.entries) \union {x}
  BY <1>2, <1>3, <1>5, Zenon
<1>7. ring'.nextID \in Nat /\ ring'.entries \in Seq([id : Nat, item : Calls])
  BY <1>1, <1>2, <1>5 DEF R
<1>8. ViewTypes'
  BY <1>7, Zenon DEF ViewTypes
<1> QED
  BY <1>2, <1>4, <1>6, <1>8, Zenon

\* The new entry has an ID that no cursor of this life has reached.
LEMMA RingPublished ==
  ASSUME RingView, ViewTypes, NEW c \in Calls, call[c].pc = "written",
         client' = client, setup' = setup, life' = life,
         ring' = RingPublish(ring, setup.capacity, c),
         \A d \in Calls : call[d].pc = "done" => call'[d].pc = "done", call'[c].pc = "done"
  PROVE  RingView'
<1> DEFINE E == Range(ring.entries)
           F == Range(ring'.entries)
<1>1. ring.nextID \in Nat
  BY Zenon DEF ViewTypes
<1>2. ring'.nextID = ring.nextID + 1
  BY RingGrows, Zenon
<1>3. PICK x : x.id = ring.nextID + 1 /\ x.item = c /\ F \subseteq E \union {x}
  BY RingGrows, Zenon
<1>4. x.id = ring.nextID + 1 /\ x.item = c
  BY <1>3, Zenon
<1>5. F \subseteq E \union {x}
  BY <1>3, Zenon
<1> HIDE DEF E, F
<1>6. \A e \in E : /\ e.id \in Nat /\ e.id <= ring.nextID
                   /\ e.item \in Calls /\ call[e.item].pc = "done"
                   /\ Seen(e.item) => client.life = life /\ e.id <= client.lastID
  BY Zenon DEF RingView, E
<1>7. \A e, f \in E : e.id = f.id \/ e.item = f.item => e = f
  BY Zenon DEF RingView, E
<1>8. \A e \in E : e.item # c /\ e.id # x.id /\ e.id <= ring.nextID + 1
  BY <1>1, <1>4, <1>6
<1>9. ~Seen(c)
  BY Zenon DEF RingView, Seen
<1>10. \A d : (Seen(d)' <=> Seen(d)) /\ (Mine(d)' <=> Mine(d))
  BY Zenon DEF Seen, Mine
<1>11. Reach' = Reach /\ Reach \in Nat
  BY ReachBound, Zenon DEF Reach
<1>12. \A e \in F : /\ e.id \in Nat /\ e.id <= ring'.nextID
                    /\ e.item \in Calls /\ call'[e.item].pc = "done"
                    /\ Seen(e.item)' => client'.life = life' /\ e.id <= client'.lastID
  <2> SUFFICES ASSUME NEW e \in F
               PROVE  /\ e.id \in Nat /\ e.id <= ring.nextID + 1
                      /\ e.item \in Calls /\ call'[e.item].pc = "done"
                      /\ Seen(e.item) => client.life = life /\ e.id <= client.lastID
    BY <1>2, <1>10, Zenon
  <2>1. CASE e \in E
    BY <1>6, <1>8, <2>1, Zenon
  <2>2. CASE e = x
    <3>1. x.id \in Nat /\ x.id <= ring.nextID + 1
      BY <1>1, <1>4
    <3> QED
      BY <1>4, <1>9, <2>2, <3>1, Zenon
  <2> QED
    BY <1>5, <2>1, <2>2, Zenon
<1>13. \A e, f \in F : e.id = f.id \/ e.item = f.item => e = f
  BY <1>4, <1>5, <1>7, <1>8, Zenon
<1>14. \A a \in client.seen : call'[a.item].pc = "done"
  BY Zenon DEF RingView, ViewTypes
<1>15. ASSUME client.life = life
       PROVE  /\ client.lastID <= ring'.nextID
              /\ \A e \in F : /\ Mine(e.item) /\ e.id > client.floor /\ e.id <= client.lastID
                              /\ e.id > ring'.nextID - Reach
                              => Seen(e.item)
  <2>1. client.lastID <= ring.nextID /\ client.lastID \in Nat
    BY <1>15, Zenon DEF RingView, ViewTypes
  <2>2. client.lastID <= ring'.nextID
    BY <1>1, <1>2, <2>1
  <2>3. ASSUME NEW e \in F, Mine(e.item), e.id > client.floor, e.id <= client.lastID,
               e.id > ring'.nextID - Reach
        PROVE  Seen(e.item)
    <3>1. e # x
      <4>1. ~(ring.nextID + 1 <= client.lastID)
        BY <1>1, <2>1
      <4> QED
        BY <1>4, <2>3, <4>1, Zenon
    <3>2. e \in E
      BY <1>5, <2>3, <3>1, Zenon
    <3>3. e.id > ring.nextID - Reach
      BY <1>1, <1>2, <1>6, <1>11, <2>3, <3>2
    <3> QED
      BY <1>15, <2>3, <3>2, <3>3, Zenon DEF RingView, E
  <2> QED
    BY <2>2, <2>3, Zenon
<1> QED
  BY <1>10, <1>11, <1>12, <1>13, <1>14, <1>15, Zenon DEF RingView, F

LEMMA ViewInit ==
  ASSUME Init
  PROVE  ViewInv
<1>1. setup \in Setups
  BY AuditAssumption, Zenon DEF Init
<1>2. setup.limit \in Nat \ {0} /\ setup.capacity \in Nat \ {0}
  BY <1>1 DEF Setups
<1>3. /\ client.life = 0 /\ client.lastID = 0 /\ client.floor = 0 /\ life = 0
      /\ client.seen = {} /\ client.owed = {} /\ rows = {}
      /\ ring.entries = << >> /\ ring.nextID = 0
  BY Zenon DEF Init, NewRingBuffer
<1>4. ViewTypes
  BY <1>2, <1>3 DEF ViewTypes
<1>5. \A c \in Calls : call[c].id = 0 /\ call[c].pc = "idle" /\ call[c].passed = FALSE
  BY Zenon DEF Init, Request
<1>6. Ids
  <2>1. IsFiniteSet(HasId)
    BY AuditAssumption, FS_Subset, Zenon DEF HasId
  <2>2. Cardinality(HasId) \in Nat
    BY <2>1, FS_CardinalityType, Zenon
  <2> QED
    BY <1>3, <1>5, <2>2 DEF Ids
<1>7. Range(ring.entries) = {}
  BY <1>3 DEF Range
<1>8. RingView
  BY <1>3, <1>7 DEF RingView
<1>9. TableView
  BY <1>3, <1>5, Zenon DEF TableView
<1>10. LiveViewComplete
  BY <1>3, Zenon DEF LiveViewComplete
<1> QED
  BY <1>4, <1>6, <1>8, <1>9, <1>10, Zenon DEF ViewInv

\* The steps of a request.
LEMMA ViewRequest ==
  ASSUME Inv, Inv', ViewInv, NEW c \in Calls,
         Begin(c) \/ WriteLine(c) \/ Insert(c) \/ Commit(c) \/ Publish(c)
  PROVE  ViewInv'
<1>1. ViewTypes /\ Ids /\ LiveViewComplete /\ DOMAIN call = Calls
  BY Zenon DEF ViewInv, Inv, Types
<1>2. setup' = setup /\ client' = client /\ life' = life
  BY Zenon DEF Begin, WriteLine, Insert, Commit, Publish, live
<1>3. LiveViewComplete'
  BY <1>1, <1>2, Zenon DEF LiveViewComplete, Mine
<1>4. \A d \in Calls \ {c} : call'[d] = call[d]
  BY <1>1, Zenon DEF Begin, WriteLine, Insert, Commit, Publish, Recorded
<1>5. rows \subseteq rows' /\ rows' \subseteq rows \union {c} /\ (rows' = rows \/ Commit(c))
  BY Zenon DEF Begin, WriteLine, Insert, Commit, Publish, store
<1>6. /\ call[c].pc \in Over => call'[c].pc \in Over /\ call'[c].id = call[c].id
      /\ call[c].pc # "done"
      /\ Insert(c) \/ call'[c].id = call[c].id
      /\ Insert(c) \/ call'[c].pc # "inserting"
      /\ call'[c].pc \in {"idle", "serving"} => call[c].pc \in {"idle", "serving"}
      /\ Commit(c) => call[c].pc = "inserting"
      /\ \/ call'[c].passed = FALSE /\ c \notin rows'
         \/ call'[c].passed = Passed(c) /\ call'[c].id = call[c].id
         \/ call'[c].passed = call[c].passed /\ call'[c].id = call[c].id /\ rows' = rows
  <2>1. CASE Begin(c)
    <3>1. /\ call'[c].pc = "serving" /\ call'[c].id = 0 /\ call'[c].passed = FALSE
          /\ call[c].pc = "idle" /\ rows' = rows
      BY <1>1, <2>1, Zenon DEF Begin, Request, store
    <3>2. call[c].id = 0 /\ c \notin rows
      BY <1>1, <3>1, Zenon DEF Ids, Inv, Placed, Over
    <3> QED
      BY <2>1, <3>1, <3>2, Zenon DEF Over, Commit
  <2>2. CASE Insert(c)
    <3>1. /\ call'[c].pc = "inserting" /\ call'[c].passed = FALSE
          /\ call[c].pc = "serving" /\ rows' = rows
      BY <1>1, <2>2, Zenon DEF Insert, Request, store
    <3>2. c \notin rows
      BY <1>1, <3>1, Zenon DEF Inv, Placed, Over
    <3> QED
      BY <2>2, <3>1, <3>2, Zenon DEF Over, Commit
  <2>3. CASE WriteLine(c) \/ Commit(c)
    <3>1. PICK acked : Recorded(c, acked)
      BY <2>3, Zenon DEF WriteLine, Commit
    <3>2. call'[c].pc = "written" /\ call'[c].id = call[c].id /\ call'[c].passed = Passed(c)
      BY <1>1, <3>1, Zenon DEF Recorded, Request
    <3>3. call[c].pc = "serving" \/ call[c].pc = "inserting"
      BY <2>3, Zenon DEF WriteLine, Commit
    <3> QED
      BY <2>3, <3>2, <3>3, Zenon DEF Over, Commit
  <2>4. CASE Publish(c)
    <3>1. /\ call'[c].pc = "done" /\ call'[c].id = call[c].id
          /\ call'[c].passed = call[c].passed /\ call[c].pc = "written" /\ rows' = rows
      BY <1>1, <2>4, Zenon DEF Publish, Request, store
    <3> QED
      BY <2>4, <3>1, Zenon DEF Over, Commit
  <2> QED
    BY <2>1, <2>2, <2>3, <2>4, Zenon
<1>7. Ids'
  <2>1. CASE Insert(c)
    BY <1>1, <2>1, IdsInsert, Zenon
  <2>2. CASE ~Insert(c)
    BY <1>1, <1>4, <1>5, <1>6, <2>2, IdsKept, Zenon
  <2> QED
    BY <2>1, <2>2, Zenon
<1>8. ViewTypes'
  <2>1. CASE ring' = ring
    BY <1>1, <1>2, <2>1, Zenon DEF ViewTypes
  <2>2. CASE ring' = RingPublish(ring, setup.capacity, c)
    BY <1>1, <1>2, <2>2, RingGrows, Zenon
  <2> QED
    BY <2>1, <2>2, Zenon DEF Begin, WriteLine, Insert, Commit, Publish, live
<1>9. ASSUME ~setup.postgres
      PROVE  RingView'
  <2>1. RingView
    BY <1>9, Zenon DEF ViewInv
  <2>2. \A d \in Calls : call[d].pc = "done" => call'[d].pc = "done"
    BY <1>4, <1>6, Zenon
  <2>3. CASE ring' = ring
    BY <1>1, <1>2, <2>1, <2>2, <2>3, RingKept, Zenon
  <2>4. CASE Publish(c) /\ ring' = RingPublish(ring, setup.capacity, c)
    <3>1. call[c].pc = "written" /\ call'[c].pc = "done"
      BY <1>1, <2>4, Zenon DEF Publish, Request
    <3> QED
      BY <1>1, <1>2, <2>1, <2>2, <2>4, <3>1, RingPublished, Zenon
  <2> QED
    BY <2>3, <2>4, Zenon DEF Begin, WriteLine, Insert, Commit, Publish, live
<1>10. ASSUME setup.postgres
       PROVE  TableView'
  <2>1. TableView
    BY <1>10, Zenon DEF ViewInv
  <2>2. client.lastID \in Nat /\ call'[c].id \in Nat
    BY <1>1, <1>7, Zenon DEF ViewTypes, Ids
  <2>3. Passed(c) <=> client.lastID > call[c].id
    BY <1>10, Zenon DEF Passed
  <2>4. ~(client.lastID > call'[c].id) => client.lastID <= call'[c].id
    BY <2>2
  <2>5. call'[c].passed => client.lastID > call'[c].id
    BY <1>6, <2>1, <2>3, Zenon DEF TableView
  <2>6. c \in rows' => \/ /\ c \in rows /\ call'[c].id = call[c].id
                          /\ call[c].passed => call'[c].passed
                       \/ ~call'[c].passed => client.lastID <= call'[c].id
    BY <1>6, <2>3, <2>4, Zenon
  <2>7. \A d \in Calls : call[d].pc \in Over => call'[d].pc \in Over /\ call'[d].id = call[d].id
    BY <1>4, <1>6, Zenon
  <2>8. \A d \in Calls : call'[d].passed => client.lastID > call'[d].id
    BY <1>4, <2>1, <2>5, Zenon DEF TableView
  <2>9. \A d \in rows' : \/ /\ d \in rows /\ call'[d].id = call[d].id
                            /\ call[d].passed => call'[d].passed
                         \/ ~call'[d].passed => client.lastID <= call'[d].id
    <3>1. ASSUME NEW d \in rows', d # c
          PROVE  /\ d \in rows /\ call'[d].id = call[d].id
                 /\ call[d].passed => call'[d].passed
      <4>1. d \in rows /\ rows \subseteq Calls
        BY <1>5, <3>1, Zenon DEF Inv, Types
      <4>2. call'[d] = call[d]
        BY <1>4, <3>1, <4>1, Zenon
      <4> QED
        BY <4>1, <4>2, Zenon
    <3> QED
      BY <2>6, <3>1, Zenon
  <2> QED
    BY <1>1, <1>2, <1>7, <2>1, <2>7, <2>8, <2>9, TableKept, Zenon
<1> QED
  BY <1>2, <1>3, <1>7, <1>8, <1>9, <1>10, Zenon DEF ViewInv

\* The retention and export jobs and the clock: rows only go.
LEMMA ViewJobs ==
  ASSUME Inv, Inv', ViewInv,
         \/ Scan \/ Rename \/ PurgeFails \/ Delete
         \/ ExportTick \/ Export \/ Tick \/ UNCHANGED vars
  PROVE  ViewInv'
<1>1. ViewTypes /\ Ids /\ LiveViewComplete
  BY Zenon DEF ViewInv
<1>2. setup' = setup /\ client' = client /\ life' = life /\ ring' = ring /\ call' = call
  BY Zenon DEF Scan, Rename, PurgeFails, Delete, ExportTick, Export, Tick, vars, live
<1>3. rows' \subseteq rows
  BY Zenon DEF Scan, Rename, PurgeFails, Delete, ExportTick, Export, Tick, vars, store
<1>4. ViewTypes' /\ LiveViewComplete'
  BY <1>1, <1>2, Zenon DEF ViewTypes, LiveViewComplete, Mine
<1>5. Ids'
  BY <1>1, <1>2, <1>3, IdsKept, Zenon
<1>6. ~setup.postgres => RingView'
  BY <1>1, <1>2, RingKept, Zenon DEF ViewInv
<1>7. ASSUME setup.postgres PROVE TableView'
  <2>1. TableView
    BY <1>7, Zenon DEF ViewInv
  <2>2. \A c \in Calls : call'[c].passed => client.lastID > call'[c].id
    BY <1>2, <2>1, Zenon DEF TableView
  <2> QED
    BY <1>1, <1>2, <1>3, <1>5, <2>1, <2>2, TableKept, Zenon
<1> QED
  BY <1>2, <1>4, <1>5, <1>6, <1>7, Zenon DEF ViewInv

\* After a restart the ring is empty, and no row is left to commit.
LEMMA ViewRestart ==
  ASSUME Inv, Inv', ViewInv, Restart
  PROVE  ViewInv'
<1>1. ViewTypes /\ Ids /\ LiveViewComplete
  BY Zenon DEF ViewInv
<1>2. /\ setup' = setup /\ client' = client /\ life' = life + 1
      /\ ring' = [entries |-> << >>, nextID |-> 0]
      /\ call' = [c \in Calls |-> IF call[c].pc \in {"idle", "done"} THEN call[c]
                                  ELSE Request("gone", call[c].ts, call[c].id, call[c].acked,
                                               Covered(c), Passed(c))]
  BY Zenon DEF Restart, NewRingBuffer
<1>3. \A c \in rows' : c \in rows \/ call[c].pc = "inserting"
  BY Zenon DEF Restart
<1>4. ASSUME NEW c \in Calls
      PROVE  /\ call'[c].id = call[c].id
             /\ \/ call[c].pc \in {"idle", "done"} /\ call'[c] = call[c]
                \/ /\ call[c].pc \notin {"idle", "done"} /\ call'[c].pc = "gone"
                   /\ call'[c].passed = Passed(c)
  <2>1. CASE call[c].pc \in {"idle", "done"}
    BY <1>2, <2>1, Zenon
  <2>2. CASE call[c].pc \notin {"idle", "done"}
    <3>1. call'[c] = Request("gone", call[c].ts, call[c].id, call[c].acked, Covered(c), Passed(c))
      BY <1>2, <2>2, Zenon
    <3>2. call'[c].id = call[c].id /\ call'[c].pc = "gone"
      BY <3>1, SMT DEF Request
    <3>3. call'[c].passed = Passed(c)
      BY <3>1, SMT DEF Request
    <3> QED
      BY <2>2, <3>2, <3>3, Zenon
  <2> QED
    BY <2>1, <2>2, Zenon
<1>5. Ids'
  <2>1. /\ \A c \in Calls : call'[c].id = call[c].id
        /\ \A c \in Calls :
             call'[c].pc \in {"idle", "serving"} => call[c].pc \in {"idle", "serving"}
        /\ \A c \in Calls : call'[c].pc = "inserting" => call[c].pc = "inserting"
    BY <1>4, Zenon
  <2> QED
    BY <1>1, <1>3, <2>1, IdsKept, Zenon
<1>6. LiveViewComplete'
  BY <1>1, <1>2, Zenon DEF LiveViewComplete, Mine
<1>7. ring'.entries = << >> /\ ring'.nextID = 0
  BY <1>2, Zenon
<1>8. life \in Nat /\ client.life \in Nat /\ client.life <= life
  BY <1>1, Zenon DEF ViewTypes
<1>9. life' \in Nat /\ client.life <= life' /\ client.life # life' /\ 0 \in Nat
  BY <1>2, <1>8
<1>10. ViewTypes'
  <2>1. << >> \in Seq([id : Nat, item : Calls])
    OBVIOUS
  <2> QED
    BY <1>1, <1>2, <1>7, <1>9, <2>1, Zenon DEF ViewTypes
<1>11. ASSUME ~setup.postgres PROVE RingView'
  <2>1. Range(ring'.entries) = {}
    BY <1>7 DEF Range
  <2>2. \A a \in client.seen : call'[a.item].pc = "done"
    <3>1. \A a \in client.seen : a.item \in Calls /\ call[a.item].pc = "done"
      BY <1>1, <1>11, Zenon DEF ViewTypes, ViewInv, RingView
    <3> QED
      BY <1>2, <3>1, Zenon
  <2> QED
    BY <1>2, <1>9, <2>1, <2>2, Zenon DEF RingView
<1>12. ASSUME setup.postgres PROVE TableView'
  <2>1. TableView
    BY <1>12, Zenon DEF ViewInv
  <2>2. \A c \in Calls : Passed(c) <=> client.lastID > call[c].id
    BY <1>12, Zenon DEF Passed
  <2>3. \A c \in Calls : ~(client.lastID > call[c].id) => client.lastID <= call[c].id
    BY <1>1 DEF ViewTypes, Ids
  <2>4. \A c \in Calls : call[c].pc \in Over => call'[c].pc \in Over /\ call'[c].id = call[c].id
    BY <1>4, Zenon DEF Over
  <2>5. \A c \in Calls : call'[c].passed => client.lastID > call'[c].id
    <3> SUFFICES ASSUME NEW c \in Calls, call'[c].passed PROVE client.lastID > call[c].id
      BY <1>4, Zenon
    <3> QED
      BY <1>4, <2>1, <2>2, Zenon DEF TableView
  <2>6. \A c \in rows' : \/ /\ c \in rows /\ call'[c].id = call[c].id
                            /\ call[c].passed => call'[c].passed
                         \/ ~call'[c].passed => client.lastID <= call'[c].id
    <3> SUFFICES ASSUME NEW c \in rows'
                 PROVE  \/ /\ c \in rows /\ call'[c].id = call[c].id
                           /\ call[c].passed => call'[c].passed
                        \/ ~call'[c].passed => client.lastID <= call'[c].id
      BY Zenon
    <3>1. c \in Calls
      BY Zenon DEF Inv, Types
    <3>2. CASE call[c].pc \in {"idle", "done"} /\ call'[c] = call[c]
      <4>1. c \in rows
        BY <1>3, <3>2, Zenon
      <4> QED
        BY <3>2, <4>1, Zenon
    <3>3. CASE call'[c].passed = Passed(c)
      BY <1>4, <2>2, <2>3, <3>1, <3>3, Zenon
    <3> QED
      BY <1>4, <3>1, <3>2, <3>3, Zenon
  <2> QED
    BY <1>1, <1>2, <1>5, <2>1, <2>4, <2>5, <2>6, TableKept, Zenon
<1> QED
  BY <1>2, <1>5, <1>6, <1>10, <1>11, <1>12, Zenon DEF ViewInv

\* The dashboard page that polls Since is shown no entry twice, none of
\* another tenant and each it is owed, across evictions, limits, restarts
\* that start the ring's IDs again and rows that commit out of the order of
\* their ids: for any capacity, limit and number of requests and polls.
THEOREM ViewComplete == Spec => []LiveViewComplete
<1>1. Init => ViewInv
  BY ViewInit, Zenon
<1>2. Inv /\ Inv' /\ ViewInv /\ [Next]_vars => ViewInv'
  <2> SUFFICES ASSUME Inv, Inv', ViewInv, [Next]_vars PROVE ViewInv'
    BY Zenon
  <2>1. ASSUME NEW c \in Calls, Begin(c) \/ WriteLine(c) \/ Insert(c) \/ Commit(c) \/ Publish(c)
        PROVE  ViewInv'
    BY <2>1, ViewRequest, Zenon
  <2>2. CASE \/ Scan \/ Rename \/ PurgeFails \/ Delete
             \/ ExportTick \/ Export \/ Tick \/ UNCHANGED vars
    BY <2>2, ViewJobs, Zenon
  <2>3. CASE Poll
    BY <2>3, PollView, Zenon
  <2>4. CASE Restart
    BY <2>4, ViewRestart, Zenon
  <2> QED
    BY <2>1, <2>2, <2>3, <2>4, Zenon DEF Next
<1>3. ViewInv => LiveViewComplete
  BY Zenon DEF ViewInv
<1> QED
  BY <1>1, <1>2, <1>3, InitInv, StepInv, PTL DEF Spec
=============================================================================
