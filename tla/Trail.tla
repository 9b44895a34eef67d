------------------------------- MODULE Trail -------------------------------
(***************************************************************************)
(* What the audit trail promises an auditor, after the comments of         *)
(* audit/adapter/jsonl_purger.go and compliance/usecase/retention.go: an   *)
(* entry that was written and vouched for stays in the trail until         *)
(* retention deletes it for its age, and an entry that cannot be placed in *)
(* time is never deleted.                                                  *)
(*                                                                         *)
(* The trail also holds entries nobody vouches for: those whose write took *)
(* effect and yet reported an error, and those written while the file was  *)
(* being replaced.  These may vanish with any deletion.                    *)
(***************************************************************************)
EXTENDS Integers

CONSTANTS Undated     \* the time of an entry that cannot be placed in time

VARIABLES now,
          retention,  \* the age at which entries are deleted; 0 keeps them for ever
          trail,      \* the entries on disk, [call, ts]
          vouched     \* those under the promise

TrailOlder(e, cutoff) == e.ts # Undated /\ e.ts < cutoff

Init == trail = {} /\ vouched = {}

\* Time passes; retention is configuration.
Age == now' >= now /\ UNCHANGED <<retention, trail, vouched>>

Append(e) ==
  /\ trail' = trail \union {e}
  /\ vouched' = vouched \union {e}
  /\ UNCHANGED <<now, retention>>

\* Entries arrive that nobody vouches for.
Arrive == trail \subseteq trail' /\ UNCHANGED <<now, retention, vouched>>

\* Entries on disk are vouched for after all: the replacement was abandoned.
Vouch ==
  /\ vouched \subseteq vouched' /\ vouched' \subseteq trail
  /\ UNCHANGED <<now, retention, trail>>

\* Every entry older than the cutoff leaves; of the others, the vouched ones stay.
Expire(cutoff) ==
  /\ retention > 0 /\ cutoff <= now - retention
  /\ vouched' = {e \in vouched : ~TrailOlder(e, cutoff)}
  /\ vouched' \subseteq trail'
  /\ trail' \subseteq {e \in trail : ~TrailOlder(e, cutoff)}
  /\ UNCHANGED <<now, retention>>

Next ==
  \/ Age \/ Arrive \/ Vouch
  \/ \E e \in trail' : Append(e)
  \/ \E cutoff \in 0..now : Expire(cutoff)

Spec == Init /\ [][Next]_<<now, retention, trail, vouched>>
=============================================================================
