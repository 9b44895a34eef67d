---------------------------- MODULE RateLimiter -----------------------------
(***************************************************************************)
(* The rate limiter: InMemoryLimiter and PostgresLimiter                   *)
(* (budget/adapter/inmemory.go, postgres_limiter.go), called by the proxy  *)
(* for every tool call and reconfigured in place by a reload.              *)
(*                                                                         *)
(* A call is charged to up to three fixed-window buckets: its tool's and   *)
(* its tenant's, if they have an override, and its identity's.  It brings  *)
(* the time it arrived, which may be long ago when it gets to the limiter. *)
(* The in-memory limiter holds its mutex for the whole of Allow.  The      *)
(* Postgres limiter holds it to look up the overrides; each bucket is then *)
(* one statement of its own, which can fail and lets the call through, and *)
(* the default limit is read without the mutex.                            *)
(***************************************************************************)
EXTENDS Naturals, FiniteSets

CONSTANTS Calls,
          Tools, Tenants, Identities,  \* the names that buckets are kept for
          Routes,        \* the [tool, tenant, identity] of calls
          Limits,        \* the [n, w] a config can set: n requests per window w
          NoLimit,
          DefaultLimit,  \* what the process started with: the default...
          Overrides,     \* ... and the override, or NoLimit, of each name
          NoBucket, Nobody,
          MaxTime, MaxChanges   \* bounds: the clock, and limits set or cleared

Names == Tools \union Tenants
Keys  == Names \union Identities

ASSUME RateLimiterAssumption ==
  /\ Limits \subseteq [n : Nat \ {0}, w : Nat \ {0}]
  /\ DefaultLimit \in Limits /\ Overrides \in [Names -> Limits \union {NoLimit}]
  /\ Routes \subseteq [tool : Tools, tenant : Tenants, identity : Identities] /\ Routes # {}
  /\ NoLimit \notin Limits /\ NoBucket \notin [start : Nat, count : Nat]
  /\ IsFiniteSet(Names) /\ Names \intersect Identities = {} /\ Tools \intersect Tenants = {}
  /\ Nobody \notin Calls /\ "reload" \notin Calls \union {Nobody}
  /\ MaxTime \in Nat /\ MaxChanges \in Nat

VARIABLES postgres,           \* is it the PostgresLimiter?  Fixed at the start
          clock,
          default, override,  \* requestsPerWindow and window; tenantLimits, toolLimits
          bucket,             \* the buckets, or the rows of budget_buckets
          mu,                 \* who holds the mutex between two steps
          call,               \* the calls of Allow
          reload,             \* the setter in progress
          changes,
          changed,            \* history: the keys whose limit was ever changed
          seen,               \* history: the latest time each bucket was used with
          late,               \* history: the buckets used with an earlier time again
          leftover            \* history: the keys a Clear may have left a row for

limits  == <<default, override>>
order   == <<seen, late>>
history == <<changes, changed, leftover>>
vars == <<postgres, clock, limits, bucket, mu, call, reload, history, order>>

PCs == {"idle", "arrived", "reap", "tool", "tenant", "readN", "readW", "identity",
        "allowed", "refused", "failedOpen"}
Buckets == [start : Nat, count : Nat]
CallStates ==
  [pc : PCs, route : Routes, now : Nat,
   lim : [tool : Limits \union {NoLimit}, tenant : Limits \union {NoLimit},
          identity : [n : Nat, w : Nat]],
   reap : Nat,            \* reapWindow
   took : SUBSET Keys]    \* history: the buckets that admitted the call

TypeOK ==
  /\ postgres \in BOOLEAN /\ clock \in Nat
  /\ default \in [n : Nat, w : Nat] /\ override \in [Names -> Limits \union {NoLimit}]
  /\ bucket \in [Keys -> Buckets \union {NoBucket}]
  /\ mu \in Calls \union {Nobody, "reload"}
  /\ call \in [Calls -> CallStates]
  /\ reload \in [pc : {"idle", "window", "row"}, w : Nat, key : Names]
  /\ changes \in Nat /\ changed \in SUBSET Keys /\ leftover \in SUBSET Names
  /\ seen \in [Keys -> Nat] /\ late \in SUBSET Keys

Unset == [tool |-> NoLimit, tenant |-> NoLimit, identity |-> [n |-> 0, w |-> 0]]
NoCall == [pc |-> "idle", route |-> CHOOSE r \in Routes : TRUE, now |-> 0, lim |-> Unset,
           reap |-> 0, took |-> {}]
NoReload == [pc |-> "idle", w |-> 0, key |-> CHOOSE k \in Names : TRUE]

Init ==
  /\ postgres \in BOOLEAN
  /\ clock = 0 /\ default = DefaultLimit /\ override = Overrides
  /\ bucket = [k \in Keys |-> NoBucket]
  /\ mu = Nobody /\ call = [c \in Calls |-> NoCall] /\ reload = NoReload
  /\ changes = 0 /\ changed = {} /\ leftover = {}
  /\ seen = [k \in Keys |-> 0] /\ late = {}

-----------------------------------------------------------------------------
Become(c, pc, lim, reap, took) ==
  call' = [call EXCEPT ![c] = [pc |-> pc, route |-> call[c].route, now |-> call[c].now,
                               lim |-> lim, reap |-> reap, took |-> took]]
Move(c, pc) == Become(c, pc, call[c].lim, call[c].reap, call[c].took)

\* The handler's start time, which it passes to Allow after other gates.
Arrive(c, route) ==
  /\ call[c].pc = "idle"
  /\ call' = [call EXCEPT ![c] = [pc |-> "arrived", route |-> route, now |-> clock,
                                    lim |-> Unset, reap |-> 0, took |-> {}]]
  /\ UNCHANGED <<postgres, clock, limits, bucket, mu, reload, history, order>>

\* The buckets ks are used, or swept, with the time now.
Touch(ks, now) ==
  /\ late' = late \union {k \in ks : now < seen[k]}
  /\ seen' = [k \in Keys |-> IF k \in ks /\ seen[k] < now THEN now ELSE seen[k]]

Expired(k, w, now) == bucket[k] # NoBucket /\ bucket[k].start + w <= now

\* Mutated form of longestWindowLocked: the overrides are not looked at.
DefaultWindow == default.w

longestWindowLocked ==
  LET windows == {default.w} \union {override[k].w : k \in {n \in Names : override[n] # NoLimit}}
  IN  CHOOSE w \in windows : \A v \in windows : v <= w

\* evictExpired, with each bucket's own window.
WindowOf(k) == IF k \in Identities THEN default.w
               ELSE IF override[k] = NoLimit THEN 0 ELSE override[k].w
evictExpired(now) == [k \in Keys |-> IF Expired(k, WindowOf(k), now) THEN NoBucket ELSE bucket[k]]

\* Mutated form of NextTier: a tool's override stands in for the tenant's.
ToolInsteadOfTenant(lim, pc) ==
  CASE pc = "start" /\ lim.tool # NoLimit -> "tool"
    [] pc = "start" /\ lim.tool = NoLimit /\ lim.tenant # NoLimit -> "tenant"
    [] pc = "identity" -> "allowed"
    [] OTHER -> IF postgres THEN "readN" ELSE "identity"

\* The next of the tiers tool, tenant, identity: a name without an override is
\* not checked.
NextTier(lim, pc) ==
  CASE pc = "start" /\ lim.tool # NoLimit -> "tool"
    [] pc = "start" /\ lim.tool = NoLimit /\ lim.tenant # NoLimit -> "tenant"
    [] pc = "tool" /\ lim.tenant # NoLimit -> "tenant"
    [] pc = "identity" -> "allowed"
    [] OTHER -> IF postgres THEN "readN" ELSE "identity"

\* The start of Allow.  Every so many calls it also sweeps.
Allow(c) ==
  /\ call[c].pc = "arrived" /\ mu = Nobody
  /\ \E sweep \in BOOLEAN :
       /\ LET lim == [tool |-> override[call[c].route.tool],
                      tenant |-> override[call[c].route.tenant], identity |-> default]
          IN  IF postgres /\ sweep
              THEN Become(c, "reap", lim, longestWindowLocked, call[c].took)
              ELSE Become(c, NextTier(lim, "start"), lim, 0, call[c].took)
       /\ IF sweep /\ ~postgres
          THEN bucket' = evictExpired(call[c].now) /\ Touch(Keys, call[c].now)
          ELSE UNCHANGED <<bucket, order>>
  /\ mu' = IF postgres THEN Nobody ELSE c
  /\ UNCHANGED <<postgres, clock, limits, reload, history>>

\* A failure of the sweep is only logged.
reapExpired(c) ==
  /\ call[c].pc = "reap"
  /\ \/ /\ bucket' = [k \in Keys |-> IF Expired(k, call[c].reap, call[c].now) THEN NoBucket
                                     ELSE bucket[k]]
        /\ Touch(Keys, call[c].now)
     \/ UNCHANGED <<bucket, order>>
  /\ Move(c, NextTier(call[c].lim, "start"))
  /\ UNCHANGED <<postgres, clock, limits, mu, reload, history>>

KeyAt(c, pc) == CASE pc = "tool" -> call[c].route.tool
                  [] pc = "tenant" -> call[c].route.tenant
                  [] OTHER -> call[c].route.identity
LimitAt(c, pc) == CASE pc = "tool" -> call[c].lim.tool
                    [] pc = "tenant" -> call[c].lim.tenant
                    [] OTHER -> call[c].lim.identity

\* l.requestsPerWindow and l.window, read one after the other without the mutex.
ReadDefaultLimit(c) ==
  /\ LET lim == call[c].lim
         Read(n, w) == [tool |-> lim.tool, tenant |-> lim.tenant, identity |-> [n |-> n, w |-> w]]
     IN  \/ /\ call[c].pc = "readN"
            /\ Become(c, "readW", Read(default.n, lim.identity.w), call[c].reap, call[c].took)
         \/ /\ call[c].pc = "readW"
            /\ Become(c, "identity", Read(lim.identity.n, default.w), call[c].reap, call[c].took)
  /\ UNCHANGED <<postgres, clock, limits, bucket, mu, reload, history, order>>

Fresh(k, l, now) == bucket[k] = NoBucket \/ Expired(k, l.w, now)

Full(k, l, now) == ~Fresh(k, l, now) /\ bucket[k].count >= l.n

Advance(k, l, now) ==
  [bucket EXCEPT ![k] = IF Fresh(k, l, now) THEN [start |-> now, count |-> 1]
                        ELSE [start |-> @.start, count |-> @.count + 1]]

Checking(c) == call[c].pc \in {"tool", "tenant", "identity"}

checkAndAdvance(c) ==
  LET pc  == call[c].pc
      key == KeyAt(c, pc)
      lim == LimitAt(c, pc)
      now == call[c].now
      to  == IF Full(key, lim, now) THEN "refused" ELSE NextTier(call[c].lim, pc)
  IN  /\ Checking(c)
      /\ bucket' = IF Full(key, lim, now) THEN bucket ELSE Advance(key, lim, now)
      /\ Become(c, to, call[c].lim, call[c].reap,
                IF Full(key, lim, now) THEN call[c].took ELSE call[c].took \union {key})
      /\ mu' = IF to \in {"allowed", "refused"} /\ mu = c THEN Nobody ELSE mu
      /\ Touch({key}, now)
      /\ UNCHANGED <<postgres, clock, limits, reload, history>>

\* A statement that fails may still have been executed.
failOpen(c) ==
  LET pc  == call[c].pc
      key == KeyAt(c, pc)
      lim == LimitAt(c, pc)
      now == call[c].now
  IN  /\ postgres /\ Checking(c)
      /\ \/ UNCHANGED <<bucket, order>>
         \/ /\ ~Full(key, lim, now)
            /\ bucket' = Advance(key, lim, now) /\ Touch({key}, now)
      /\ Move(c, "failedOpen")
      /\ UNCHANGED <<postgres, clock, limits, mu, reload, history>>

-----------------------------------------------------------------------------
\* The setters, which one reload calls one after the other.
Setter(keys) == /\ reload.pc = "idle" /\ mu = Nobody /\ changes < MaxChanges
                /\ changes' = changes + 1 /\ changed' = changed \union keys

\* The two fields are written under the mutex, one after the other.
SetDefaultLimit(l) ==
  /\ Setter(Identities)
  /\ default' = [default EXCEPT !.n = l.n]
  /\ mu' = "reload" /\ reload' = [pc |-> "window", w |-> l.w, key |-> NoReload.key]
  /\ UNCHANGED <<postgres, clock, override, bucket, call, leftover, order>>

SetWindow ==
  /\ reload.pc = "window"
  /\ default' = [default EXCEPT !.w = reload.w]
  /\ mu' = Nobody /\ reload' = NoReload
  /\ UNCHANGED <<postgres, clock, override, bucket, call, history, order>>

\* SetTenantLimit and SetToolLimit.
SetLimit(k, l) ==
  /\ Setter({k})
  /\ override' = [override EXCEPT ![k] = l]
  /\ UNCHANGED <<postgres, clock, default, bucket, mu, call, reload, leftover, order>>

\* Mutated form of ClearLimit: the in-memory bucket stays.
KeepsBucket(k) ==
  /\ Setter({k}) /\ override[k] # NoLimit
  /\ override' = [override EXCEPT ![k] = NoLimit]
  /\ reload' = IF postgres THEN [pc |-> "row", w |-> 0, key |-> k] ELSE reload
  /\ UNCHANGED <<postgres, clock, default, bucket, mu, call, leftover, order>>

\* ClearTenantLimit and ClearToolLimit.  In memory the bucket goes with the
\* override; the row is deleted by a statement of its own.
ClearLimit(k) ==
  /\ Setter({k}) /\ override[k] # NoLimit
  /\ override' = [override EXCEPT ![k] = NoLimit]
  /\ IF postgres THEN reload' = [pc |-> "row", w |-> 0, key |-> k] /\ UNCHANGED bucket
     ELSE bucket' = [bucket EXCEPT ![k] = NoBucket] /\ UNCHANGED reload
  /\ UNCHANGED <<postgres, clock, default, mu, call, leftover, order>>

\* Calls that looked the override of k up before it was cleared.
Holding(k) == {c \in Calls : \/ call[c].route.tool = k /\ call[c].lim.tool # NoLimit
                                /\ call[c].pc \in {"reap", "tool"}
                             \/ call[c].route.tenant = k /\ call[c].lim.tenant # NoLimit
                                /\ call[c].pc \in {"reap", "tool", "tenant"}}

deleteBucketRow ==
  /\ reload.pc = "row"
  /\ \/ bucket' = [bucket EXCEPT ![reload.key] = NoBucket]
        /\ leftover' = IF Holding(reload.key) = {} THEN leftover \ {reload.key}
                       ELSE leftover \union {reload.key}
     \/ UNCHANGED bucket /\ leftover' = leftover \union {reload.key}
  /\ reload' = NoReload
  /\ UNCHANGED <<postgres, clock, limits, mu, call, changes, changed, order>>

Tick == /\ clock < MaxTime /\ clock' = clock + 1
        /\ UNCHANGED <<postgres, limits, bucket, mu, call, reload, history, order>>

CallStep(c) == \/ \E route \in Routes : Arrive(c, route)
               \/ Allow(c) \/ reapExpired(c) \/ ReadDefaultLimit(c)
               \/ checkAndAdvance(c) \/ failOpen(c)

ReloadStep == \/ \E l \in Limits : SetDefaultLimit(l)
              \/ SetWindow
              \/ \E k \in Names, l \in Limits : SetLimit(k, l)
              \/ \E k \in Names : ClearLimit(k)
              \/ deleteBucketRow

Next == (\E c \in Calls : CallStep(c)) \/ ReloadStep \/ Tick

Spec == Init /\ [][Next]_vars

-----------------------------------------------------------------------------
LimitAtStart(k) == IF k \in Identities THEN DefaultLimit ELSE Overrides[k]

\* A limit of n requests per window bounds the rate whatever the calls
\* interleave with: of the calls that arrive within one window's length, at
\* most 2n-1 are admitted (n by the window that ends, but for the call that
\* began it, and n by the one that begins).  That is so for a bucket whose
\* limit no reload changes and whose calls and sweeps come in the order they
\* arrived: a sweep forgets a window as soon as a call of a later time sees it
\* end, and an earlier call then starts a window of its own.
RateBound ==
  \A k \in Keys \ (changed \union late) : LimitAtStart(k) # NoLimit =>
    \A t \in 0..MaxTime :
      Cardinality({c \in Calls : /\ k \in call[c].took
                                 /\ t <= call[c].now /\ call[c].now < t + LimitAtStart(k).w})
        <= 2 * LimitAtStart(k).n - 1

\* Allow is an AND of its tiers: a call it admits, other than by failing open,
\* was charged to its identity and to every override that was there throughout.
AllTiersCharged ==
  \A c \in Calls : call[c].pc = "allowed" =>
    /\ call[c].route.identity \in call[c].took
    /\ \A k \in {call[c].route.tool, call[c].route.tenant} \ changed :
         Overrides[k] # NoLimit => k \in call[c].took

\* A name whose override was cleared has no bucket left for a later override to
\* resume, unless the row's delete failed or a call that had looked the
\* override up before came after the delete.
LeftoverIsExplained ==
  \A k \in Names : override[k] = NoLimit /\ bucket[k] # NoBucket =>
    k \in leftover \/ (reload.pc = "row" /\ reload.key = k)

=============================================================================
