-------------------------- MODULE RateLimiterProofs -------------------------
(***************************************************************************)
(* Proofs about the rate limiters, for any number of calls, names and      *)
(* identities, any limits and any reloads of them.                         *)
(***************************************************************************)
EXTENDS RateLimiter, FiniteSetTheorems, WellFoundedInduction, TLAPS

\* A key whose limit no reload has changed still has the one it started with.
Steady ==
  /\ \A k \in Identities \ changed : default = DefaultLimit
  /\ reload.pc = "window" => Identities \subseteq changed
  /\ reload.pc = "row" => reload.key \in changed
  /\ \A k \in Names \ changed : override[k] = Overrides[k]

\* A call looks the limits up once, checks the tiers that have one in order,
\* and is charged to those it has passed.
Waiting(r) == r.pc \in {"idle", "arrived"}
Looked(r) ==
  /\ r.route.tool \notin changed => r.lim.tool = Overrides[r.route.tool]
  /\ r.route.tenant \notin changed => r.lim.tenant = Overrides[r.route.tenant]
  /\ r.route.identity \notin changed => r.lim.identity = DefaultLimit
  /\ r.pc = "tool" => r.lim.tool # NoLimit
  /\ r.pc = "tenant" => r.lim.tenant # NoLimit
Reaps(r) ==
  \A k \in Keys \ changed : LimitAtStart(k) # NoLimit => LimitAtStart(k).w <= r.reap
Charged(r) ==
  /\ r.pc \in {"tenant", "readN", "readW", "identity", "allowed"} =>
       (r.lim.tool # NoLimit => r.route.tool \in r.took)
  /\ r.pc \in {"readN", "readW", "identity", "allowed"} =>
       (r.lim.tenant # NoLimit => r.route.tenant \in r.took)
  /\ r.pc = "allowed" => r.route.identity \in r.took

Progress ==
  \A c \in Calls : /\ Waiting(call[c]) => call[c].took = {}
                   /\ ~ Waiting(call[c]) => Looked(call[c]) /\ Charged(call[c])
                   /\ call[c].pc = "reap" => Reaps(call[c])

\* In memory one call at a time is in Allow, and no setter meanwhile.
Exclusive ==
  /\ reload.pc = "window" => mu = "reload"
  /\ ~ postgres => \A c \in Calls : /\ Checking(c) => mu = c
                                    /\ call[c].pc \notin {"reap", "readN", "readW", "failedOpen"}

Explained(k) == k \in leftover \/ (reload.pc = "row" /\ reload.key = k)
Leftovers ==
  \A k \in Names : override[k] = NoLimit /\ (bucket[k] # NoBucket \/ Holding(k) # {})
    => Explained(k)

\* What a bucket knows of the calls it admitted.
Since(k, t)     == {c \in Calls : k \in call[c].took /\ t <= call[c].now}
Taken(k, t, to) == {c \in Calls : /\ k \in call[c].took
                                  /\ t <= call[c].now /\ call[c].now < to}

Empty(k, n, w) ==
  /\ \A c \in Since(k, 0) : call[c].now < seen[k]
  /\ \A t \in 0..MaxTime : seen[k] < t + w => Cardinality(Since(k, t)) <= n - 1
Open(k, n, w) ==
  LET start == bucket[k].start
      count == bucket[k].count
  IN  /\ start <= seen[k] /\ count \in 1..n
      /\ \A c \in Since(k, 0) : call[c].now < start + w /\ call[c].now <= seen[k]
      /\ Cardinality(Since(k, start)) <= count
      /\ Cardinality(Since(k, start + 1)) <= count - 1
      /\ \A t \in 0..MaxTime : t < start /\ start < t + w => Cardinality(Taken(k, t, start)) <= n - 1
Bounded(k, n, w) ==
  \A t \in 0..MaxTime : Cardinality(Taken(k, t, t + w)) <= 2 * n - 1

Accounted(k, n, w) ==
  /\ bucket[k] = NoBucket => Empty(k, n, w)
  /\ bucket[k] # NoBucket => Open(k, n, w)
  /\ Bounded(k, n, w)

Finite == \A k \in Keys : IsFiniteSet(Since(k, 0))
Accounts ==
  \A k \in Keys \ (changed \union late) :
    LimitAtStart(k) # NoLimit => Accounted(k, LimitAtStart(k).n, LimitAtStart(k).w)

RateInv == TypeOK /\ clock <= MaxTime /\ (\A c \in Calls : call[c].now <= clock)
           /\ Steady /\ Progress /\ Exclusive /\ Leftovers /\ Finite /\ Accounts

-----------------------------------------------------------------------------
LEMMA CallTyped ==
  ASSUME TypeOK, NEW c \in Calls
  PROVE  /\ call[c] \in CallStates /\ call[c].pc \in PCs /\ call[c].now \in Nat
         /\ call[c].route \in Routes /\ call[c].took \in SUBSET Keys /\ call[c].reap \in Nat
         /\ call[c].lim \in [tool : Limits \union {NoLimit}, tenant : Limits \union {NoLimit},
                             identity : [n : Nat, w : Nat]]
         /\ call[c].route.tool \in Tools /\ call[c].route.tenant \in Tenants
         /\ call[c].route.identity \in Identities
         /\ call[c].route.tool \in Names /\ call[c].route.tenant \in Names
         /\ call[c].route.tool \in Keys /\ call[c].route.tenant \in Keys
         /\ call[c].route.identity \in Keys
<1>1. /\ call[c] \in CallStates /\ call[c].pc \in PCs /\ call[c].now \in Nat
      /\ call[c].route \in Routes /\ call[c].took \in SUBSET Keys /\ call[c].reap \in Nat
      /\ call[c].lim \in [tool : Limits \union {NoLimit}, tenant : Limits \union {NoLimit},
                          identity : [n : Nat, w : Nat]]
  BY Zenon DEF TypeOK, CallStates
<1>2. call[c].route \in [tool : Tools, tenant : Tenants, identity : Identities]
  BY <1>1, RateLimiterAssumption, Zenon
<1> QED
  BY <1>1, <1>2, Zenon DEF Names, Keys

\* The three things a step can do to a bucket that keeps its limit.
Quiet(k) ==
  /\ \A d \in Calls : k \in call'[d].took => k \in call[d].took /\ call'[d].now = call[d].now
  /\ bucket'[k] = bucket[k] /\ seen[k] <= seen'[k]
Forgets(k, w) ==
  /\ \A d \in Calls : k \in call'[d].took => k \in call[d].took /\ call'[d].now = call[d].now
  /\ Expired(k, w, seen'[k]) /\ bucket'[k] = NoBucket /\ seen[k] <= seen'[k]
Counts(k, l, c) ==
  /\ \A d \in Calls : k \in call'[d].took =>
       call'[d].now = call[d].now /\ (k \in call[d].took \/ d = c)
  /\ ~ Full(k, l, call[c].now) /\ seen[k] <= call[c].now /\ seen'[k] = call[c].now
  /\ bucket'[k] = IF Fresh(k, l, call[c].now) THEN [start |-> call[c].now, count |-> 1]
                  ELSE [start |-> bucket[k].start, count |-> bucket[k].count + 1]

LEMMA Fewer ==
  ASSUME NEW T, IsFiniteSet(T), NEW S \in SUBSET T, NEW m \in Int, Cardinality(T) <= m
  PROVE  Cardinality(S) <= m
<1>1. Cardinality(S) <= Cardinality(T) /\ Cardinality(S) \in Nat /\ Cardinality(T) \in Nat
  BY FS_Subset, FS_CardinalityType, Zenon
<1> QED
  BY <1>1

LEMMA SinceFinite ==
  ASSUME TypeOK, Finite, NEW k \in Keys
  PROVE  /\ \A t \in Nat : Since(k, t) \subseteq Since(k, 0) /\ IsFiniteSet(Since(k, t))
         /\ \A t, u \in Nat : /\ Taken(k, t, u) \subseteq Since(k, t)
                              /\ IsFiniteSet(Taken(k, t, u))
<1>1. ASSUME NEW t \in Nat PROVE Since(k, t) \subseteq Since(k, 0)
  BY CallTyped DEF Since
<1>2. ASSUME NEW t \in Nat, NEW u \in Nat PROVE Taken(k, t, u) \subseteq Since(k, t)
  BY Zenon DEF Taken, Since
<1> QED
  BY <1>1, <1>2, FS_Subset, Zenon DEF Finite

LEMMA FiniteGrows ==
  ASSUME TypeOK, Finite, NEW k \in Keys, NEW c \in Calls,
         \A d \in Calls : k \in call'[d].took => k \in call[d].took \/ d = c
  PROVE  IsFiniteSet(Since(k, 0)')
<1>1. IsFiniteSet(Since(k, 0) \union {c})
  BY FS_AddElement, Zenon DEF Finite
<1>2. Since(k, 0)' \subseteq Since(k, 0) \union {c}
  BY CallTyped DEF Since
<1> QED
  BY <1>1, <1>2, FS_Subset, Zenon

LEMMA QuietKeeps ==
  ASSUME TypeOK, TypeOK', Finite, NEW k \in Keys, NEW n \in Nat \ {0}, NEW w \in Nat \ {0},
         Accounted(k, n, w), Quiet(k)
  PROVE  Accounted(k, n, w)'
<1>0. seen[k] \in Nat /\ seen'[k] \in Nat /\ seen[k] <= seen'[k] /\ bucket'[k] = bucket[k]
      /\ \A c \in Calls : call[c].now \in Nat
  BY CallTyped, Zenon DEF TypeOK, Quiet
<1>1. \A t : Since(k, t)' \subseteq Since(k, t)
  BY Zenon DEF Since, Quiet
<1>2. \A t, u : Taken(k, t, u)' \subseteq Taken(k, t, u)
  BY Zenon DEF Taken, Quiet
<1>3. \A c \in Since(k, 0)' : call'[c].now = call[c].now /\ c \in Since(k, 0) /\ c \in Calls
  BY <1>1, Zenon DEF Since, Quiet
<1>4. \A t \in Nat, m \in Int : Cardinality(Since(k, t)) <= m => Cardinality(Since(k, t)') <= m
  BY <1>1, SinceFinite, Fewer, Zenon
<1>5. \A t, u \in Nat, m \in Int :
        Cardinality(Taken(k, t, u)) <= m => Cardinality(Taken(k, t, u)') <= m
  BY <1>2, SinceFinite, Fewer, Zenon
<1>6. \A t \in 0..MaxTime : t \in Nat /\ t + w \in Nat
  BY RateLimiterAssumption
<1>7. n - 1 \in Int /\ 2 * n - 1 \in Int
  OBVIOUS
<1>8. ASSUME bucket[k] = NoBucket PROVE Empty(k, n, w)'
  <2>1. Empty(k, n, w)
    BY <1>8, Zenon DEF Accounted
  <2>2. \A c \in Since(k, 0)' : call'[c].now < seen'[k]
    BY <1>0, <1>3, <2>1 DEF Empty
  <2>3. ASSUME NEW t \in 0..MaxTime, seen'[k] < t + w PROVE Cardinality(Since(k, t)') <= n - 1
    <3>1. seen[k] < t + w
      BY <1>0, <1>6, <2>3
    <3> QED
      BY <1>4, <1>6, <1>7, <2>1, <3>1, Zenon DEF Empty
  <2> QED
    BY <2>2, <2>3, Zenon DEF Empty
<1>9. ASSUME bucket[k] # NoBucket PROVE Open(k, n, w)'
  <2>0. bucket[k].start \in Nat /\ bucket[k].count \in Nat
    BY <1>9, Zenon DEF TypeOK, Buckets
  <2> PICK start \in Nat, count \in Nat : start = bucket[k].start /\ count = bucket[k].count
    BY <2>0, Zenon
  <2>1. /\ start <= seen[k] /\ count \in 1..n
        /\ \A c \in Since(k, 0) : call[c].now < start + w /\ call[c].now <= seen[k]
        /\ Cardinality(Since(k, start)) <= count
        /\ Cardinality(Since(k, start + 1)) <= count - 1
        /\ \A t \in 0..MaxTime : t < start /\ start < t + w => Cardinality(Taken(k, t, start)) <= n - 1
    BY <1>9, Zenon DEF Accounted, Open
  <2>2. start + 1 \in Nat /\ count - 1 \in Int
    OBVIOUS
  <2>3. start <= seen'[k]
    BY <1>0, <2>1, <2>2
  <2>4. \A c \in Since(k, 0)' : call'[c].now < start + w /\ call'[c].now <= seen'[k]
    BY <1>0, <1>3, <2>1
  <2>5. Cardinality(Since(k, start)') <= count /\ Cardinality(Since(k, start + 1)') <= count - 1
    BY <1>4, <2>1, <2>2
  <2>6. \A t \in 0..MaxTime : t < start /\ start < t + w => Cardinality(Taken(k, t, start)') <= n - 1
    BY <1>5, <1>6, <1>7, <2>1, <2>2, Zenon
  <2> QED
    BY <1>0, <2>1, <2>3, <2>4, <2>5, <2>6, Zenon DEF Open
<1>10. Bounded(k, n, w)'
  BY <1>5, <1>6, <1>7, Zenon DEF Accounted, Bounded
<1> QED
  BY <1>0, <1>8, <1>9, <1>10, Zenon DEF Accounted

\* A sweep: every call the window admitted came before it ended.
LEMMA ForgetsKeeps ==
  ASSUME TypeOK, TypeOK', Finite, NEW k \in Keys, NEW n \in Nat \ {0}, NEW w \in Nat \ {0},
         Accounted(k, n, w), Forgets(k, w)
  PROVE  Accounted(k, n, w)'
<1>0. /\ bucket[k] # NoBucket /\ bucket'[k] = NoBucket /\ bucket[k].start + w <= seen'[k]
      /\ \A c \in Calls : call[c].now \in Nat
  BY CallTyped, Zenon DEF TypeOK, Forgets, Expired
<1>00. bucket[k].start \in Nat /\ bucket[k].count \in Nat /\ seen'[k] \in Nat
  BY <1>0, Zenon DEF TypeOK, Buckets
<1> PICK start \in Nat, count \in Nat : start = bucket[k].start /\ count = bucket[k].count
  BY <1>00, Zenon
<1>1. \A t : Since(k, t)' \subseteq Since(k, t)
  BY Zenon DEF Since, Forgets
<1>2. \A t, u : Taken(k, t, u)' \subseteq Taken(k, t, u)
  BY Zenon DEF Taken, Forgets
<1>3. \A c \in Since(k, 0)' : call'[c].now = call[c].now /\ c \in Since(k, 0) /\ c \in Calls
  BY <1>1, Zenon DEF Since, Forgets
<1>4. /\ count \in 1..n /\ \A c \in Since(k, 0) : call[c].now < start + w
      /\ Cardinality(Since(k, start + 1)) <= count - 1
  BY <1>0, Zenon DEF Accounted, Open
<1>5. \A c \in Since(k, 0)' : call'[c].now < seen'[k]
  BY <1>0, <1>00, <1>3, <1>4
<1>6. ASSUME NEW t \in 0..MaxTime, seen'[k] < t + w PROVE Cardinality(Since(k, t)') <= n - 1
  <2>1. t \in Nat /\ start + 1 <= t
    BY <1>0, <1>00, <1>6, RateLimiterAssumption
  <2>2. Since(k, t)' \subseteq Since(k, start + 1)
    BY <1>0, <1>1, <2>1 DEF Since
  <2>3. IsFiniteSet(Since(k, start + 1)) /\ count - 1 \in Int
    BY SinceFinite
  <2>4. Cardinality(Since(k, t)') <= count - 1
    BY <1>4, <2>2, <2>3, Fewer, Zenon
  <2>5. Cardinality(Since(k, t)') \in Nat
    BY <2>2, <2>3, FS_Subset, FS_CardinalityType, Zenon
  <2> QED
    BY <1>4, <2>4, <2>5
<1>7. Bounded(k, n, w)'
  <2>1. \A t, u \in Nat, m \in Int :
          Cardinality(Taken(k, t, u)) <= m => Cardinality(Taken(k, t, u)') <= m
    BY <1>2, SinceFinite, Fewer, Zenon
  <2>2. \A t \in 0..MaxTime : t \in Nat /\ t + w \in Nat
    BY RateLimiterAssumption
  <2>3. 2 * n - 1 \in Int
    OBVIOUS
  <2> QED
    BY <2>1, <2>2, <2>3, Zenon DEF Accounted, Bounded
<1> QED
  BY <1>0, <1>5, <1>6, <1>7, Zenon DEF Accounted, Empty

\* The calls a window does not remember: all came before the call that begins
\* the next one, and few within a window's length of it.
LEMMA Forgotten ==
  ASSUME TypeOK, Finite, NEW k \in Keys, NEW n \in Nat \ {0}, NEW w \in Nat \ {0},
         Accounted(k, n, w), NEW now \in Nat, seen[k] <= now,
         bucket[k] = NoBucket \/ Expired(k, w, now)
  PROVE  /\ \A c \in Since(k, 0) : call[c].now < now
         /\ \A t \in 0..MaxTime : now < t + w => Cardinality(Since(k, t)) <= n - 1
<1>0. seen[k] \in Nat /\ \A c \in Calls : call[c].now \in Nat
  BY CallTyped, Zenon DEF TypeOK
<1>1. \A c \in Since(k, 0) : c \in Calls
  BY Zenon DEF Since
<1>2. \A t \in 0..MaxTime : t \in Nat /\ t + w \in Nat
  BY RateLimiterAssumption
<1>3. CASE bucket[k] = NoBucket
  <2>1. Empty(k, n, w)
    BY <1>3, Zenon DEF Accounted
  <2>2. \A c \in Since(k, 0) : call[c].now < now
    BY <1>0, <1>1, <2>1 DEF Empty
  <2>3. ASSUME NEW t \in 0..MaxTime, now < t + w PROVE seen[k] < t + w
    BY <1>0, <1>2, <2>3
  <2> QED
    BY <2>1, <2>2, <2>3, Zenon DEF Empty
<1>4. CASE bucket[k] # NoBucket
  <2>0. bucket[k].start \in Nat /\ bucket[k].count \in Nat /\ bucket[k].start + w <= now
    BY <1>4, Zenon DEF TypeOK, Buckets, Expired
  <2> PICK start \in Nat, count \in Nat : start = bucket[k].start /\ count = bucket[k].count
    BY <2>0, Zenon
  <2>1. /\ count \in 1..n /\ \A c \in Since(k, 0) : call[c].now < start + w
        /\ Cardinality(Since(k, start + 1)) <= count - 1
    BY <1>4, Zenon DEF Accounted, Open
  <2>2. \A c \in Since(k, 0) : call[c].now < now
    BY <1>0, <1>1, <2>0, <2>1
  <2>3. ASSUME NEW t \in 0..MaxTime, now < t + w PROVE Cardinality(Since(k, t)) <= n - 1
    <3>1. t \in Nat /\ start + 1 <= t
      BY <1>2, <2>0, <2>3
    <3>2. Since(k, t) \subseteq Since(k, start + 1)
      BY <1>0, <3>1 DEF Since
    <3>3. IsFiniteSet(Since(k, start + 1)) /\ count - 1 \in Int
      BY SinceFinite
    <3>4. Cardinality(Since(k, t)) <= count - 1
      BY <2>1, <3>2, <3>3, Fewer, Zenon
    <3>5. Cardinality(Since(k, t)) \in Nat
      BY <3>2, <3>3, FS_Subset, FS_CardinalityType, Zenon
    <3> QED
      BY <2>1, <3>4, <3>5
  <2> QED
    BY <2>2, <2>3, Zenon
<1> QED
  BY <1>3, <1>4, Zenon

LEMMA FreshOpens ==
  ASSUME TypeOK, TypeOK', Finite, NEW k \in Keys, NEW l \in Limits, NEW c \in Calls,
         Accounted(k, l.n, l.w), Counts(k, l, c), Fresh(k, l, call[c].now)
  PROVE  Open(k, l.n, l.w)'
<1> PICK n \in Nat \ {0}, w \in Nat \ {0}, now \in Nat : n = l.n /\ w = l.w /\ now = call[c].now
  BY CallTyped, RateLimiterAssumption, Zenon
<1>1. /\ \A d \in Since(k, 0) : call[d].now < now
      /\ \A t \in 0..MaxTime : now < t + w => Cardinality(Since(k, t)) <= n - 1
  BY Forgotten, Zenon DEF Counts, Fresh
<1>2. bucket'[k].start = now /\ bucket'[k].count = 1 /\ seen'[k] = now
  BY DEF Counts
<1>3. \A d \in Calls : call[d].now \in Nat /\ call'[d].now \in Nat
  BY CallTyped, Zenon DEF TypeOK, CallStates
<1>4. \A d \in Calls : k \in call'[d].took =>
        call'[d].now = call[d].now /\ (d = c \/ d \in Since(k, 0))
  BY <1>3 DEF Counts, Since
<1>5. \A d \in Since(k, 0)' : call'[d].now < now + w /\ call'[d].now <= now
  BY <1>1, <1>3, <1>4 DEF Since
<1>6. Since(k, now)' \subseteq {c} /\ Since(k, now + 1)' = {}
  BY <1>1, <1>3, <1>4 DEF Since
<1>7. Cardinality(Since(k, now)') <= 1 /\ Cardinality(Since(k, now + 1)') <= 1 - 1
  <2>1. IsFiniteSet({c}) /\ Cardinality({c}) = 1
    BY FS_Singleton, Zenon
  <2> QED
    BY <1>6, <2>1, Fewer, FS_EmptySet
<1>8. ASSUME NEW t \in 0..MaxTime, t < now, now < t + w
      PROVE  Cardinality(Taken(k, t, now)') <= n - 1
  <2>1. Taken(k, t, now)' \subseteq Since(k, t) /\ t \in Nat
    BY <1>3, <1>4, RateLimiterAssumption DEF Taken, Since
  <2> QED
    BY <1>1, <1>8, <2>1, SinceFinite, Fewer
<1>9. now <= now /\ 1 \in 1..n
  OBVIOUS
<1> QED
  BY <1>2, <1>5, <1>7, <1>8, <1>9, Zenon DEF Open

LEMMA NextCounted ==
  ASSUME TypeOK, TypeOK', Finite, NEW k \in Keys, NEW l \in Limits, NEW c \in Calls,
         Accounted(k, l.n, l.w), Counts(k, l, c), ~ Fresh(k, l, call[c].now)
  PROVE  Open(k, l.n, l.w)' /\ bucket'[k].start <= call[c].now
<1> PICK n \in Nat \ {0}, w \in Nat \ {0}, now \in Nat : n = l.n /\ w = l.w /\ now = call[c].now
  BY CallTyped, RateLimiterAssumption, Zenon
<1>0. bucket[k] # NoBucket /\ bucket[k].start \in Nat /\ bucket[k].count \in Nat
  BY Zenon DEF Fresh, TypeOK, Buckets
<1> PICK start \in Nat, count \in Nat : start = bucket[k].start /\ count = bucket[k].count
  BY <1>0, Zenon
<1>1. /\ start <= seen[k] /\ count \in 1..n
      /\ \A d \in Since(k, 0) : call[d].now < start + w /\ call[d].now <= seen[k]
      /\ Cardinality(Since(k, start)) <= count
      /\ Cardinality(Since(k, start + 1)) <= count - 1
      /\ \A t \in 0..MaxTime : t < start /\ start < t + w => Cardinality(Taken(k, t, start)) <= n - 1
  BY <1>0, Zenon DEF Accounted, Open
<1>2. /\ bucket'[k].start = start /\ bucket'[k].count = count + 1 /\ seen'[k] = now
      /\ seen[k] <= now /\ seen[k] \in Nat
  BY DEF Counts, TypeOK
<1>3. now < start + w /\ count < n
  BY <1>0 DEF Counts, Fresh, Full, Expired
<1>4. \A d \in Calls : call[d].now \in Nat /\ call'[d].now \in Nat
  BY CallTyped, Zenon DEF TypeOK, CallStates
<1>5. \A d \in Calls : k \in call'[d].took =>
        call'[d].now = call[d].now /\ (d = c \/ k \in call[d].took)
  BY Zenon DEF Counts
<1>6. \A d \in Since(k, 0)' : call'[d].now < start + w /\ call'[d].now <= now
  <2>1. \A d \in Since(k, 0)' : d \in Calls /\ call'[d].now = call[d].now /\ (d = c \/ d \in Since(k, 0))
    BY <1>4, <1>5, Zenon DEF Since
  <2> QED
    BY <1>1, <1>2, <1>3, <1>4, <2>1
<1>7. ASSUME NEW t \in Nat, NEW m \in Nat, Cardinality(Since(k, t)) <= m
      PROVE  Cardinality(Since(k, t)') <= m + 1
  <2>1. Since(k, t)' \subseteq Since(k, t) \union {c}
    BY <1>5, Zenon DEF Since
  <2>2. IsFiniteSet(Since(k, t))
    BY SinceFinite, Zenon
  <2>3. /\ IsFiniteSet(Since(k, t) \union {c})
        /\ \/ Cardinality(Since(k, t) \union {c}) = Cardinality(Since(k, t))
           \/ Cardinality(Since(k, t) \union {c}) = Cardinality(Since(k, t)) + 1
    BY <2>2, FS_AddElement, Zenon
  <2>4. Cardinality(Since(k, t)) \in Nat
    BY <2>2, FS_CardinalityType, Zenon
  <2>5. Cardinality(Since(k, t) \union {c}) <= m + 1 /\ m + 1 \in Int
    BY <1>7, <2>3, <2>4
  <2> QED
    BY <2>1, <2>3, <2>5, Fewer, Zenon
<1>8. Cardinality(Since(k, start)') <= count + 1
  BY <1>1, <1>7, Zenon
<1>9. Cardinality(Since(k, start + 1)') <= (count + 1) - 1
  <2>1. count - 1 \in Nat /\ start + 1 \in Nat /\ (count - 1) + 1 = (count + 1) - 1
    BY <1>1
  <2>2. Cardinality(Since(k, start + 1)') <= (count - 1) + 1
    BY <1>1, <1>7, <2>1, Zenon
  <2> QED
    BY <2>1, <2>2, Zenon
<1>10. ASSUME NEW t \in 0..MaxTime, t < start, start < t + w
       PROVE  Cardinality(Taken(k, t, start)') <= n - 1
  <2>1. t \in Nat
    BY RateLimiterAssumption
  <2>2. Taken(k, t, start)' \subseteq Taken(k, t, start)
    BY <1>1, <1>2, <1>4, <1>5 DEF Taken
  <2>3. IsFiniteSet(Taken(k, t, start)) /\ Cardinality(Taken(k, t, start)) <= n - 1 /\ n - 1 \in Int
    BY <1>1, <1>10, <2>1, SinceFinite
  <2> QED
    BY <2>2, <2>3, Fewer, Zenon
<1>11. start <= now /\ count + 1 \in 1..n
  BY <1>1, <1>2, <1>3
<1> QED
  BY <1>2, <1>6, <1>8, <1>9, <1>10, <1>11, Zenon DEF Open

LEMMA CountsKeeps ==
  ASSUME TypeOK, TypeOK', Finite, Finite', NEW k \in Keys, NEW l \in Limits, NEW c \in Calls,
         Accounted(k, l.n, l.w), Counts(k, l, c)
  PROVE  Accounted(k, l.n, l.w)'
<1> PICK n \in Nat \ {0}, w \in Nat \ {0}, now \in Nat : n = l.n /\ w = l.w /\ now = call[c].now
  BY CallTyped, RateLimiterAssumption, Zenon
<1>1. Open(k, n, w)' /\ bucket'[k].start <= now
  <2>1. CASE Fresh(k, l, call[c].now)
    <3>1. bucket'[k].start = now
      BY <2>1 DEF Counts
    <3> QED
      BY <2>1, <3>1, FreshOpens
  <2>2. CASE ~ Fresh(k, l, call[c].now)
    BY <2>2, NextCounted, Zenon
  <2> QED
    BY <2>1, <2>2, Zenon
<1>2. bucket'[k] # NoBucket /\ bucket'[k].start \in Nat /\ bucket'[k].count \in Nat
  <2>1. bucket'[k] \in Buckets
    <3>1. Fresh(k, l, call[c].now) => bucket'[k] \in Buckets
      BY DEF Counts, Buckets
    <3>2. ~ Fresh(k, l, call[c].now) => bucket[k] \in Buckets
      BY Zenon DEF Fresh, TypeOK
    <3> QED
      BY <3>1, <3>2 DEF Counts, Buckets
  <2> QED
    BY <2>1, RateLimiterAssumption, Zenon DEF Buckets
<1> PICK start \in Nat, count \in Nat : start = bucket'[k].start /\ count = bucket'[k].count
  BY <1>2, Zenon
<1>3. /\ count \in 1..n /\ start <= now /\ Cardinality(Since(k, start)') <= count
      /\ \A t \in 0..MaxTime : t < start /\ start < t + w => Cardinality(Taken(k, t, start)') <= n - 1
  BY <1>1, Zenon DEF Open
<1>4. \A d \in Calls : call[d].now \in Nat /\ call'[d].now \in Nat
  BY CallTyped, Zenon DEF TypeOK, CallStates
<1>5. \A d \in Calls : k \in call'[d].took =>
        call'[d].now = call[d].now /\ (d = c \/ k \in call[d].took)
  BY Zenon DEF Counts
<1>6. \A t, u \in Nat : IsFiniteSet(Since(k, t)') /\ IsFiniteSet(Taken(k, t, u)')
  <2>1. ASSUME NEW t \in Nat, NEW u \in Nat
        PROVE  Since(k, t)' \subseteq Since(k, 0)' /\ Taken(k, t, u)' \subseteq Since(k, 0)'
    BY <1>4 DEF Since, Taken
  <2>2. IsFiniteSet(Since(k, 0)')
    BY Zenon DEF Finite
  <2> QED
    BY <2>1, <2>2, FS_Subset, Zenon
<1>7. ASSUME NEW t \in 0..MaxTime PROVE Cardinality(Taken(k, t, t + w)') <= 2 * n - 1
  <2>0. t \in Nat /\ t + w \in Nat
    BY RateLimiterAssumption
  <2>1. CASE ~ (t <= now /\ now < t + w)
    <3>1. Taken(k, t, t + w)' \subseteq Taken(k, t, t + w)
      BY <1>4, <1>5, <2>0, <2>1, Zenon DEF Taken
    <3>2. IsFiniteSet(Taken(k, t, t + w)) /\ Cardinality(Taken(k, t, t + w)) <= 2 * n - 1
      BY <2>0, SinceFinite, Zenon DEF Accounted, Bounded
    <3> QED
      BY <3>1, <3>2, Fewer
  <2>2. CASE start <= t
    <3>1. Taken(k, t, t + w)' \subseteq Since(k, start)'
      BY <1>4, <2>0, <2>2 DEF Taken, Since
    <3>2. IsFiniteSet(Since(k, start)') /\ Cardinality(Since(k, start)') \in Nat
      BY <1>6, FS_CardinalityType, Zenon
    <3>3. Cardinality(Since(k, start)') <= 2 * n - 1
      BY <1>3, <3>2
    <3> QED
      BY <3>1, <3>2, <3>3, Fewer
  <2>3. CASE t < start /\ start < t + w
    <3> DEFINE before == Taken(k, t, start)'
               after  == Since(k, start)'
    <3>1. IsFiniteSet(before) /\ IsFiniteSet(after) /\ Cardinality(before) <= n - 1 /\ Cardinality(after) <= n
      <4>1. IsFiniteSet(after) /\ Cardinality(after) \in Nat
        BY <1>6, FS_CardinalityType, Zenon
      <4> QED
        BY <1>3, <1>6, <2>0, <2>3, <4>1
    <3>2. Taken(k, t, t + w)' \subseteq before \union after
      BY <1>4, <2>0 DEF Taken, Since
    <3> HIDE DEF before, after
    <3>3. /\ IsFiniteSet(before \union after) /\ IsFiniteSet(before \intersect after)
          /\ Cardinality(before \union after)
               = Cardinality(before) + Cardinality(after) - Cardinality(before \intersect after)
      BY <3>1, FS_Union, FS_Intersection, Zenon
    <3>4. /\ Cardinality(before) \in Nat /\ Cardinality(after) \in Nat
          /\ Cardinality(before \intersect after) \in Nat
      BY <3>1, <3>3, FS_CardinalityType, Zenon
    <3>5. Cardinality(before \union after) <= 2 * n - 1
      BY <3>1, <3>3, <3>4
    <3> QED
      BY <3>2, <3>3, <3>5, Fewer
  <2> QED
    BY <1>3, <2>0, <2>1, <2>2, <2>3
<1>8. Bounded(k, n, w)'
  BY <1>7, Zenon DEF Bounded
<1> QED
  BY <1>1, <1>2, <1>8, Zenon DEF Accounted

-----------------------------------------------------------------------------
(* Every non-empty finite set of windows has a longest one.                *)
LEMMA Least == ASSUME NEW S \in SUBSET Nat, S # {} PROVE \E m \in S : \A k \in S : m <= k
<1> DEFINE Smaller == {s \in Nat \X Nat : s[1] < s[2]}
<1>1. IsWellFoundedOn(Smaller, Nat)
  BY NatLessThanWellFounded, Zenon DEF OpToRel
<1>2. PICK m \in S : \A k \in S : ~ (<<k, m>> \in Smaller)
  BY <1>1, WFMin, Zenon
<1>3. ASSUME NEW k \in S PROVE m <= k
  <2>1. ~ (<<k, m>> \in Smaller) /\ k \in Nat /\ m \in Nat
    BY <1>2, Zenon
  <2>2. k < m => <<k, m>> \in Smaller
    BY <2>1, Zenon
  <2> QED
    BY <2>1, <2>2
<1> QED
  BY <1>3, Zenon

LEMMA Longest ==
  ASSUME NEW S \in SUBSET Nat, IsFiniteSet(S), S # {}
  PROVE  \E m \in S : \A k \in S : k <= m
<1> DEFINE HasMax(U) == \E m \in U : \A k \in U : k <= m
           Sizes == {Cardinality(U) : U \in {V \in SUBSET S : V # {} /\ ~ HasMax(V)}}
<1> SUFFICES ASSUME ~ HasMax(S) PROVE FALSE
  OBVIOUS
<1>1. ASSUME NEW U \in SUBSET S PROVE IsFiniteSet(U) /\ Cardinality(U) \in Nat
  BY <1>1, FS_Subset, FS_CardinalityType, Zenon
<1>2. Sizes \in SUBSET Nat
  BY <1>1, Zenon
<1>3. Cardinality(S) \in Sizes
  <2>1. S \in {V \in SUBSET S : V # {} /\ ~ HasMax(V)}
    OBVIOUS
  <2> QED
    BY <2>1, Zenon
<1>4. PICK size \in Sizes : \A k \in Sizes : size <= k
  BY <1>2, <1>3, Least, Zenon
<1>5. PICK U \in SUBSET S : U # {} /\ ~ HasMax(U) /\ Cardinality(U) = size
  BY <1>4, Zenon
<1>6. PICK x \in U : TRUE
  BY <1>5, Zenon
<1>7. IsFiniteSet(U) /\ Cardinality(U \ {x}) = Cardinality(U) - 1 /\ Cardinality(U) \in Nat
  BY <1>1, <1>6, FS_RemoveElement, Zenon
<1>8. U \ {x} \in SUBSET S /\ Cardinality(U \ {x}) \notin Sizes
  <2> HIDE DEF Sizes
  <2> QED
    BY <1>4, <1>5, <1>7
<1>9. U \ {x} = {} \/ HasMax(U \ {x})
  BY <1>8, Zenon
<1>10. ASSUME U \ {x} = {} PROVE FALSE
  <2>1. \A k \in U : k = x
    BY <1>10, Zenon
  <2> QED
    BY <1>5, <1>6, <2>1
<1>11. ASSUME NEW m \in U \ {x}, \A k \in U \ {x} : k <= m PROVE FALSE
  <2>1. x <= m \/ m <= x
    BY <1>6, <1>11
  <2>2. CASE x <= m
    BY <1>5, <1>11, <2>2, Zenon
  <2>3. CASE m <= x
    <3>1. \A k \in U : k <= x
      BY <1>6, <1>11, <2>3
    <3> QED
      BY <1>5, <3>1, Zenon
  <2> QED
    BY <2>1, <2>2, <2>3, Zenon
<1> QED
  BY <1>9, <1>10, <1>11, Zenon

LEMMA LongestWindow ==
  ASSUME TypeOK
  PROVE  /\ longestWindowLocked \in Nat /\ default.w <= longestWindowLocked
         /\ \A k \in Names : override[k] # NoLimit => override[k].w <= longestWindowLocked
<1> DEFINE Set     == {k \in Names : override[k] # NoLimit}
           Lengths == {override[k].w : k \in Set}
           windows == {default.w} \union Lengths
<1>1. \A k \in Set : override[k] \in Limits /\ override[k].w \in Nat
  BY RateLimiterAssumption, ZenonT(30) DEF TypeOK
<1>2. windows \in SUBSET Nat /\ windows # {}
  <2>1. default.w \in Nat
    BY Zenon DEF TypeOK
  <2> QED
    BY <1>1, <2>1
<1>3. IsFiniteSet(windows)
  <2> DEFINE f == [k \in Set |-> override[k].w]
  <2>1. IsFiniteSet(Set)
    <3>1. Set \in SUBSET Names
      OBVIOUS
    <3> QED
      BY <3>1, RateLimiterAssumption, FS_Subset, Zenon
  <2>2. f \in Surjection(Set, Lengths)
    BY Zenon DEF Surjection
  <2>3. IsFiniteSet(Lengths)
    BY <2>1, <2>2, FS_Surjection, Zenon
  <2>4. windows = Lengths \union {default.w}
    OBVIOUS
  <2> HIDE DEF windows, Lengths
  <2> QED
    BY <2>3, <2>4, FS_AddElement, Zenon
<1>4. longestWindowLocked = CHOOSE w \in windows : \A v \in windows : v <= w
  BY Zenon DEF longestWindowLocked
<1>5. default.w \in windows /\ \A k \in Names : override[k] # NoLimit => override[k].w \in windows
  BY Zenon
<1> HIDE DEF windows
<1>6. \E w \in windows : \A v \in windows : v <= w
  BY <1>2, <1>3, Longest, Zenon
<1>7. longestWindowLocked \in windows /\ \A v \in windows : v <= longestWindowLocked
  BY <1>4, <1>6, Zenon
<1> QED
  BY <1>2, <1>5, <1>7, Zenon

-----------------------------------------------------------------------------
LEMMA BecomeTyped ==
  ASSUME TypeOK, NEW c \in Calls, NEW pc \in PCs,
         NEW lim \in [tool : Limits \union {NoLimit}, tenant : Limits \union {NoLimit},
                      identity : [n : Nat, w : Nat]],
         NEW reap \in Nat, NEW took \in SUBSET Keys, Become(c, pc, lim, reap, took)
  PROVE  call' \in [Calls -> CallStates]
<1>1. [pc |-> pc, route |-> call[c].route, now |-> call[c].now, lim |-> lim, reap |-> reap,
       took |-> took] \in CallStates
  BY Zenon DEF TypeOK, CallStates
<1> QED
  BY <1>1, Zenon DEF Become, TypeOK

\* The tiers in order.
Last == IF postgres THEN "readN" ELSE "identity"
LEMMA Tiers ==
  ASSUME NEW lim
  PROVE  /\ lim.tool # NoLimit => NextTier(lim, "start") = "tool"
         /\ lim.tool = NoLimit /\ lim.tenant # NoLimit => NextTier(lim, "start") = "tenant"
         /\ lim.tool = NoLimit /\ lim.tenant = NoLimit => NextTier(lim, "start") = Last
         /\ lim.tenant # NoLimit => NextTier(lim, "tool") = "tenant"
         /\ lim.tenant = NoLimit => NextTier(lim, "tool") = Last
         /\ NextTier(lim, "tenant") = Last
         /\ NextTier(lim, "identity") = "allowed"
BY Zenon DEF NextTier, Last

LEMMA TierTyped ==
  ASSUME NEW lim, NEW pc \in {"start", "tool", "tenant", "identity"}
  PROVE  NextTier(lim, pc) \in PCs
BY Tiers, Zenon DEF PCs, Last

LEMMA TouchTyped ==
  ASSUME TypeOK, NEW ks \in SUBSET Keys, NEW now \in Nat, Touch(ks, now)
  PROVE  seen' \in [Keys -> Nat] /\ late' \in SUBSET Keys
BY Zenon DEF TypeOK, Touch

\* The statement, or the critical section, that checks one tier.
LEMMA Tier ==
  ASSUME TypeOK, NEW c \in Calls, Checking(c)
  PROVE  /\ KeyAt(c, call[c].pc) \in Keys
         /\ LimitAt(c, call[c].pc) \in Limits \union {NoLimit} \union [n : Nat, w : Nat]
BY CallTyped, Zenon DEF Checking, KeyAt, LimitAt

LEMMA AdvanceTyped ==
  ASSUME TypeOK, NEW k \in Keys, NEW l, NEW now \in Nat, bucket' = Advance(k, l, now)
  PROVE  bucket' \in [Keys -> Buckets \union {NoBucket}]
<1>1. bucket[k] \in Buckets \union {NoBucket}
  BY Zenon DEF TypeOK
<1>2. ~ Fresh(k, l, now) => bucket[k] \in Buckets
  BY <1>1, Zenon DEF Fresh
<1>3. ~ Fresh(k, l, now) => [start |-> bucket[k].start, count |-> bucket[k].count + 1] \in Buckets
  BY <1>2 DEF Buckets
<1>4. [start |-> now, count |-> 1] \in Buckets
  BY Zenon DEF Buckets
<1> QED
  BY <1>3, <1>4, Zenon DEF Advance, TypeOK

LEMMA CallTypeStep ==
  ASSUME TypeOK, NEW c \in Calls, CallStep(c)
  PROVE  TypeOK'
<1> USE CallTyped
<1>1. ASSUME NEW route \in Routes, Arrive(c, route) PROVE TypeOK'
  <2>1. call' \in [Calls -> CallStates]
    <3>1. Unset \in [tool : Limits \union {NoLimit}, tenant : Limits \union {NoLimit},
                     identity : [n : Nat, w : Nat]]
      BY Zenon DEF Unset
    <3>2. [pc |-> "arrived", route |-> route, now |-> clock, lim |-> Unset, reap |-> 0, took |-> {}]
            \in CallStates
      BY <3>1, Zenon DEF CallStates, PCs, TypeOK
    <3> QED
      BY <1>1, <3>2, Zenon DEF Arrive, TypeOK
  <2> QED
    BY <1>1, <2>1, Zenon DEF Arrive, TypeOK, limits, order, history
<1>2. CASE Allow(c)
  <2> DEFINE lim == [tool |-> override[call[c].route.tool],
                     tenant |-> override[call[c].route.tenant], identity |-> default]
  <2>1. lim \in [tool : Limits \union {NoLimit}, tenant : Limits \union {NoLimit},
                 identity : [n : Nat, w : Nat]]
    BY Zenon DEF TypeOK
  <2>2. \E pc \in PCs, reap \in Nat : Become(c, pc, lim, reap, call[c].took)
    <3>1. "reap" \in PCs /\ NextTier(lim, "start") \in PCs /\ 0 \in Nat
      BY TierTyped, Zenon DEF PCs
    <3>2. longestWindowLocked \in Nat
      BY LongestWindow, Zenon
    <3> HIDE DEF lim
    <3>3. \/ Become(c, "reap", lim, longestWindowLocked, call[c].took)
          \/ Become(c, NextTier(lim, "start"), lim, 0, call[c].took)
      BY <1>2, Zenon DEF Allow, lim
    <3> QED
      BY <3>1, <3>2, <3>3, Zenon
  <2> HIDE DEF lim
  <2>3. call' \in [Calls -> CallStates]
    BY <2>1, <2>2, BecomeTyped, Zenon
  <2>4. /\ bucket' \in [Keys -> Buckets \union {NoBucket}]
        /\ seen' \in [Keys -> Nat] /\ late' \in SUBSET Keys
    <3>1. CASE UNCHANGED <<bucket, order>>
      BY <3>1, Zenon DEF TypeOK, order
    <3>2. CASE bucket' = evictExpired(call[c].now) /\ Touch(Keys, call[c].now)
      <4>1. bucket' \in [Keys -> Buckets \union {NoBucket}]
        BY <3>2, Zenon DEF evictExpired, TypeOK
      <4> QED
        BY <3>2, <4>1, TouchTyped, Zenon
    <3> QED
      BY <1>2, <3>1, <3>2, Zenon DEF Allow
  <2>5. mu' \in Calls \union {Nobody, "reload"}
    BY <1>2, Zenon DEF Allow
  <2> QED
    BY <1>2, <2>3, <2>4, <2>5, Zenon DEF Allow, TypeOK, limits, history
<1>3. CASE reapExpired(c)
  <2>1. call' \in [Calls -> CallStates]
    BY <1>3, TierTyped, BecomeTyped, Zenon DEF reapExpired, Move
  <2>2. /\ bucket' \in [Keys -> Buckets \union {NoBucket}]
        /\ seen' \in [Keys -> Nat] /\ late' \in SUBSET Keys
    <3>1. CASE UNCHANGED <<bucket, order>>
      BY <3>1, Zenon DEF TypeOK, order
    <3>2. CASE /\ bucket' = [k \in Keys |-> IF Expired(k, call[c].reap, call[c].now) THEN NoBucket
                                            ELSE bucket[k]]
               /\ Touch(Keys, call[c].now)
      <4>1. bucket' \in [Keys -> Buckets \union {NoBucket}]
        BY <3>2, Zenon DEF TypeOK
      <4> QED
        BY <3>2, <4>1, TouchTyped, Zenon
    <3> QED
      BY <1>3, <3>1, <3>2, Zenon DEF reapExpired
  <2> QED
    BY <1>3, <2>1, <2>2, Zenon DEF reapExpired, TypeOK, limits, history
<1>4. CASE ReadDefaultLimit(c)
  <2>1. call' \in [Calls -> CallStates]
    <3> DEFINE Read(n, w) == [tool |-> call[c].lim.tool, tenant |-> call[c].lim.tenant,
                              identity |-> [n |-> n, w |-> w]]
    <3>1. ASSUME NEW n \in Nat, NEW w \in Nat
          PROVE  Read(n, w) \in [tool : Limits \union {NoLimit}, tenant : Limits \union {NoLimit},
                                 identity : [n : Nat, w : Nat]]
      OBVIOUS
    <3>2. default.n \in Nat /\ default.w \in Nat /\ call[c].lim.identity.n \in Nat
          /\ call[c].lim.identity.w \in Nat /\ "readW" \in PCs /\ "identity" \in PCs
      BY Zenon DEF TypeOK, PCs
    <3>3. /\ Read(default.n, call[c].lim.identity.w) \in
               [tool : Limits \union {NoLimit}, tenant : Limits \union {NoLimit},
                identity : [n : Nat, w : Nat]]
          /\ Read(call[c].lim.identity.n, default.w) \in
               [tool : Limits \union {NoLimit}, tenant : Limits \union {NoLimit},
                identity : [n : Nat, w : Nat]]
      BY <3>1, <3>2, Zenon
    <3>4. \/ Become(c, "readW", Read(default.n, call[c].lim.identity.w), call[c].reap, call[c].took)
          \/ Become(c, "identity", Read(call[c].lim.identity.n, default.w), call[c].reap, call[c].took)
      BY <1>4, Zenon DEF ReadDefaultLimit
    <3> HIDE DEF Read
    <3> QED
      BY <3>2, <3>3, <3>4, BecomeTyped, Zenon
  <2> QED
    BY <1>4, <2>1, Zenon DEF ReadDefaultLimit, TypeOK, limits, history, order
<1>5. CASE checkAndAdvance(c)
  <2> DEFINE key == KeyAt(c, call[c].pc)
             lim == LimitAt(c, call[c].pc)
             now == call[c].now
             to  == IF Full(key, lim, now) THEN "refused" ELSE NextTier(call[c].lim, call[c].pc)
  <2>0. Checking(c) /\ key \in Keys
    BY <1>5, Tier, Zenon DEF checkAndAdvance
  <2>1. to \in PCs
    <3>1. NextTier(call[c].lim, call[c].pc) \in PCs
      BY <2>0, TierTyped, Zenon DEF Checking
    <3> HIDE DEF key, lim, now
    <3> QED
      BY <3>1, Zenon DEF PCs
  <2>2. /\ bucket' = IF Full(key, lim, now) THEN bucket ELSE Advance(key, lim, now)
        /\ Become(c, to, call[c].lim, call[c].reap,
                  IF Full(key, lim, now) THEN call[c].took ELSE call[c].took \union {key})
        /\ mu' = IF to \in {"allowed", "refused"} /\ mu = c THEN Nobody ELSE mu
        /\ Touch({key}, now)
    BY <1>5, Zenon DEF checkAndAdvance
  <2> HIDE DEF key, lim, to
  <2>3. call' \in [Calls -> CallStates]
    <3>1. (IF Full(key, lim, now) THEN call[c].took ELSE call[c].took \union {key}) \in SUBSET Keys
      BY <2>0, Zenon
    <3> QED
      BY <2>1, <2>2, <3>1, BecomeTyped, Zenon
  <2>4. bucket' \in [Keys -> Buckets \union {NoBucket}]
    BY <2>0, <2>2, AdvanceTyped, Zenon DEF TypeOK
  <2>5. seen' \in [Keys -> Nat] /\ late' \in SUBSET Keys
    <3>1. {key} \in SUBSET Keys
      BY <2>0, Zenon
    <3> QED
      BY <2>2, <3>1, TouchTyped, Zenon
  <2>6. mu' \in Calls \union {Nobody, "reload"}
    BY <2>2, Zenon DEF TypeOK
  <2> QED
    BY <1>5, <2>3, <2>4, <2>5, <2>6, Zenon DEF checkAndAdvance, TypeOK, limits, history
<1>6. CASE failOpen(c)
  <2> DEFINE key == KeyAt(c, call[c].pc)
             lim == LimitAt(c, call[c].pc)
             now == call[c].now
  <2>0. Checking(c) /\ key \in Keys /\ {key} \in SUBSET Keys
    BY <1>6, Tier, Zenon DEF failOpen
  <2>1. \/ UNCHANGED <<bucket, order>>
        \/ bucket' = Advance(key, lim, now) /\ Touch({key}, now)
    BY <1>6, Zenon DEF failOpen
  <2> HIDE DEF key, lim
  <2>2. /\ bucket' \in [Keys -> Buckets \union {NoBucket}]
        /\ seen' \in [Keys -> Nat] /\ late' \in SUBSET Keys
    BY <2>0, <2>1, AdvanceTyped, TouchTyped, Zenon DEF TypeOK, order
  <2>3. call' \in [Calls -> CallStates]
    <3>1. "failedOpen" \in PCs
      BY Zenon DEF PCs
    <3> QED
      BY <1>6, <3>1, BecomeTyped, Zenon DEF failOpen, Move
  <2> QED
    BY <1>6, <2>2, <2>3, Zenon DEF failOpen, TypeOK, limits, history
<1> QED
  BY <1>1, <1>2, <1>3, <1>4, <1>5, <1>6, Zenon DEF CallStep

LEMMA NoReloadTyped == NoReload \in [pc : {"idle", "window", "row"}, w : Nat, key : Names]
<1>1. Names # {}
  BY RateLimiterAssumption, Zenon DEF Names
<1>2. (CHOOSE k \in Names : TRUE) \in Names
  BY <1>1, Zenon
<1> QED
  BY <1>2, Zenon DEF NoReload

LEMMA ReloadTypeStep == TypeOK /\ (ReloadStep \/ Tick) => TypeOK'
<1> SUFFICES ASSUME TypeOK, ReloadStep \/ Tick PROVE TypeOK'
  OBVIOUS
<1> USE DEF limits, history, order
<1>0. ASSUME NEW ks \in SUBSET Keys, Setter(ks) PROVE changes' \in Nat /\ changed' \in SUBSET Keys
  BY <1>0 DEF Setter, TypeOK
<1>1. ASSUME NEW l \in Limits, SetDefaultLimit(l) PROVE TypeOK'
  <2>1. l.n \in Nat /\ l.w \in Nat /\ Identities \in SUBSET Keys
    BY RateLimiterAssumption, Zenon DEF Keys
  <2>2. default' \in [n : Nat, w : Nat]
    BY <1>1, <2>1, Zenon DEF SetDefaultLimit, TypeOK
  <2>3. reload' \in [pc : {"idle", "window", "row"}, w : Nat, key : Names]
    BY <1>1, <2>1, NoReloadTyped, Zenon DEF SetDefaultLimit
  <2>4. changes' \in Nat /\ changed' \in SUBSET Keys
    BY <1>0, <1>1, <2>1, Zenon DEF SetDefaultLimit
  <2>5. mu' \in Calls \union {Nobody, "reload"}
    BY <1>1, Zenon DEF SetDefaultLimit
  <2> QED
    BY <1>1, <2>2, <2>3, <2>4, <2>5, Zenon DEF SetDefaultLimit, TypeOK
<1>2. CASE SetWindow
  <2>1. default' \in [n : Nat, w : Nat]
    BY <1>2, Zenon DEF SetWindow, TypeOK
  <2>2. mu' \in Calls \union {Nobody, "reload"}
    BY <1>2, Zenon DEF SetWindow
  <2> QED
    BY <1>2, <2>1, <2>2, NoReloadTyped, Zenon DEF SetWindow, TypeOK
<1>3. ASSUME NEW k \in Names, NEW l \in Limits, SetLimit(k, l) PROVE TypeOK'
  <2>1. {k} \in SUBSET Keys
    BY Zenon DEF Keys
  <2>2. changes' \in Nat /\ changed' \in SUBSET Keys
    BY <1>0, <1>3, <2>1, Zenon DEF SetLimit
  <2>3. override' \in [Names -> Limits \union {NoLimit}]
    BY <1>3, Zenon DEF SetLimit, TypeOK
  <2> QED
    BY <1>3, <2>2, <2>3, Zenon DEF SetLimit, TypeOK
<1>4. ASSUME NEW k \in Names, ClearLimit(k) PROVE TypeOK'
  <2>1. {k} \in SUBSET Keys
    BY Zenon DEF Keys
  <2>2. changes' \in Nat /\ changed' \in SUBSET Keys
    BY <1>0, <1>4, <2>1, Zenon DEF ClearLimit
  <2>3. override' \in [Names -> Limits \union {NoLimit}]
    BY <1>4, Zenon DEF ClearLimit, TypeOK
  <2>4. reload' \in [pc : {"idle", "window", "row"}, w : Nat, key : Names]
    BY <1>4 DEF ClearLimit, TypeOK
  <2>5. bucket' \in [Keys -> Buckets \union {NoBucket}]
    BY <1>4, Zenon DEF ClearLimit, TypeOK
  <2> QED
    BY <1>4, <2>2, <2>3, <2>4, <2>5, Zenon DEF ClearLimit, TypeOK
<1>5. CASE deleteBucketRow
  <2>1. reload.key \in Names
    BY Zenon DEF TypeOK
  <2>2. leftover' \in SUBSET Names
    BY <1>5, <2>1, Zenon DEF deleteBucketRow, TypeOK
  <2>3. bucket' \in [Keys -> Buckets \union {NoBucket}]
    BY <1>5, Zenon DEF deleteBucketRow, TypeOK
  <2> QED
    BY <1>5, <2>2, <2>3, NoReloadTyped, Zenon DEF deleteBucketRow, TypeOK
<1>6. CASE Tick
  <2>1. clock' \in Nat
    BY <1>6 DEF Tick, TypeOK
  <2> QED
    BY <1>6, <2>1, Zenon DEF Tick, TypeOK
<1> QED
  BY <1>1, <1>2, <1>3, <1>4, <1>5, <1>6, Zenon DEF ReloadStep

LEMMA TypeStep == TypeOK /\ [Next]_vars => TypeOK'
<1> SUFFICES ASSUME TypeOK, [Next]_vars PROVE TypeOK'
  OBVIOUS
<1>1. CASE UNCHANGED vars
  BY <1>1, Zenon DEF vars, TypeOK, limits, history, order
<1> QED
  BY <1>1, CallTypeStep, ReloadTypeStep, Zenon DEF Next

-----------------------------------------------------------------------------
\* A step either leaves the limits and the history of reloads alone, or the
\* calls.
LEMMA Apart ==
  /\ \A c \in Calls : CallStep(c) =>
       UNCHANGED <<postgres, clock, default, override, reload, changes, changed, leftover>>
  /\ ReloadStep => UNCHANGED <<postgres, clock, call, seen, late>>
<1>1. ASSUME NEW c \in Calls, CallStep(c)
      PROVE  UNCHANGED <<postgres, clock, default, override, reload, changes, changed, leftover>>
  BY <1>1, Zenon DEF CallStep, Arrive, Allow, reapExpired, ReadDefaultLimit, checkAndAdvance, failOpen,
                     limits, history
<1>2. ASSUME ReloadStep PROVE UNCHANGED <<postgres, clock, call, seen, late>>
  BY <1>2, Zenon DEF ReloadStep, SetDefaultLimit, SetWindow, SetLimit, ClearLimit, deleteBucketRow,
                     order
<1> QED
  BY <1>1, <1>2, Zenon

LEMMA SteadyStep ==
  ASSUME TypeOK, Steady, [Next]_vars
  PROVE  Steady'
<1>1. ASSUME UNCHANGED <<default, override, reload, changed>> PROVE Steady'
  BY <1>1, Zenon DEF Steady
<1>2. ASSUME NEW l \in Limits, SetDefaultLimit(l) PROVE Steady'
  <2>1. changed' = changed \union Identities /\ override' = override /\ reload'.pc = "window"
    BY <1>2, Zenon DEF SetDefaultLimit, Setter
  <2> QED
    BY <2>1, Zenon DEF Steady
<1>3. CASE SetWindow
  <2>1. /\ changed' = changed /\ override' = override /\ Identities \subseteq changed
        /\ reload'.pc = "idle"
    BY <1>3, Zenon DEF SetWindow, Steady, history, NoReload
  <2> QED
    BY <2>1, Zenon DEF Steady
<1>4. ASSUME NEW k \in Names, NEW l \in Limits, SetLimit(k, l) PROVE Steady'
  <2>1. /\ changed' = changed \union {k} /\ default' = default /\ reload' = reload
        /\ \A n \in Names : n # k => override'[n] = override[n]
    BY <1>4, Zenon DEF SetLimit, Setter, TypeOK
  <2> QED
    BY <2>1, Zenon DEF Steady
<1>5. ASSUME NEW k \in Names, ClearLimit(k) PROVE Steady'
  <2>1. /\ changed' = changed \union {k} /\ default' = default /\ reload'.pc # "window"
        /\ reload'.pc = "row" => reload'.key = k
        /\ \A n \in Names : n # k => override'[n] = override[n]
    BY <1>5 DEF ClearLimit, Setter, TypeOK
  <2> QED
    BY <2>1, Zenon DEF Steady
<1>6. CASE deleteBucketRow
  <2>1. /\ changed' = changed /\ default' = default /\ override' = override /\ reload'.pc = "idle"
    BY <1>6, Zenon DEF deleteBucketRow, limits, NoReload
  <2> QED
    BY <2>1, Zenon DEF Steady
<1>7. CASE Tick \/ UNCHANGED vars \/ \E c \in Calls : CallStep(c)
  BY <1>1, <1>7, Apart, Zenon DEF Tick, vars, limits, history
<1> QED
  BY <1>2, <1>3, <1>4, <1>5, <1>6, <1>7, Zenon DEF Next, ReloadStep

-----------------------------------------------------------------------------
\* What a call has done, when only it moves.
Doing(r) == /\ Waiting(r) => r.took = {}
            /\ ~ Waiting(r) => Looked(r) /\ Charged(r)
            /\ r.pc = "reap" => Reaps(r)

LEMMA OthersDo ==
  ASSUME Progress, NEW c \in Calls, CallStep(c), \A d \in Calls : d # c => call'[d] = call[d],
         Doing(call[c])'
  PROVE  Progress'
<1>1. changed' = changed
  BY Apart, Zenon
<1>2. ASSUME NEW d \in Calls, d # c PROVE Doing(call[d])'
  BY <1>1, <1>2, ZenonT(30) DEF Progress, Doing, Waiting, Looked, Charged, Reaps
<1> QED
  BY <1>2, Zenon DEF Progress, Doing

LEMMA ReapsAll ==
  ASSUME TypeOK, Steady, NEW k \in Keys \ changed, LimitAtStart(k) # NoLimit
  PROVE  LimitAtStart(k).w <= longestWindowLocked
<1>1. CASE k \in Identities
  BY <1>1, LongestWindow, Zenon DEF Steady, LimitAtStart
<1>2. CASE k \notin Identities
  BY <1>2, LongestWindow, Zenon DEF Steady, LimitAtStart, Keys
<1> QED
  BY <1>1, <1>2, Zenon

LEMMA ProgressAllow ==
  ASSUME TypeOK, Steady, Progress, NEW c \in Calls, Allow(c)
  PROVE  Progress'
<1> DEFINE lim == [tool |-> override[call[c].route.tool],
                   tenant |-> override[call[c].route.tenant], identity |-> default]
<1>1. \/ Become(c, "reap", lim, longestWindowLocked, call[c].took)
      \/ Become(c, NextTier(lim, "start"), lim, 0, call[c].took)
  BY Zenon DEF Allow
<1>2. /\ CallStep(c) /\ changed' = changed
      /\ \A d \in Calls : d # c => call'[d] = call[d]
  <2>1. \A d \in Calls : d # c => call'[d] = call[d]
    BY <1>1, Zenon DEF Become, TypeOK
  <2> QED
    BY <2>1, Zenon DEF CallStep, Allow, history
<1>3. /\ call[c].route.tool \notin changed => lim.tool = Overrides[call[c].route.tool]
      /\ call[c].route.tenant \notin changed => lim.tenant = Overrides[call[c].route.tenant]
      /\ call[c].route.identity \notin changed => lim.identity = DefaultLimit
  BY CallTyped, Zenon DEF Steady
<1> HIDE DEF lim
<1>4. CASE Become(c, "reap", lim, longestWindowLocked, call[c].took)
  <2>1. /\ call'[c].pc = "reap" /\ call'[c].lim = lim /\ call'[c].route = call[c].route
        /\ call'[c].reap = longestWindowLocked
    BY <1>4, Zenon DEF Become, TypeOK
  <2>2. Looked(call[c])' /\ Charged(call[c])'
    BY <1>2, <1>3, <2>1, Zenon DEF Looked, Charged
  <2>3. Reaps(call[c])'
    BY <1>2, <2>1, ReapsAll, Zenon DEF Reaps, LimitAtStart
  <2>4. Doing(call[c])'
    BY <2>1, <2>2, <2>3, Zenon DEF Doing, Waiting
  <2> QED
    BY <1>2, <2>4, OthersDo, Zenon
<1>5. CASE Become(c, NextTier(lim, "start"), lim, 0, call[c].took)
  <2>1. /\ call'[c].pc = NextTier(lim, "start") /\ call'[c].lim = lim
        /\ call'[c].route = call[c].route
    BY <1>5, Zenon DEF Become, TypeOK
  <2>2. Doing(call[c])'
    BY <1>2, <1>3, <2>1, Tiers, Zenon DEF Doing, Waiting, Looked, Charged, Last
  <2> QED
    BY <1>2, <2>2, OthersDo, Zenon
<1> QED
  BY <1>1, <1>4, <1>5, Zenon

LEMMA ProgressMoves ==
  ASSUME TypeOK, Steady, Progress, NEW c \in Calls, CallStep(c), ~ Allow(c)
  PROVE  Progress'
<1>0. Doing(call[c]) /\ changed' = changed
  BY Apart, Zenon DEF Progress, Doing
<1>1. ASSUME NEW route \in Routes, Arrive(c, route) PROVE Progress'
  <2>1. /\ call'[c].pc = "arrived" /\ call'[c].took = {}
        /\ \A d \in Calls : d # c => call'[d] = call[d]
    BY <1>1, Zenon DEF Arrive, TypeOK
  <2>2. Doing(call[c])'
    BY <2>1, Zenon DEF Doing, Waiting
  <2> QED
    BY <2>1, <2>2, OthersDo, Zenon
<1>2. CASE reapExpired(c)
  <2>1. /\ call'[c].pc = NextTier(call[c].lim, "start") /\ call'[c].lim = call[c].lim
        /\ call'[c].route = call[c].route /\ call[c].pc = "reap"
        /\ \A d \in Calls : d # c => call'[d] = call[d]
    BY <1>2, Zenon DEF reapExpired, Move, Become, TypeOK
  <2>2. Looked(call[c])
    BY <1>0, <2>1, Zenon DEF Doing, Waiting
  <2>3. changed' = changed
    BY Apart, Zenon
  <2>4. Looked(call[c])'
    BY <2>1, <2>2, <2>3, Tiers DEF Looked, Last
  <2>5. Charged(call[c])' /\ ~ Waiting(call[c])' /\ call'[c].pc # "reap"
    BY <2>1, Tiers DEF Charged, Waiting, Last
  <2>6. Doing(call[c])'
    BY <2>4, <2>5, Zenon DEF Doing
  <2> QED
    BY <2>1, <2>6, OthersDo, Zenon
<1>3. CASE ReadDefaultLimit(c)
  <2>0. \A d \in Calls : d # c => call'[d] = call[d]
    BY <1>3, Zenon DEF ReadDefaultLimit, Become, TypeOK
  <2>1. /\ call'[c].lim.tool = call[c].lim.tool /\ call'[c].lim.tenant = call[c].lim.tenant
        /\ call'[c].route = call[c].route /\ call'[c].took = call[c].took
        /\ call[c].pc \in {"readN", "readW"} /\ call'[c].pc \in {"readW", "identity"}
    BY <1>3 DEF ReadDefaultLimit, Become, TypeOK
  <2>2. Looked(call[c]) /\ Charged(call[c])
    BY <1>0, <2>1, Zenon DEF Doing, Waiting
  <2>3. call[c].route.identity \notin changed => call'[c].lim.identity = DefaultLimit
    <3>1. SUFFICES ASSUME call[c].route.identity \notin changed
                   PROVE  call'[c].lim.identity = DefaultLimit
      OBVIOUS
    <3>2. call[c].lim.identity = DefaultLimit /\ default = DefaultLimit
      BY <2>2, <3>1, CallTyped, Zenon DEF Looked, Steady
    <3>3. DefaultLimit = [n |-> DefaultLimit.n, w |-> DefaultLimit.w]
      BY RateLimiterAssumption, Zenon
    <3>4. \/ call'[c].lim.identity = [n |-> default.n, w |-> call[c].lim.identity.w]
          \/ call'[c].lim.identity = [n |-> call[c].lim.identity.n, w |-> default.w]
      BY <1>3 DEF ReadDefaultLimit, Become, TypeOK
    <3> QED
      BY <3>2, <3>3, <3>4, Zenon
  <2>4. Doing(call[c])'
    BY <1>0, <2>1, <2>2, <2>3, Zenon DEF Doing, Waiting, Looked, Charged
  <2> QED
    BY <2>0, <2>4, OthersDo, Zenon
<1>4. CASE checkAndAdvance(c)
  <2> DEFINE key == KeyAt(c, call[c].pc)
             full == Full(key, LimitAt(c, call[c].pc), call[c].now)
  <2>1. /\ call'[c].pc = IF full THEN "refused" ELSE NextTier(call[c].lim, call[c].pc)
        /\ call'[c].took = IF full THEN call[c].took ELSE call[c].took \union {key}
        /\ call'[c].lim = call[c].lim /\ call'[c].route = call[c].route
        /\ \A d \in Calls : d # c => call'[d] = call[d]
    BY <1>4, Zenon DEF checkAndAdvance, Become, TypeOK
  <2>2. Looked(call[c]) /\ Charged(call[c]) /\ call[c].pc \in {"tool", "tenant", "identity"}
    BY <1>0, <1>4, Zenon DEF Doing, Waiting, checkAndAdvance, Checking
  <2>3. /\ call[c].pc = "tool" => key = call[c].route.tool
        /\ call[c].pc = "tenant" => key = call[c].route.tenant
        /\ call[c].pc = "identity" => key = call[c].route.identity
    BY Zenon DEF KeyAt
  <2> HIDE DEF key, full
  <2>4. ASSUME full PROVE Doing(call[c])'
    <3>1. call'[c].pc = "refused"
      BY <2>1, <2>4, Zenon
    <3>2. Looked(call[c])'
      BY <1>0, <2>1, <2>2, <3>1, Zenon DEF Looked
    <3> QED
      BY <3>1, <3>2, Zenon DEF Doing, Waiting, Charged
  <2>5. ASSUME ~ full PROVE Doing(call[c])'
    <3> DEFINE tier == NextTier(call[c].lim, call[c].pc)
    <3>1. call'[c].pc = tier /\ call'[c].took = call[c].took \union {key}
      BY <2>1, <2>5, Zenon
    <3>2. /\ tier = "tenant" \/ tier = "readN" \/ tier = "identity" \/ tier = "allowed"
          /\ tier = "tenant" => call[c].lim.tenant # NoLimit
          /\ tier # "tenant" /\ call[c].lim.tenant # NoLimit => call[c].pc # "tool"
          /\ tier = "allowed" => call[c].pc = "identity"
      BY <2>2, Tiers, Zenon DEF Last
    <3> HIDE DEF tier
    <3>3. Looked(call[c])'
      BY <1>0, <2>1, <2>2, <3>1, <3>2, Zenon DEF Looked
    <3>4. /\ call[c].lim.tool # NoLimit => call[c].route.tool \in call'[c].took
          /\ tier # "tenant" /\ call[c].lim.tenant # NoLimit => call[c].route.tenant \in call'[c].took
          /\ tier = "allowed" => call[c].route.identity \in call'[c].took
      BY <2>2, <2>3, <3>1, <3>2, Zenon DEF Charged
    <3>5. Charged(call[c])'
      BY <2>1, <3>1, <3>4, Zenon DEF Charged
    <3> QED
      BY <3>1, <3>2, <3>3, <3>5, Zenon DEF Doing, Waiting
  <2>6. Doing(call[c])'
    BY <2>4, <2>5, Zenon
  <2> QED
    BY <2>1, <2>6, OthersDo, Zenon
<1>5. CASE failOpen(c)
  <2>1. /\ call'[c].pc = "failedOpen" /\ call'[c].lim = call[c].lim
        /\ call'[c].route = call[c].route
        /\ \A d \in Calls : d # c => call'[d] = call[d]
    BY <1>5, Zenon DEF failOpen, Move, Become, TypeOK
  <2>2. Looked(call[c])
    BY <1>0, <1>5, Zenon DEF Doing, Waiting, failOpen, Checking
  <2>3. Doing(call[c])'
    BY <1>0, <2>1, <2>2, Zenon DEF Doing, Waiting, Looked, Charged
  <2> QED
    BY <2>1, <2>3, OthersDo, Zenon
<1> QED
  BY <1>1, <1>2, <1>3, <1>4, <1>5, Zenon DEF CallStep

LEMMA Grows ==
  ASSUME [Next]_vars
  PROVE  changed \subseteq changed'
<1>1. ASSUME ReloadStep PROVE changed \subseteq changed'
  BY <1>1, Zenon DEF ReloadStep, SetDefaultLimit, SetWindow, SetLimit, ClearLimit, deleteBucketRow,
                     Setter, history
<1> QED
  BY <1>1, Apart, Zenon DEF Next, Tick, vars, history

LEMMA ProgressStep ==
  ASSUME TypeOK, Steady, Progress, [Next]_vars
  PROVE  Progress'
<1>1. ASSUME call' = call PROVE Progress'
  <2>1. \A x : x \notin changed' => x \notin changed
    BY Grows, Zenon
  <2> QED
    BY <1>1, <2>1, ZenonT(30) DEF Progress, Waiting, Looked, Charged, Reaps, LimitAtStart
<1>2. ReloadStep \/ Tick \/ UNCHANGED vars => call' = call
  BY Apart, Zenon DEF Tick, vars
<1> QED
  BY <1>1, <1>2, ProgressAllow, ProgressMoves, Zenon DEF Next

-----------------------------------------------------------------------------
LEMMA ExclusiveCall ==
  ASSUME TypeOK, Exclusive, NEW c \in Calls, CallStep(c)
  PROVE  Exclusive'
<1>0. /\ UNCHANGED <<postgres, reload>> /\ Nobody \notin Calls /\ "reload" \notin Calls
      /\ Nobody # "reload"
  BY Apart, RateLimiterAssumption, Zenon
<1>1. ASSUME NEW route \in Routes, Arrive(c, route) PROVE Exclusive'
  <2>1. /\ mu' = mu /\ call'[c].pc = "arrived" /\ \A d \in Calls : d # c => call'[d] = call[d]
    BY <1>1, Zenon DEF Arrive, TypeOK
  <2> QED
    BY <1>0, <2>1, Zenon DEF Exclusive, Checking
<1>2. CASE Allow(c)
  <2> DEFINE lim == [tool |-> override[call[c].route.tool],
                     tenant |-> override[call[c].route.tenant], identity |-> default]
  <2>1. mu = Nobody /\ mu' = IF postgres THEN Nobody ELSE c
    BY <1>2, Zenon DEF Allow
  <2>2. ~ postgres => Become(c, NextTier(lim, "start"), lim, 0, call[c].took)
    BY <1>2, Zenon DEF Allow
  <2> HIDE DEF lim
  <2>3. ~ postgres => /\ call'[c].pc = NextTier(lim, "start")
                      /\ \A d \in Calls : d # c => call'[d] = call[d]
    BY <2>2 DEF Become, TypeOK
  <2>4. ~ postgres => NextTier(lim, "start") \in {"tool", "tenant", "identity"}
    BY Tiers, Zenon DEF Last
  <2> QED
    BY <1>0, <2>1, <2>3, <2>4, Zenon DEF Exclusive, Checking
<1>3. CASE reapExpired(c) \/ ReadDefaultLimit(c) \/ failOpen(c)
  <2>1. postgres /\ mu' = mu
    BY <1>3, Zenon DEF Exclusive, reapExpired, ReadDefaultLimit, failOpen
  <2> QED
    BY <1>0, <2>1, Zenon DEF Exclusive
<1>4. CASE checkAndAdvance(c)
  <2> DEFINE key  == KeyAt(c, call[c].pc)
             full == Full(key, LimitAt(c, call[c].pc), call[c].now)
             to   == IF full THEN "refused" ELSE NextTier(call[c].lim, call[c].pc)
  <2>1. /\ mu' = IF to \in {"allowed", "refused"} /\ mu = c THEN Nobody ELSE mu
        /\ Checking(c)
        /\ Become(c, to, call[c].lim, call[c].reap,
                  IF full THEN call[c].took ELSE call[c].took \union {key})
    BY <1>4, Zenon DEF checkAndAdvance
  <2>2. ~ postgres => to \in {"tenant", "identity", "allowed", "refused"}
    BY <2>1, Tiers, Zenon DEF Checking, Last
  <2> HIDE DEF to, full, key
  <2>3. call'[c].pc = to /\ \A d \in Calls : d # c => call'[d] = call[d]
    BY <2>1, Zenon DEF Become, TypeOK
  <2>4. mu' = "reload" <=> mu = "reload"
    BY <1>0, <2>1, Zenon
  <2>5. ~ postgres => mu = c
    BY <2>1, Zenon DEF Exclusive
  <2>6. ASSUME ~ postgres, NEW d \in Calls, d # c
        PROVE  ~ Checking(d)' /\ call'[d].pc \notin {"reap", "readN", "readW", "failedOpen"}
    BY <2>3, <2>5, <2>6, Zenon DEF Exclusive, Checking
  <2>7. ~ postgres => /\ Checking(c)' => mu' = c
                      /\ call'[c].pc \notin {"reap", "readN", "readW", "failedOpen"}
    BY <2>1, <2>2, <2>3, <2>5, Zenon DEF Checking
  <2> QED
    BY <1>0, <2>4, <2>6, <2>7, Zenon DEF Exclusive
<1> QED
  BY <1>1, <1>2, <1>3, <1>4, Zenon DEF CallStep

LEMMA ExclusiveStep ==
  ASSUME TypeOK, Exclusive, [Next]_vars
  PROVE  Exclusive'
<1>0. Nobody \notin Calls /\ "reload" \notin Calls /\ Nobody # "reload"
  BY RateLimiterAssumption, Zenon
<1>1. CASE Tick \/ UNCHANGED vars
  BY <1>1, Zenon DEF Tick, vars, limits, history, Exclusive, Checking
<1>2. CASE ReloadStep
  <2>0. UNCHANGED <<postgres, call>>
    BY <1>2, Apart, Zenon
  <2>1. ASSUME NEW l \in Limits, SetDefaultLimit(l) PROVE Exclusive'
    <3>1. mu = Nobody /\ mu' = "reload"
      BY <2>1, Zenon DEF SetDefaultLimit, Setter
    <3> QED
      BY <1>0, <2>0, <3>1, Zenon DEF Exclusive, Checking
  <2>2. CASE SetWindow
    <3>1. mu = "reload" /\ reload'.pc = "idle"
      BY <2>2, Zenon DEF SetWindow, NoReload, Exclusive
    <3> QED
      BY <1>0, <2>0, <3>1, Zenon DEF Exclusive, Checking
  <2>3. ASSUME NEW k \in Names, NEW l \in Limits, SetLimit(k, l) PROVE Exclusive'
    <3>1. UNCHANGED <<mu, reload>>
      BY <2>3, Zenon DEF SetLimit
    <3> QED
      BY <2>0, <3>1, Zenon DEF Exclusive, Checking
  <2>4. ASSUME NEW k \in Names, ClearLimit(k) PROVE Exclusive'
    <3>1. mu' = mu /\ (reload' = reload \/ reload'.pc = "row")
      BY <2>4 DEF ClearLimit
    <3> QED
      BY <2>0, <3>1, Zenon DEF Exclusive, Checking
  <2>5. CASE deleteBucketRow
    <3>1. mu' = mu /\ reload'.pc = "idle"
      BY <2>5, Zenon DEF deleteBucketRow, NoReload
    <3> QED
      BY <2>0, <3>1, Zenon DEF Exclusive, Checking
  <2> QED
    BY <1>2, <2>1, <2>2, <2>3, <2>4, <2>5, Zenon DEF ReloadStep
<1> QED
  BY <1>1, <1>2, ExclusiveCall, Zenon DEF Next

-----------------------------------------------------------------------------
\* A name that lost its override gets no bucket, and no call that would give
\* it one, from a call's step.
LEMMA NoNewHolder ==
  ASSUME TypeOK, NEW c \in Calls, CallStep(c), NEW k \in Names, override[k] = NoLimit,
         Holding(k)' # {}
  PROVE  Holding(k) # {}
<1>0. PICK d \in Calls : d \in Holding(k)'
  BY Zenon DEF Holding
<1>1. ASSUME NEW route \in Routes, Arrive(c, route) PROVE d \in Holding(k)
  <2>1. call'[c].pc = "arrived" /\ \A e \in Calls : e # c => call'[e] = call[e]
    BY <1>1, Zenon DEF Arrive, TypeOK
  <2> QED
    BY <1>0, <2>1, Zenon DEF Holding
<1>2. CASE Allow(c)
  <2> DEFINE lim == [tool |-> override[call[c].route.tool],
                     tenant |-> override[call[c].route.tenant], identity |-> default]
  <2>1. \/ Become(c, "reap", lim, longestWindowLocked, call[c].took)
        \/ Become(c, NextTier(lim, "start"), lim, 0, call[c].took)
    BY <1>2, Zenon DEF Allow
  <2>2. call[c].route.tool = k => lim.tool = NoLimit
    OBVIOUS
  <2>3. call[c].route.tenant = k => lim.tenant = NoLimit
    OBVIOUS
  <2> HIDE DEF lim
  <2>4. /\ call'[c].route = call[c].route /\ call'[c].lim = lim
        /\ \A e \in Calls : e # c => call'[e] = call[e]
    BY <2>1 DEF Become, TypeOK
  <2> QED
    BY <1>0, <2>2, <2>3, <2>4, Zenon DEF Holding
<1>3. CASE ~ Allow(c) /\ ~ \E route \in Routes : Arrive(c, route)
  <2>1. /\ call'[c].route = call[c].route /\ \A e \in Calls : e # c => call'[e] = call[e]
        /\ call'[c].lim.tool = call[c].lim.tool /\ call'[c].lim.tenant = call[c].lim.tenant
        /\ call'[c].pc \in {"reap", "tool"} => call[c].pc \in {"reap", "tool"}
        /\ call'[c].pc = "tenant" => call[c].pc \in {"reap", "tool", "tenant"}
    <3>1. CASE reapExpired(c)
      BY <3>1, Zenon DEF reapExpired, Move, Become, TypeOK
    <3>2. CASE ReadDefaultLimit(c)
      BY <3>2 DEF ReadDefaultLimit, Become, TypeOK
    <3>3. CASE checkAndAdvance(c)
      <4> DEFINE key  == KeyAt(c, call[c].pc)
                 full == Full(key, LimitAt(c, call[c].pc), call[c].now)
                 to   == IF full THEN "refused" ELSE NextTier(call[c].lim, call[c].pc)
      <4>1. /\ Checking(c)
            /\ Become(c, to, call[c].lim, call[c].reap,
                      IF full THEN call[c].took ELSE call[c].took \union {key})
        BY <3>3, Zenon DEF checkAndAdvance
      <4>2. to \notin {"reap", "tool"} /\ call[c].pc \in {"tool", "tenant", "identity"}
            /\ (to = "tenant" => call[c].pc = "tool")
        BY <4>1, Tiers, Zenon DEF Checking, Last
      <4> HIDE DEF to, full, key
      <4>3. /\ call'[c].pc = to /\ call'[c].lim = call[c].lim /\ call'[c].route = call[c].route
            /\ \A e \in Calls : e # c => call'[e] = call[e]
        BY <4>1, Zenon DEF Become, TypeOK
      <4> QED
        BY <4>2, <4>3, Zenon
    <3>4. CASE failOpen(c)
      BY <3>4, ZenonT(30) DEF failOpen, Move, Become, TypeOK
    <3> QED
      BY <1>3, <3>1, <3>2, <3>3, <3>4, Zenon DEF CallStep
  <2> QED
    BY <1>0, <2>1, ZenonT(30) DEF Holding
<1> QED
  BY <1>1, <1>2, <1>3, Zenon

LEMMA NoNewBucket ==
  ASSUME TypeOK, Progress, NEW c \in Calls, CallStep(c), NEW k \in Names,
         bucket[k] = NoBucket, bucket'[k] # NoBucket
  PROVE  Holding(k) # {}
<1> DEFINE key == KeyAt(c, call[c].pc)
<1>0. k \in Keys /\ k \notin Identities
  BY RateLimiterAssumption, Zenon DEF Keys
<1>1. Checking(c) /\ \E l, now : bucket' = Advance(key, l, now)
  <2>1. ASSUME NEW route \in Routes, Arrive(c, route) PROVE bucket' = bucket
    BY <2>1, Zenon DEF Arrive
  <2>2. ASSUME Allow(c) PROVE bucket' = bucket \/ bucket' = evictExpired(call[c].now)
    BY <2>2, Zenon DEF Allow
  <2>3. ASSUME reapExpired(c)
        PROVE  \/ bucket' = bucket
               \/ bucket' = [x \in Keys |-> IF Expired(x, call[c].reap, call[c].now) THEN NoBucket
                                            ELSE bucket[x]]
    BY <2>3, Zenon DEF reapExpired
  <2>4. ASSUME ReadDefaultLimit(c) PROVE bucket' = bucket
    BY <2>4, Zenon DEF ReadDefaultLimit
  <2>5. ASSUME checkAndAdvance(c) PROVE bucket' = bucket \/ (Checking(c) /\ \E l, now : bucket' = Advance(key, l, now))
    BY <2>5, Zenon DEF checkAndAdvance
  <2>6. ASSUME failOpen(c) PROVE bucket' = bucket \/ (Checking(c) /\ \E l, now : bucket' = Advance(key, l, now))
    BY <2>6, Zenon DEF failOpen
  <2>7. bucket' # bucket /\ bucket' # evictExpired(call[c].now)
        /\ bucket' # [x \in Keys |-> IF Expired(x, call[c].reap, call[c].now) THEN NoBucket
                                     ELSE bucket[x]]
    BY <1>0, Zenon DEF evictExpired
  <2> HIDE DEF key
  <2> QED
    BY <2>1, <2>2, <2>3, <2>4, <2>5, <2>6, <2>7, Zenon DEF CallStep
<1>2. k = key
  <2> HIDE DEF key
  <2>1. PICK l, now : bucket' = Advance(key, l, now)
    BY <1>1, Zenon
  <2> QED
    BY <1>0, <2>1, Zenon DEF Advance, TypeOK
<1>3. Looked(call[c])
  BY <1>1, Zenon DEF Progress, Waiting, Checking
<1>4. c \in Holding(k)
  BY <1>0, <1>1, <1>2, <1>3, CallTyped, Zenon DEF KeyAt, Holding, Looked, Checking
<1> QED
  BY <1>4, Zenon

LEMMA LeftoversReload ==
  ASSUME TypeOK, Exclusive, Leftovers, ReloadStep
  PROVE  Leftovers'
<1>0. UNCHANGED <<postgres, call>> /\ \A k \in Names : Holding(k)' = Holding(k)
  BY Apart, Zenon DEF Holding
<1>1. ASSUME NEW l \in Limits, SetDefaultLimit(l) PROVE Leftovers'
  <2>1. reload.pc = "idle" /\ UNCHANGED <<override, bucket, leftover>>
    BY <1>1, Zenon DEF SetDefaultLimit, Setter
  <2> QED
    BY <1>0, <2>1, Zenon DEF Leftovers, Explained
<1>2. CASE SetWindow
  <2>1. reload.pc = "window" /\ UNCHANGED <<override, bucket, leftover>>
    BY <1>2, Zenon DEF SetWindow, history
  <2> QED
    BY <1>0, <2>1, Zenon DEF Leftovers, Explained
<1>3. ASSUME NEW n \in Names, NEW l \in Limits, SetLimit(n, l) PROVE Leftovers'
  <2>1. /\ UNCHANGED <<bucket, leftover, reload>> /\ override'[n] = l /\ l # NoLimit
        /\ \A k \in Names : k # n => override'[k] = override[k]
    BY <1>3, RateLimiterAssumption, Zenon DEF SetLimit, TypeOK
  <2> QED
    BY <1>0, <2>1, Zenon DEF Leftovers, Explained
<1>4. ASSUME NEW n \in Names, ClearLimit(n) PROVE Leftovers'
  <2>1. /\ leftover' = leftover /\ reload.pc = "idle" /\ mu = Nobody
        /\ \A k \in Names : k # n => override'[k] = override[k] /\ bucket'[k] = bucket[k]
    BY <1>4, Zenon DEF ClearLimit, Setter, TypeOK, Keys
  <2>2. ASSUME NEW k \in Names, k # n, override'[k] = NoLimit, bucket'[k] # NoBucket \/ Holding(k)' # {}
        PROVE  Explained(k)'
    BY <1>0, <2>1, <2>2, Zenon DEF Leftovers, Explained
  <2>3. ASSUME postgres PROVE Explained(n)'
    BY <1>4, <2>3 DEF ClearLimit, Explained
  <2>4. ASSUME ~ postgres PROVE bucket'[n] = NoBucket /\ Holding(n)' = {}
    <3>1. bucket'[n] = NoBucket
      BY <1>4, <2>4, Zenon DEF ClearLimit, TypeOK, Keys
    <3>2. Holding(n) = {}
      BY <2>1, <2>4, RateLimiterAssumption, Zenon DEF Exclusive, Checking, Holding
    <3> QED
      BY <1>0, <3>1, <3>2, Zenon
  <2> QED
    BY <2>2, <2>3, <2>4, Zenon DEF Leftovers
<1>5. CASE deleteBucketRow
  <2>1. /\ reload.pc = "row" /\ override' = override /\ reload.key \in Names
        /\ \A k \in Names : k # reload.key => bucket'[k] = bucket[k] /\ (k \in leftover => k \in leftover')
    BY <1>5, Zenon DEF deleteBucketRow, limits, TypeOK, Keys
  <2>2. ASSUME NEW k \in Names, k # reload.key, override'[k] = NoLimit, bucket'[k] # NoBucket \/ Holding(k)' # {}
        PROVE  Explained(k)'
    BY <1>0, <2>1, <2>2, Zenon DEF Leftovers, Explained
  <2>3. \/ reload.key \in leftover'
        \/ bucket'[reload.key] = NoBucket /\ Holding(reload.key) = {}
    BY <1>5, <2>1, Zenon DEF deleteBucketRow, TypeOK, Keys
  <2> QED
    BY <1>0, <2>2, <2>3, Zenon DEF Leftovers, Explained
<1> QED
  BY <1>1, <1>2, <1>3, <1>4, <1>5, Zenon DEF ReloadStep

LEMMA LeftoversStep ==
  ASSUME TypeOK, Progress, Exclusive, Leftovers, [Next]_vars
  PROVE  Leftovers'
<1>1. CASE Tick \/ UNCHANGED vars
  BY <1>1, Zenon DEF Tick, vars, limits, history, Leftovers, Explained, Holding
<1>2. ASSUME NEW c \in Calls, CallStep(c) PROVE Leftovers'
  <2>1. UNCHANGED <<override, reload, leftover>>
    BY <1>2, Apart, Zenon
  <2>2. ASSUME NEW k \in Names, override[k] = NoLimit, bucket'[k] # NoBucket \/ Holding(k)' # {}
        PROVE  bucket[k] # NoBucket \/ Holding(k) # {}
    BY <1>2, <2>2, NoNewHolder, NoNewBucket, Zenon
  <2> QED
    BY <2>1, <2>2, Zenon DEF Leftovers, Explained
<1> QED
  BY <1>1, <1>2, LeftoversReload, Zenon DEF Next

-----------------------------------------------------------------------------
\* Every step is one of the three for a bucket that keeps its limit and is
\* used in order.
LEMMA Ordered ==
  ASSUME TypeOK, NEW ks \in SUBSET Keys, NEW now \in Nat, Touch(ks, now), NEW k \in Keys \ late'
  PROVE  /\ k \in ks => seen[k] <= now /\ seen'[k] = now
         /\ k \notin ks => seen'[k] = seen[k]
         /\ seen[k] <= seen'[k]
BY DEF Touch, TypeOK

LEMMA SteadyLimit ==
  ASSUME TypeOK, Progress, NEW c \in Calls, Checking(c), KeyAt(c, call[c].pc) \notin changed
  PROVE  LimitAt(c, call[c].pc) = LimitAtStart(KeyAt(c, call[c].pc))
<1>1. Looked(call[c])
  BY Zenon DEF Progress, Waiting, Checking
<1>2. call[c].route.tool \notin Identities /\ call[c].route.tenant \notin Identities
  BY CallTyped, RateLimiterAssumption, Zenon
<1> QED
  BY <1>1, <1>2, CallTyped, Zenon DEF Looked, Checking, KeyAt, LimitAt, LimitAtStart

LEMMA SteadyWindow ==
  ASSUME TypeOK, Steady, NEW k \in Keys \ changed, LimitAtStart(k) # NoLimit
  PROVE  WindowOf(k) = LimitAtStart(k).w
BY Zenon DEF Steady, WindowOf, LimitAtStart, Keys

LEMMA Sweeps ==
  ASSUME TypeOK, NEW k \in Keys \ late', NEW v \in Nat, NEW w \in Nat, w <= v, NEW now \in Nat,
         Touch(Keys, now), bucket'[k] = (IF Expired(k, v, now) THEN NoBucket ELSE bucket[k]),
         \A d \in Calls : call'[d].took = call[d].took /\ call'[d].now = call[d].now
  PROVE  Quiet(k) \/ Forgets(k, w)
<1>1. seen[k] <= now /\ seen'[k] = now
  BY Ordered
<1>2. Expired(k, v, now) => Expired(k, w, now)
  BY DEF Expired, TypeOK, Buckets
<1> QED
  BY <1>1, <1>2, Zenon DEF Quiet, Forgets

LEMMA Advances ==
  ASSUME TypeOK, NEW k \in Keys \ late', NEW c \in Calls, NEW key \in Keys, NEW l,
         \A d \in Calls : call'[d].now = call[d].now,
         \A d \in Calls : call'[d].took \subseteq call[d].took \union (IF d = c THEN {key} ELSE {}),
         Touch({key}, call[c].now), bucket' = Advance(key, l, call[c].now),
         ~ Full(key, l, call[c].now)
  PROVE  IF key = k THEN Counts(k, l, c) ELSE Quiet(k)
<1>1. call[c].now \in Nat
  BY CallTyped, Zenon
<1>2. /\ key = k => seen[k] <= call[c].now /\ seen'[k] = call[c].now
      /\ seen[k] <= seen'[k]
  BY <1>1 DEF Touch, TypeOK
<1>3. CASE key = k
  <2>1. bucket'[k] = IF Fresh(k, l, call[c].now) THEN [start |-> call[c].now, count |-> 1]
                     ELSE [start |-> bucket[k].start, count |-> bucket[k].count + 1]
    BY <1>3, Zenon DEF Advance, TypeOK
  <2> QED
    BY <1>2, <1>3, <2>1, Zenon DEF Counts
<1>4. CASE key # k
  <2>1. bucket'[k] = bucket[k]
    BY <1>4, Zenon DEF Advance, TypeOK
  <2> QED
    BY <1>2, <1>4, <2>1, Zenon DEF Quiet
<1> QED
  BY <1>3, <1>4, Zenon

LEMMA CallEffect ==
  ASSUME TypeOK, Steady, Progress, NEW c \in Calls, CallStep(c),
         NEW k \in Keys \ (changed \union late'), LimitAtStart(k) # NoLimit
  PROVE  \/ Quiet(k)
         \/ Forgets(k, LimitAtStart(k).w)
         \/ Counts(k, LimitAtStart(k), c)
<1> DEFINE now == call[c].now
           key == KeyAt(c, call[c].pc)
           lim == LimitAt(c, call[c].pc)
<1>0. LimitAtStart(k) \in Limits /\ LimitAtStart(k).w \in Nat /\ now \in Nat /\ seen[k] \in Nat
  <2>1. LimitAtStart(k) \in Limits
    BY RateLimiterAssumption, Zenon DEF LimitAtStart, Keys
  <2> QED
    BY <2>1, CallTyped, RateLimiterAssumption, Zenon DEF TypeOK
<1>1. ASSUME NEW route \in Routes, Arrive(c, route) PROVE Quiet(k)
  <2>1. /\ call'[c].took = {} /\ \A d \in Calls : d # c => call'[d] = call[d]
        /\ bucket' = bucket /\ seen' = seen
    BY <1>1, Zenon DEF Arrive, TypeOK, order
  <2> QED
    BY <1>0, <2>1 DEF Quiet
<1>2. CASE Allow(c)
  <2>1. /\ \A d \in Calls : call'[d].took = call[d].took /\ call'[d].now = call[d].now
        /\ \/ bucket' = evictExpired(now) /\ Touch(Keys, now)
           \/ bucket' = bucket /\ seen' = seen
    <3>1. \E pc, l, reap : Become(c, pc, l, reap, call[c].took)
      BY <1>2, Zenon DEF Allow
    <3>2. \A d \in Calls : call'[d].took = call[d].took /\ call'[d].now = call[d].now
      BY <3>1 DEF Become, TypeOK
    <3> QED
      BY <1>2, <3>2, Zenon DEF Allow, order
  <2>2. CASE bucket' = bucket /\ seen' = seen
    BY <1>0, <2>1, <2>2 DEF Quiet
  <2>3. CASE bucket' = evictExpired(now) /\ Touch(Keys, now)
    <3>1. WindowOf(k) = LimitAtStart(k).w
      BY SteadyWindow, Zenon
    <3>2. bucket'[k] = IF Expired(k, LimitAtStart(k).w, now) THEN NoBucket ELSE bucket[k]
      BY <2>3, <3>1, Zenon DEF evictExpired
    <3> QED
      BY <1>0, <2>1, <2>3, <3>2, Sweeps
  <2> QED
    BY <2>1, <2>2, <2>3, Zenon
<1>3. CASE reapExpired(c)
  <2>1. /\ \A d \in Calls : call'[d].took = call[d].took /\ call'[d].now = call[d].now
        /\ \/ /\ bucket' = [x \in Keys |-> IF Expired(x, call[c].reap, now) THEN NoBucket ELSE bucket[x]]
              /\ Touch(Keys, now)
           \/ bucket' = bucket /\ seen' = seen
    <3>1. \E pc, l, reap : Become(c, pc, l, reap, call[c].took)
      BY <1>3, Zenon DEF reapExpired, Move
    <3>2. \A d \in Calls : call'[d].took = call[d].took /\ call'[d].now = call[d].now
      BY <3>1 DEF Become, TypeOK
    <3> QED
      BY <1>3, <3>2, Zenon DEF reapExpired, order
  <2>2. CASE bucket' = bucket /\ seen' = seen
    BY <1>0, <2>1, <2>2 DEF Quiet
  <2>3. CASE ~ (bucket' = bucket /\ seen' = seen)
    <3>1. call[c].reap \in Nat /\ LimitAtStart(k).w <= call[c].reap
      BY <1>3, CallTyped, Zenon DEF reapExpired, Progress, Reaps
    <3>2. /\ bucket'[k] = IF Expired(k, call[c].reap, now) THEN NoBucket ELSE bucket[k]
          /\ Touch(Keys, now)
      BY <2>1, <2>3, Zenon
    <3> QED
      BY <1>0, <2>1, <3>1, <3>2, Sweeps, Zenon
  <2> QED
    BY <2>2, <2>3, Zenon
<1>4. CASE ReadDefaultLimit(c)
  <2>1. bucket' = bucket /\ seen' = seen /\ \E pc, l, reap : Become(c, pc, l, reap, call[c].took)
    BY <1>4, Zenon DEF ReadDefaultLimit, order
  <2>2. \A d \in Calls : call'[d].took = call[d].took /\ call'[d].now = call[d].now
    BY <2>1 DEF Become, TypeOK
  <2> QED
    BY <1>0, <2>1, <2>2 DEF Quiet
<1>5. CASE checkAndAdvance(c)
  <2>1. /\ Checking(c) /\ Touch({key}, now)
        /\ bucket' = IF Full(key, lim, now) THEN bucket ELSE Advance(key, lim, now)
        /\ \E pc : Become(c, pc, call[c].lim, call[c].reap,
                          IF Full(key, lim, now) THEN call[c].took ELSE call[c].took \union {key})
    BY <1>5, Zenon DEF checkAndAdvance
  <2>2. key \in Keys /\ (key = k => lim = LimitAtStart(k))
    BY <2>1, Tier, SteadyLimit, Zenon
  <2> HIDE DEF key, lim
  <2>3. CASE Full(key, lim, now)
    <3>1. bucket' = bucket /\ \A d \in Calls : call'[d].took = call[d].took /\ call'[d].now = call[d].now
      BY <2>1, <2>3 DEF Become, TypeOK
    <3>2. seen[k] <= seen'[k]
      BY <1>0, <2>1, <2>2, Ordered, Zenon
    <3> QED
      BY <3>1, <3>2, Zenon DEF Quiet
  <2>4. CASE ~ Full(key, lim, now)
    <3>1. /\ bucket' = Advance(key, lim, now) /\ \A d \in Calls : call'[d].now = call[d].now
          /\ \A d \in Calls : call'[d].took \subseteq call[d].took \union (IF d = c THEN {key} ELSE {})
      BY <2>1, <2>4 DEF Become, TypeOK
    <3>2. IF key = k THEN Counts(k, lim, c) ELSE Quiet(k)
      BY <2>1, <2>2, <2>4, <3>1, Advances, Zenon
    <3> QED
      BY <2>2, <3>2, Zenon
  <2> QED
    BY <2>3, <2>4, Zenon
<1>6. CASE failOpen(c)
  <2>1. /\ Checking(c)
        /\ \/ bucket' = bucket /\ seen' = seen
           \/ /\ Touch({key}, now) /\ bucket' = Advance(key, lim, now) /\ ~ Full(key, lim, now)
        /\ \E pc, l, reap : Become(c, pc, l, reap, call[c].took)
    BY <1>6, Zenon DEF failOpen, Move, order
  <2>2. key \in Keys /\ (key = k => lim = LimitAtStart(k))
    BY <2>1, Tier, SteadyLimit, Zenon
  <2> HIDE DEF key, lim
  <2>3. \A d \in Calls : call'[d].took = call[d].took /\ call'[d].now = call[d].now
    BY <2>1 DEF Become, TypeOK
  <2>4. CASE bucket' = bucket /\ seen' = seen
    BY <1>0, <2>3, <2>4 DEF Quiet
  <2>5. CASE ~ (bucket' = bucket /\ seen' = seen)
    <3>1. \A d \in Calls : call'[d].took \subseteq call[d].took \union (IF d = c THEN {key} ELSE {})
      BY <2>3, Zenon
    <3>2. IF key = k THEN Counts(k, lim, c) ELSE Quiet(k)
      BY <2>1, <2>2, <2>3, <2>5, <3>1, Advances, Zenon
    <3> QED
      BY <2>2, <3>2, Zenon
  <2> QED
    BY <2>4, <2>5, Zenon
<1> HIDE DEF now, key, lim
<1> QED
  BY <1>1, <1>2, <1>3, <1>4, <1>5, <1>6, Zenon DEF CallStep

LEMMA ReloadQuiet ==
  ASSUME TypeOK, Steady, ReloadStep, NEW k \in Keys \ changed'
  PROVE  Quiet(k)
<1>0. call' = call /\ seen' = seen /\ seen[k] \in Nat
  BY Apart, Zenon DEF TypeOK
<1>1. bucket'[k] = bucket[k]
  <2>1. CASE SetWindow \/ (\E l \in Limits : SetDefaultLimit(l))
             \/ (\E n \in Names, l \in Limits : SetLimit(n, l))
    BY <2>1, Zenon DEF SetWindow, SetDefaultLimit, SetLimit
  <2>2. ASSUME NEW n \in Names, ClearLimit(n) PROVE bucket'[k] = bucket[k]
    BY <2>2, Zenon DEF ClearLimit, Setter, TypeOK
  <2>3. CASE deleteBucketRow
    <3>1. reload.key \in changed /\ changed' = changed
      BY <2>3, Zenon DEF deleteBucketRow, Steady
    <3> QED
      BY <2>3, <3>1, Zenon DEF deleteBucketRow, TypeOK
  <2> QED
    BY <2>1, <2>2, <2>3, Zenon DEF ReloadStep
<1> QED
  BY <1>0, <1>1 DEF Quiet

LEMMA FiniteStep ==
  ASSUME TypeOK, Finite, Progress, [Next]_vars
  PROVE  Finite'
<1>1. ASSUME UNCHANGED call PROVE Finite'
  BY <1>1, Zenon DEF Finite, Since
<1>2. ASSUME NEW c \in Calls, CallStep(c) PROVE Finite'
  <2>1. \A d \in Calls : d # c => call'[d] = call[d]
    <3>1. \/ \E r : call' = [call EXCEPT ![c] = r]
          \/ \E pc, lim, reap, took : Become(c, pc, lim, reap, took)
      BY <1>2, Zenon DEF CallStep, Arrive, Allow, reapExpired, ReadDefaultLimit, checkAndAdvance,
                         failOpen, Move
    <3> QED
      BY <3>1, Zenon DEF Become, TypeOK
  <2>2. ASSUME NEW k \in Keys PROVE IsFiniteSet(Since(k, 0)')
    <3>1. \A d \in Calls : k \in call'[d].took => k \in call[d].took \/ d = c
      BY <2>1, Zenon
    <3> QED
      BY <3>1, FiniteGrows, Zenon
  <2> QED
    BY <2>2, Zenon DEF Finite
<1> QED
  BY <1>1, <1>2, Apart, Zenon DEF Next, Tick, vars

LEMMA AccountsStep ==
  ASSUME TypeOK, TypeOK', Steady, Progress, Finite, Finite', Accounts, [Next]_vars
  PROVE  Accounts'
<1> SUFFICES ASSUME NEW k \in Keys, k \notin changed', k \notin late', LimitAtStart(k) # NoLimit
             PROVE  Accounted(k, LimitAtStart(k).n, LimitAtStart(k).w)'
  BY Zenon DEF Accounts, LimitAtStart
<1> DEFINE l == LimitAtStart(k)
<1>0. changed \subseteq changed' /\ late \subseteq late'
  <2>1. late \subseteq late'
    BY Apart, ZenonT(30) DEF Next, CallStep, Arrive, Allow, reapExpired, ReadDefaultLimit, checkAndAdvance,
                        failOpen, Touch, Tick, vars, order
  <2> QED
    BY <2>1, Grows, Zenon
<1>1. Accounted(k, l.n, l.w)
  BY <1>0, Zenon DEF Accounts
<1>2. l \in Limits /\ l.n \in Nat \ {0} /\ l.w \in Nat \ {0}
  <2>1. l \in Limits
    BY RateLimiterAssumption, Zenon DEF LimitAtStart, Keys
  <2> QED
    BY <2>1, RateLimiterAssumption, Zenon
<1>3. \/ Quiet(k) \/ Forgets(k, l.w)
      \/ \E c \in Calls : Counts(k, l, c)
  <2>1. ASSUME NEW c \in Calls, CallStep(c) PROVE Quiet(k) \/ Forgets(k, l.w) \/ Counts(k, l, c)
    <3>1. k \in Keys \ (changed \union late')
      BY <1>0, Zenon
    <3> QED
      BY <2>1, <3>1, CallEffect, Zenon
  <2>2. CASE ReloadStep
    <3>1. k \in Keys \ changed'
      OBVIOUS
    <3> QED
      BY <2>2, <3>1, ReloadQuiet, Zenon
  <2>3. CASE Tick \/ UNCHANGED vars
    BY <2>3 DEF Tick, vars, order, Quiet, TypeOK
  <2> HIDE DEF l
  <2> QED
    BY <2>1, <2>2, <2>3, Zenon DEF Next
<1> HIDE DEF l
<1>4. Accounted(k, l.n, l.w)'
  BY <1>1, <1>2, <1>3, QuietKeeps, ForgetsKeeps, CountsKeeps, Zenon
<1> QED
  BY <1>4, Zenon DEF l

-----------------------------------------------------------------------------
LEMMA ClockStep ==
  ASSUME TypeOK, clock <= MaxTime, \A c \in Calls : call[c].now <= clock, [Next]_vars
  PROVE  clock' <= MaxTime /\ \A c \in Calls : call'[c].now <= clock'
<1>0. clock \in Nat /\ MaxTime \in Nat /\ \A c \in Calls : call[c].now \in Nat
  BY CallTyped, RateLimiterAssumption, Zenon DEF TypeOK
<1>1. CASE ReloadStep \/ UNCHANGED vars
  <2>1. UNCHANGED <<call, clock>>
    BY <1>1, Apart, Zenon DEF vars
  <2> QED
    BY <2>1, Zenon
<1>2. CASE Tick
  <2>1. clock < MaxTime /\ clock' = clock + 1 /\ call' = call
    BY <1>2, Zenon DEF Tick
  <2> QED
    BY <1>0, <2>1
<1>3. ASSUME NEW c \in Calls, CallStep(c)
      PROVE  clock' <= MaxTime /\ \A d \in Calls : call'[d].now <= clock'
  <2>1. clock' = clock
    BY <1>3, Apart, Zenon
  <2>2. ASSUME NEW route \in Routes, Arrive(c, route) PROVE \A d \in Calls : call'[d].now <= clock
    BY <1>0, <2>2 DEF Arrive, TypeOK
  <2>3. ASSUME \E pc, lim, reap, took : Become(c, pc, lim, reap, took)
        PROVE  \A d \in Calls : call'[d].now <= clock
    <3>1. \A d \in Calls : call'[d].now = call[d].now
      BY <2>3 DEF Become, TypeOK
    <3> QED
      BY <3>1, Zenon
  <2>4. (\E route \in Routes : Arrive(c, route))
        \/ \E pc, lim, reap, took : Become(c, pc, lim, reap, took)
    BY <1>3, Zenon DEF CallStep, Allow, reapExpired, ReadDefaultLimit, checkAndAdvance, failOpen, Move
  <2> QED
    BY <2>1, <2>2, <2>3, <2>4, Zenon
<1> QED
  BY <1>1, <1>2, <1>3, Zenon DEF Next

LEMMA RateInvInit == Init => RateInv
<1> SUFFICES ASSUME Init PROVE RateInv
  OBVIOUS
<1> USE DEF Init
<1>0. \A c \in Calls : call[c] = NoCall
  OBVIOUS
<1>1. NoCall \in CallStates
  <2>1. NoCall.route \in Routes
    BY RateLimiterAssumption, Zenon DEF NoCall
  <2> QED
    BY <2>1, Zenon DEF NoCall, CallStates, PCs, Unset
<1>2. TypeOK
  BY <1>1, NoReloadTyped, RateLimiterAssumption, Zenon DEF TypeOK
<1>3. clock <= MaxTime /\ \A c \in Calls : call[c].now <= clock
  <2>1. clock = 0 /\ \A c \in Calls : call[c].now = 0
    BY <1>0, Zenon DEF NoCall
  <2>2. MaxTime \in Nat
    BY RateLimiterAssumption, Zenon
  <2> HIDE DEF Init
  <2> QED
    BY <2>1, <2>2
<1>4. Steady
  BY Zenon DEF Steady, NoReload
<1>5. Progress
  BY <1>0, Zenon DEF Progress, NoCall, Waiting
<1>6. Exclusive
  BY <1>0, Zenon DEF Exclusive, NoCall, NoReload, Checking
<1>7. Leftovers
  <2>1. ASSUME NEW k \in Names PROVE bucket[k] = NoBucket /\ Holding(k) = {}
    BY <1>0, Zenon DEF Keys, Holding, NoCall
  <2> QED
    BY <2>1, Zenon DEF Leftovers
<1>8. \A k \in Keys : \A t, u : Since(k, t) = {} /\ Taken(k, t, u) = {}
  BY <1>0, Zenon DEF Since, Taken, NoCall
<1>9. Finite
  BY <1>8, FS_EmptySet, Zenon DEF Finite
<1>10. ASSUME NEW k \in Keys, LimitAtStart(k) # NoLimit
       PROVE  Accounted(k, LimitAtStart(k).n, LimitAtStart(k).w)
  <2>1. LimitAtStart(k).n \in Nat \ {0}
    <3>1. LimitAtStart(k) \in Limits
      BY <1>10, RateLimiterAssumption, Zenon DEF LimitAtStart, Keys
    <3> QED
      BY <3>1, RateLimiterAssumption, Zenon
  <2>2. bucket[k] = NoBucket /\ Cardinality({}) <= LimitAtStart(k).n - 1
        /\ Cardinality({}) <= 2 * LimitAtStart(k).n - 1
    BY <2>1, FS_EmptySet
  <2>3. \A t, u : Since(k, t) = {} /\ Taken(k, t, u) = {}
    BY <1>8, Zenon
  <2> HIDE DEF Init
  <2>4. Empty(k, LimitAtStart(k).n, LimitAtStart(k).w)
    BY <2>2, <2>3, Zenon DEF Empty
  <2>5. Bounded(k, LimitAtStart(k).n, LimitAtStart(k).w)
    BY <2>2, <2>3, Zenon DEF Bounded
  <2> QED
    BY <2>2, <2>4, <2>5, Zenon DEF Accounted
<1>11. Accounts
  BY <1>10, Zenon DEF Accounts
<1> QED
  BY <1>2, <1>3, <1>4, <1>5, <1>6, <1>7, <1>9, <1>11, Zenon DEF RateInv

LEMMA RateInvStep == RateInv /\ [Next]_vars => RateInv'
<1> SUFFICES ASSUME RateInv, [Next]_vars PROVE RateInv'
  OBVIOUS
<1>0. TypeOK /\ Steady /\ Progress /\ Exclusive /\ Leftovers /\ Finite /\ Accounts
      /\ clock <= MaxTime /\ \A c \in Calls : call[c].now <= clock
  BY Zenon DEF RateInv
<1>1. TypeOK'
  BY <1>0, TypeStep, Zenon
<1>2. Steady' /\ Progress' /\ Exclusive' /\ Leftovers'
  BY <1>0, SteadyStep, ProgressStep, ExclusiveStep, LeftoversStep, Zenon
<1>3. Finite'
  BY <1>0, FiniteStep, Zenon
<1>4. Accounts'
  BY <1>0, <1>1, <1>3, AccountsStep, Zenon
<1>5. clock' <= MaxTime /\ \A c \in Calls : call'[c].now <= clock'
  BY <1>0, ClockStep, Zenon
<1> QED
  BY <1>1, <1>2, <1>3, <1>4, <1>5, Zenon DEF RateInv

LEMMA RateInvHolds == Spec => []RateInv
<1>1. Init => RateInv
  BY RateInvInit, Zenon
<1>2. RateInv /\ [Next]_vars => RateInv'
  BY RateInvStep, Zenon
<1> QED
  BY <1>1, <1>2, PTL DEF Spec

\* The state of the limiters, of the calls and of the reload keeps its type.
THEOREM RateTypeCorrect == Spec => []TypeOK
<1>1. RateInv => TypeOK
  BY Zenon DEF RateInv
<1> QED
  BY <1>1, RateInvHolds, PTL

\* Both limiters keep the rate: within one window's length a bucket whose
\* limit stays and whose calls come in order admits at most 2n-1 calls,
\* however many tiers, sweeps, failures and reloads of other limits there are.
THEOREM RateKept == Spec => []RateBound
<1>1. RateInv => RateBound
  <2> SUFFICES ASSUME RateInv, NEW k \in Keys \ (changed \union late), LimitAtStart(k) # NoLimit
               PROVE  Bounded(k, LimitAtStart(k).n, LimitAtStart(k).w)
    BY Zenon DEF RateBound, Bounded, Taken
  <2> QED
    BY Zenon DEF RateInv, Accounts, Accounted
<1> QED
  BY <1>1, RateInvHolds, PTL

\* A call that Allow admits was charged to its identity and to the override of
\* its tool and of its tenant, for every override no reload changed.
THEOREM TiersCharged == Spec => []AllTiersCharged
<1>1. RateInv => AllTiersCharged
  <2> SUFFICES ASSUME RateInv, NEW c \in Calls, call[c].pc = "allowed"
               PROVE  /\ call[c].route.identity \in call[c].took
                      /\ \A k \in {call[c].route.tool, call[c].route.tenant} \ changed :
                           Overrides[k] # NoLimit => k \in call[c].took
    BY Zenon DEF AllTiersCharged
  <2>1. Looked(call[c]) /\ Charged(call[c])
    BY Zenon DEF RateInv, Progress, Waiting
  <2> QED
    BY <2>1, Zenon DEF Looked, Charged
<1> QED
  BY <1>1, RateInvHolds, PTL

\* A bucket or row of a cleared override is left only where the delete of the
\* row failed, has yet to run, or ran before a call that had the override.
THEOREM LeftoversExplained == Spec => []LeftoverIsExplained
<1>1. RateInv => LeftoverIsExplained
  BY Zenon DEF RateInv, Leftovers, Explained, LeftoverIsExplained
<1> QED
  BY <1>1, RateInvHolds, PTL
=============================================================================
