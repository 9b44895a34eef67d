----------------------------- MODULE Credential -----------------------------
(***************************************************************************)
(* Issuing, refreshing and revoking credentials: IssuanceService,          *)
(* RefreshService and RevocationService (credential/usecase) over a        *)
(* RefreshStore and a Revoker, in memory or in Postgres.                   *)
(*                                                                         *)
(* Each call of a store is one atomic step, but a service makes several:   *)
(* Bootstrap signs an access token and stores a refresh token of a new     *)
(* family; Refresh redeems a token, checks the revoker, signs, and stores  *)
(* the next token of the family; Revoke writes the revocation entry and    *)
(* then wipes the principal's refresh tokens.  Steps of different requests *)
(* interleave.  A Postgres call can fail, with or without its effect.      *)
(***************************************************************************)
EXTENDS Naturals

CONSTANTS Requests,              \* concurrent calls of Bootstrap and Refresh
          Revokers,              \* concurrent calls of Revoke
          Tenants, Identities,
          NoTenant,              \* the "" that revokes in every tenant
          AccessTTL,             \* access token lifetime, and revocationHorizon
          RefreshTTL,
          MaxTokens, MaxTime     \* bounds on the tokens minted and the clock

ASSUME CredentialAssumption ==
  /\ AccessTTL \in Nat \ {0} /\ RefreshTTL \in Nat
  /\ MaxTokens \in Nat /\ MaxTime \in Nat /\ Tenants # {} /\ Identities # {}

VARIABLES postgres,  \* are the Postgres stores wired in?  Fixed at the start
          clock,
          minted,    \* refresh tokens minted so far: token n is the n-th
          store,     \* RefreshStore
          revoked,   \* Revoker: [target, until]
          access,    \* access tokens handed out, and not expired since: [who, exp]
          req, rev,  \* the calls in progress
          reused,    \* families whose reuse was reported
          shut       \* was the principal revoked since its last bootstrap, and
                     \* if so, with none of its calls in progress ("shut")?

vars == <<postgres, clock, minted, store, revoked, access, req, rev, reused, shut>>

Principals == [tenant : Tenants, identity : Identities]
Targets    == [tenant : Tenants \union {NoTenant}, identity : Identities]
Entries    == [token : Nat, who : Principals, family : Nat, exp : Nat, consumed : BOOLEAN]

TypeOK ==
  /\ postgres \in BOOLEAN /\ clock \in Nat /\ minted \in Nat
  /\ store \in SUBSET Entries
  /\ revoked \in SUBSET [target : Targets, until : Nat]
  /\ access \in SUBSET [who : Principals, exp : Nat]
  /\ req \in [Requests -> [pc : {"idle", "redeemed", "checked", "signed"},
                           who : Principals, family : Nat, exp : Nat]]
  /\ rev \in [Revokers -> [pc : {"idle", "computed", "written"}, target : Targets, until : Nat,
                           quiet : SUBSET Principals]]
  /\ reused \in SUBSET Nat
  /\ shut \in [Principals -> {"open", "raced", "shut"}]

NoReq == [pc |-> "idle", who |-> CHOOSE p \in Principals : TRUE, family |-> 0, exp |-> 0]
NoRev == [pc |-> "idle", target |-> CHOOSE t \in Targets : TRUE, until |-> 0, quiet |-> {}]

Init ==
  /\ postgres \in BOOLEAN
  /\ clock = 0 /\ minted = 0 /\ store = {} /\ revoked = {} /\ access = {} /\ reused = {}
  /\ req = [r \in Requests |-> NoReq]
  /\ rev = [o \in Revokers |-> NoRev]
  /\ shut = [p \in Principals |-> "open"]

-----------------------------------------------------------------------------
\* The two keys of the Revoker, and the rows of the RefreshStore, that a
\* target selects.
Everywhere(p) == [tenant |-> NoTenant, identity |-> p.identity]
Matches(target, p) == target = p \/ target = Everywhere(p)

\* The revokers differ at the last instant of an entry.
Live(e) == clock < e.until \/ (~postgres /\ clock = e.until)

IsRevoked(p) == \E e \in revoked : Matches(e.target, p) /\ Live(e)

\* The in-memory revoker deletes the expired entries it looks at, p's own and
\* unless that is live the wildcard's; in a periodic sweep it deletes all.
LooksAt(p, target) ==
  \/ target = p
  \/ target = Everywhere(p) /\ ~(\E d \in revoked : d.target = p /\ Live(d))

SelfHeal(p) ==
  \/ postgres /\ UNCHANGED revoked
  \/ ~postgres /\ revoked' = {e \in revoked : Live(e)}
  \/ ~postgres /\ revoked' = {e \in revoked : Live(e) \/ ~LooksAt(p, e.target)}

\* History: p is no longer quiet for the revocations in progress.
Disturb(p) ==
  rev' = [o \in Revokers |-> [pc |-> rev[o].pc, target |-> rev[o].target,
                              until |-> rev[o].until, quiet |-> rev[o].quiet \ {p}]]

\* Bootstrap: the bootstrapper has accepted p's secret.  It does not consult
\* the revoker.  Family 0 stands for the one it is about to start.
Bootstrap(r, p) ==
  /\ req[r].pc = "idle" /\ minted < MaxTokens
  /\ req' = [req EXCEPT ![r] = [pc |-> "checked", who |-> p, family |-> 0, exp |-> 0]]
  /\ Disturb(p)
  /\ shut' = [shut EXCEPT ![p] = "open"]
  /\ UNCHANGED <<clock, minted, store, revoked, access, reused>>

\* The outcomes of Redeem for a token t that is in the store.  A Postgres
\* commit that is not acknowledged leaves its effect but fails the call.
RedeemConsumed(t, kept) ==
  /\ t.consumed
  /\ store' = {e \in kept : e.family # t.family}
  /\ reused' = reused \union {t.family} \/ (postgres /\ UNCHANGED reused)
  /\ UNCHANGED <<req, rev>>

RedeemExpired(t, kept) ==
  /\ ~t.consumed /\ clock > t.exp
  /\ store' = kept \ {t}
  /\ UNCHANGED <<req, rev, reused>>

\* Mutated form of RedeemActive: the token is not marked as consumed.
NotMarked(r, t, kept) ==
  /\ ~t.consumed /\ clock <= t.exp
  /\ store' = kept
  /\ req' = [req EXCEPT ![r] = [pc |-> "redeemed", who |-> t.who, family |-> t.family, exp |-> 0]]
  /\ Disturb(t.who)
  /\ UNCHANGED reused

RedeemActive(r, t, kept) ==
  /\ ~t.consumed /\ clock <= t.exp
  /\ store' = (kept \ {t}) \union {[token |-> t.token, who |-> t.who, family |-> t.family,
                                    exp |-> t.exp, consumed |-> TRUE]}
  /\ \/ /\ req' = [req EXCEPT ![r] = [pc |-> "redeemed", who |-> t.who,
                                      family |-> t.family, exp |-> 0]]
        /\ Disturb(t.who)
     \/ postgres /\ UNCHANGED <<req, rev>>
  /\ UNCHANGED reused

\* Refresh, its call of Redeem with the n-th token; 0 was never minted.  The
\* in-memory store first evicts the expired entries, every so many calls.
Redeem(r, n) ==
  /\ req[r].pc = "idle"
  /\ \E kept \in {store, {e \in store : clock <= e.exp}} :
       /\ postgres => kept = store
       /\ \/ /\ \A t \in kept : t.token # n
             /\ store' = kept /\ UNCHANGED <<req, rev, reused>>
          \/ \E t \in kept :
               /\ t.token = n
               /\ RedeemConsumed(t, kept) \/ RedeemExpired(t, kept) \/ RedeemActive(r, t, kept)
  /\ UNCHANGED <<clock, minted, revoked, access, shut>>

\* Refresh, its revocation check.  A query that fails reads "not revoked".
CheckRevoked(r) ==
  /\ req[r].pc = "redeemed"
  /\ \/ IsRevoked(req[r].who) /\ req' = [req EXCEPT ![r] = NoReq]
     \/ /\ postgres \/ ~IsRevoked(req[r].who)
        /\ req' = [req EXCEPT ![r] = [pc |-> "checked", who |-> req[r].who,
                                      family |-> req[r].family, exp |-> 0]]
  /\ SelfHeal(req[r].who)
  /\ UNCHANGED <<clock, minted, store, access, rev, reused, shut>>

\* issuer.Issue; a signer may fail.
Sign(r) ==
  /\ req[r].pc = "checked"
  /\ \/ req' = [req EXCEPT ![r] = [pc |-> "signed", who |-> req[r].who,
                                   family |-> req[r].family, exp |-> clock + AccessTTL]]
     \/ req' = [req EXCEPT ![r] = NoReq]
  /\ UNCHANGED <<clock, minted, store, revoked, access, rev, reused, shut>>

\* Mutated form of NewToken: a new family gets the identifier of the last one.
OldFamily(r) ==
  [token |-> minted + 1, who |-> req[r].who, exp |-> clock + RefreshTTL, consumed |-> FALSE,
   family |-> IF req[r].family = 0 THEN minted ELSE req[r].family]

NewToken(r) ==
  [token |-> minted + 1, who |-> req[r].who, exp |-> clock + RefreshTTL, consumed |-> FALSE,
   family |-> IF req[r].family = 0 THEN minted + 1 ELSE req[r].family]

\* mintAndStoreRefreshToken, of a random and so new token; both tokens are
\* handed out unless the insert failed, which can leave the row behind.
Issue(r) ==
  /\ req[r].pc = "signed" /\ minted < MaxTokens
  /\ minted' = minted + 1
  /\ \/ /\ store' = store \union {NewToken(r)}
        /\ \/ access' = access \union {[who |-> req[r].who, exp |-> req[r].exp]}
           \/ postgres /\ UNCHANGED access
     \/ postgres /\ UNCHANGED <<store, access>>
  /\ req' = [req EXCEPT ![r] = NoReq]
  /\ UNCHANGED <<clock, revoked, rev, reused, shut>>

\* VerificationService.Authenticate, of an access token of p: what it does
\* to the revoker.
Authenticate(p) ==
  /\ SelfHeal(p)
  /\ UNCHANGED <<clock, minted, store, access, req, rev, reused, shut>>

-----------------------------------------------------------------------------
InFlight(p) == {r \in Requests : req[r].pc # "idle" /\ req[r].who = p}

\* HandleRevoke, up to the call of Revoke.  The target is the identity in its
\* registered tenant, in the tenant the caller named, or in every tenant.
HandleRevoke(o, target) ==
  /\ rev[o].pc = "idle"
  /\ rev' = [rev EXCEPT ![o] =
       [pc |-> "computed", target |-> target, until |-> clock + AccessTTL,
        quiet |-> {p \in Principals : Matches(target, p) /\ InFlight(p) = {}}]]
  /\ UNCHANGED <<clock, minted, store, revoked, access, req, reused, shut>>

\* revoker.Revoke: an upsert.  On an error, with or without effect, Revoke
\* returns and the refresh tokens are not wiped.
Revoke(o) ==
  /\ rev[o].pc = "computed"
  /\ \/ /\ revoked' = {e \in revoked : e.target # rev[o].target}
                         \union {[target |-> rev[o].target, until |-> rev[o].until]}
        /\ \/ rev' = [rev EXCEPT ![o] = [pc |-> "written", target |-> rev[o].target,
                                         until |-> rev[o].until, quiet |-> rev[o].quiet]]
           \/ postgres /\ rev' = [rev EXCEPT ![o] = NoRev]
     \/ postgres /\ rev' = [rev EXCEPT ![o] = NoRev] /\ UNCHANGED revoked
  /\ UNCHANGED <<clock, minted, store, access, req, reused, shut>>

\* History: what a revocation that completes did to p.  A bootstrap that is
\* in progress is the principal presenting its secret anew.
Outcome(o, p) ==
  IF p \in rev[o].quiet THEN "shut"
  ELSE IF /\ Matches(rev[o].target, p) /\ shut[p] = "open"
          /\ \A r \in InFlight(p) : req[r].family # 0
       THEN "raced" ELSE shut[p]

\* Mutated form of RevokeAllForIdentity: the tenant is always compared, so
\* that the wildcard deletes nothing.
WipesExactTenant(o) ==
  /\ rev[o].pc = "written"
  /\ store' = {e \in store : e.who # rev[o].target}
  /\ shut' = [p \in Principals |-> Outcome(o, p)]
  /\ rev' = [rev EXCEPT ![o] = NoRev]
  /\ UNCHANGED <<clock, minted, revoked, access, req, reused>>

\* refreshStore.RevokeAllForIdentity, and Revoke returns; a Postgres call can
\* fail, with or without effect, and then the revocation is not reported done.
RevokeAllForIdentity(o) ==
  /\ rev[o].pc = "written"
  /\ \/ /\ store' = {e \in store : ~Matches(rev[o].target, e.who)}
        /\ \/ shut' = [p \in Principals |-> Outcome(o, p)]
           \/ postgres /\ UNCHANGED shut
     \/ postgres /\ UNCHANGED <<store, shut>>
  /\ rev' = [rev EXCEPT ![o] = NoRev]
  /\ UNCHANGED <<clock, minted, revoked, access, req, reused>>

Tick ==
  /\ clock < MaxTime /\ clock' = clock + 1
  /\ access' = {a \in access : clock' < a.exp}
  /\ UNCHANGED <<minted, store, revoked, req, rev, reused, shut>>

RequestStep(r) ==
  \/ \E p \in Principals : Bootstrap(r, p)
  \/ \E n \in 0..minted : Redeem(r, n)
  \/ CheckRevoked(r) \/ Sign(r) \/ Issue(r)

RevokerStep(o) ==
  \/ \E target \in Targets : HandleRevoke(o, target)
  \/ Revoke(o) \/ RevokeAllForIdentity(o)

Next ==
  /\ \/ \E r \in Requests : RequestStep(r)
     \/ \E o \in Revokers : RevokerStep(o)
     \/ \E p \in Principals : Authenticate(p)
     \/ Tick
  /\ UNCHANGED postgres

Spec == Init /\ [][Next]_vars

-----------------------------------------------------------------------------
\* The refresh tokens of a family that can still be used, and the refreshes
\* in progress that will store one.
Usable(f)   == {t \in store : t.family = f /\ ~t.consumed}
Rotating(f) == {r \in Requests : req[r].pc # "idle" /\ req[r].family = f}

(* A family never forks: however refreshes of the same or of old tokens    *)
(* interleave and fail, at most one usable token of a family exists or is  *)
(* about to exist.                                                         *)
NoFork ==
  \A f \in 1..minted :
    /\ \A t, u \in Usable(f) : t = u
    /\ \A r, s \in Rotating(f) : r = s
    /\ Usable(f) = {} \/ Rotating(f) = {}

(* A family that has ended stays ended: once it has neither a usable token *)
(* nor a refresh in progress, no later step brings it back.                *)
EndedForever ==
  [][\A f \in 1..minted :
       Usable(f) = {} /\ Rotating(f) = {} => (Usable(f) = {} /\ Rotating(f) = {})']_vars

Valid(a) == clock < a.exp

(* A revoked principal is locked out: if none of its calls was in progress *)
(* at any time of its revocation, then until it bootstraps again it has no *)
(* refresh token, and the revoker rejects it as long as it holds an access *)
(* token that has not expired.                                             *)
LockedOut ==
  \A p \in Principals : shut[p] = "shut" =>
    /\ \A t \in store : t.who # p
    /\ \A a \in access : a.who = p /\ Valid(a) => IsRevoked(p)

-----------------------------------------------------------------------------
(* refresh.go, of a replayed token: "the store has ALREADY revoked the     *)
(* token's entire family ..., so both the legitimate holder's and the      *)
(* attacker's outstanding tokens in that lineage are dead".  A family      *)
(* whose reuse was detected has no usable token.                           *)
ReusedFamilyIsDead == \A f \in reused : Usable(f) = {}

(* refresh.go: Revoke wipes the refresh tokens "so a revoked identity      *)
(* can't silently refresh its way back to a valid access token later".  A  *)
(* principal has no usable refresh token from the time its revocation      *)
(* completes until it bootstraps again.                                    *)
NoWayBack ==
  \A p \in Principals : shut[p] # "open" => \A t \in store : t.who = p => t.consumed
=============================================================================
