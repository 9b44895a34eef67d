-------------------------- MODULE CredentialProofs --------------------------
(***************************************************************************)
(* Proofs about Credential, for any numbers of requests, principals and    *)
(* tokens, both kinds of store and all lifetimes.                          *)
(***************************************************************************)
EXTENDS Credential, TLAPS

\* Defaults are of their types.
LEMMA Defaults ==
  /\ NoReq \in [pc : {"idle", "redeemed", "checked", "signed"},
                who : Principals, family : Nat, exp : Nat]
  /\ NoRev \in [pc : {"idle", "computed", "written"}, target : Targets, until : Nat,
                quiet : SUBSET Principals]
  /\ NoReq.pc = "idle" /\ NoReq.family = 0 /\ NoReq.exp = 0
  /\ NoRev.pc = "idle" /\ NoRev.quiet = {} /\ NoRev.until = 0
<1>0. PICK t \in Tenants, i \in Identities : TRUE
  BY CredentialAssumption, Zenon
<1>n. [tenant |-> t, identity |-> i] \in Principals /\ [tenant |-> t, identity |-> i] \in Targets
  BY <1>0, Zenon DEF Principals, Targets
<1>1. (CHOOSE p \in Principals : TRUE) \in Principals
  BY <1>n, Zenon
<1>2. (CHOOSE p \in Targets : TRUE) \in Targets
  BY <1>n, Zenon
<1> QED BY <1>1, <1>2 DEF NoReq, NoRev

\* Every step keeps the types.
LEMMA TypeStep == TypeOK /\ [Next]_vars => TypeOK'
<1> SUFFICES ASSUME TypeOK, [Next]_vars PROVE TypeOK'
  OBVIOUS
<1> USE CredentialAssumption, Defaults
<1> DEFINE R == [pc : {"idle", "redeemed", "checked", "signed"},
                 who : Principals, family : Nat, exp : Nat]
           V == [pc : {"idle", "computed", "written"}, target : Targets, until : Nat,
                 quiet : SUBSET Principals]
<1>0. /\ req \in [Requests -> R] /\ rev \in [Revokers -> V] /\ NoReq \in R /\ NoRev \in V
      /\ clock \in Nat /\ minted \in Nat /\ store \in SUBSET Entries
      /\ revoked \in SUBSET [target : Targets, until : Nat]
      /\ access \in SUBSET [who : Principals, exp : Nat]
      /\ reused \in SUBSET Nat /\ shut \in [Principals -> {"open", "raced", "shut"}]
      /\ postgres' \in BOOLEAN
  BY Zenon DEF TypeOK, Next, vars
<1>d. ASSUME NEW p, Disturb(p) PROVE rev' \in [Revokers -> V]
  BY <1>0, <1>d, Zenon DEF Disturb
<1>h. ASSUME NEW p, SelfHeal(p) PROVE revoked' \in SUBSET [target : Targets, until : Nat]
  BY <1>0, <1>h, Zenon DEF SelfHeal
<1>r. ASSUME NEW r \in Requests, NEW x \in R, req' = [req EXCEPT ![r] = x]
      PROVE  req' \in [Requests -> R]
  BY <1>0, <1>r, Zenon
<1>v. ASSUME NEW o \in Revokers, NEW x \in V, rev' = [rev EXCEPT ![o] = x]
      PROVE  rev' \in [Revokers -> V]
  BY <1>0, <1>v, Zenon
<1>1. ASSUME NEW r \in Requests, NEW p \in Principals, Bootstrap(r, p) PROVE TypeOK'
  <2>1. [pc |-> "checked", who |-> p, family |-> 0, exp |-> 0] \in R
    OBVIOUS
  <2>2. req' \in [Requests -> R] /\ rev' \in [Revokers -> V]
    BY <1>1, <2>1, <1>r, <1>d, Zenon DEF Bootstrap
  <2> QED BY <1>1, <1>0, <2>2 DEF Bootstrap, TypeOK
<1>2. ASSUME NEW r \in Requests, NEW n \in 0..minted, Redeem(r, n) PROVE TypeOK'
  <2>1. PICK kept \in {store, {e \in store : clock <= e.exp}} :
          \/ store' = kept /\ UNCHANGED <<req, rev, reused>>
          \/ \E t \in kept : RedeemConsumed(t, kept) \/ RedeemExpired(t, kept)
                              \/ RedeemActive(r, t, kept)
    BY <1>2, Zenon DEF Redeem
  <2>2. kept \in SUBSET Entries
    BY <1>0, Zenon
  <2>3. /\ store' \in SUBSET Entries /\ reused' \in SUBSET Nat
        /\ req' \in [Requests -> R] /\ rev' \in [Revokers -> V]
    <3>1. CASE store' = kept /\ UNCHANGED <<req, rev, reused>>
      BY <3>1, <2>2, <1>0, Zenon
    <3>2. ASSUME NEW t \in kept, RedeemConsumed(t, kept) \/ RedeemExpired(t, kept) PROVE <2>3
      BY <3>2, <2>2, <1>0, ZenonT(30) DEF RedeemConsumed, RedeemExpired, Entries
    <3>3. ASSUME NEW t \in kept, RedeemActive(r, t, kept) PROVE <2>3
      <4>1. /\ [token |-> t.token, who |-> t.who, family |-> t.family,
                exp |-> t.exp, consumed |-> TRUE] \in Entries
            /\ [pc |-> "redeemed", who |-> t.who, family |-> t.family, exp |-> 0] \in R
        BY <2>2, Zenon DEF Entries
      <4>2. store' \in SUBSET Entries /\ reused' \in SUBSET Nat
        BY <3>3, <4>1, <2>2, <1>0, Zenon DEF RedeemActive
      <4>3. req' \in [Requests -> R] /\ rev' \in [Revokers -> V]
        BY <3>3, <4>1, <1>r, <1>d, <1>0, ZenonT(30) DEF RedeemActive
      <4> QED BY <4>2, <4>3
    <3> QED BY <2>1, <3>1, <3>2, <3>3
  <2> QED BY <1>2, <1>0, <2>3 DEF Redeem, TypeOK
<1>3. ASSUME NEW r \in Requests, CheckRevoked(r) PROVE TypeOK'
  <2>1. [pc |-> "checked", who |-> req[r].who, family |-> req[r].family, exp |-> 0] \in R
    BY <1>0, Zenon
  <2>2. req' \in [Requests -> R] /\ revoked' \in SUBSET [target : Targets, until : Nat]
    BY <1>3, <2>1, <1>0, <1>r, <1>h, Zenon DEF CheckRevoked
  <2> QED BY <1>3, <1>0, <2>2 DEF CheckRevoked, TypeOK
<1>4. ASSUME NEW r \in Requests, Sign(r) PROVE TypeOK'
  <2>1. [pc |-> "signed", who |-> req[r].who, family |-> req[r].family,
         exp |-> clock + AccessTTL] \in R
    BY <1>0
  <2>2. req' \in [Requests -> R]
    BY <1>4, <2>1, <1>0, <1>r, Zenon DEF Sign
  <2> QED BY <1>4, <1>0, <2>2 DEF Sign, TypeOK
<1>5. ASSUME NEW r \in Requests, Issue(r) PROVE TypeOK'
  <2>1. NewToken(r) \in Entries /\ [who |-> req[r].who, exp |-> req[r].exp] \in [who : Principals, exp : Nat]
    BY <1>0 DEF NewToken, Entries
  <2>2. req' \in [Requests -> R]
    BY <1>5, <1>0, <1>r, Zenon DEF Issue
  <2>3. store' \in SUBSET Entries /\ access' \in SUBSET [who : Principals, exp : Nat]
    BY <1>5, <1>0, <2>1, Zenon DEF Issue
  <2> QED BY <1>5, <1>0, <2>2, <2>3 DEF Issue, TypeOK
<1>6. ASSUME NEW o \in Revokers, NEW target \in Targets, HandleRevoke(o, target) PROVE TypeOK'
  <2> DEFINE x == [pc |-> "computed", target |-> target, until |-> clock + AccessTTL,
                   quiet |-> {p \in Principals : Matches(target, p) /\ InFlight(p) = {}}]
  <2>1. x \in V
    BY <1>0
  <2>2. rev' = [rev EXCEPT ![o] = x]
    BY <1>6, Zenon DEF HandleRevoke
  <2> HIDE DEF x
  <2>3. rev' \in [Revokers -> V]
    BY <2>1, <2>2, <1>v, Zenon
  <2> QED BY <1>6, <1>0, <2>3 DEF HandleRevoke, TypeOK
<1>7. ASSUME NEW o \in Revokers, Revoke(o) PROVE TypeOK'
  <2>1. /\ [pc |-> "written", target |-> rev[o].target, until |-> rev[o].until,
            quiet |-> rev[o].quiet] \in V
        /\ [target |-> rev[o].target, until |-> rev[o].until] \in [target : Targets, until : Nat]
    BY <1>0, Zenon
  <2>2. rev' \in [Revokers -> V]
    BY <1>7, <2>1, <1>0, <1>v, Zenon DEF Revoke
  <2>3. revoked' \in SUBSET [target : Targets, until : Nat]
    BY <1>7, <2>1, <1>0, ZenonT(30) DEF Revoke
  <2> QED BY <1>7, <1>0, <2>2, <2>3 DEF Revoke, TypeOK
<1>8. ASSUME NEW o \in Revokers, RevokeAllForIdentity(o) PROVE TypeOK'
  <2>1. rev' \in [Revokers -> V]
    BY <1>8, <1>0, <1>v, Zenon DEF RevokeAllForIdentity
  <2>2. \A p \in Principals : Outcome(o, p) \in {"open", "raced", "shut"}
    BY <1>0, Zenon DEF Outcome
  <2>3. store' \in SUBSET Entries /\ shut' \in [Principals -> {"open", "raced", "shut"}]
    BY <1>8, <1>0, <2>2 DEF RevokeAllForIdentity
  <2> QED BY <1>8, <1>0, <2>1, <2>3 DEF RevokeAllForIdentity, TypeOK
<1>9. ASSUME NEW p \in Principals, Authenticate(p) PROVE TypeOK'
  BY <1>9, <1>0, <1>h, Zenon DEF Authenticate, TypeOK
<1>10. CASE Tick
  BY <1>10, <1>0 DEF Tick, TypeOK
<1>11. CASE UNCHANGED vars
  BY <1>11, <1>0, Zenon DEF vars, TypeOK
<1> QED
  BY <1>1, <1>2, <1>3, <1>4, <1>5, <1>6, <1>7, <1>8, <1>9, <1>10, <1>11, Zenon DEF Next, RequestStep, RevokerStep

(* Every value Credential keeps is of its type: in particular no lifetime  *)
(* computed by the issuer, the stores or HandleRevoke is negative.         *)
THEOREM TypeCorrect == Spec => []TypeOK
<1>1. Init => TypeOK
  BY CredentialAssumption, Defaults DEF Init, TypeOK
<1> QED BY <1>1, TypeStep, PTL DEF Spec
-----------------------------------------------------------------------------
\* The families in use have been started.
Numbered ==
  /\ \A t \in store : t.family \in 1..minted
  /\ \A r \in Requests : req[r].family \in 0..minted

\* What one step can do to a family: it loses usable tokens and refreshes in
\* progress, one usable token becomes a refresh, or one refresh a token.
FamilyStep(f) ==
  \/ Usable(f)' \subseteq Usable(f) /\ Rotating(f)' \subseteq Rotating(f)
  \/ \E t \in Usable(f), r \in Requests :
       Usable(f)' \subseteq Usable(f) \ {t} /\ Rotating(f)' \subseteq Rotating(f) \union {r}
  \/ \E r \in Rotating(f) : \E t :
       Usable(f)' \subseteq Usable(f) \union {t} /\ Rotating(f)' \subseteq Rotating(f) \ {r}

\* Every step treats each family so, and starts at most one family, with at
\* most one token.
LEMMA FamilyLemma ==
  ASSUME TypeOK, Numbered, [Next]_vars
  PROVE  /\ Numbered'
         /\ \A f \in 1..minted : FamilyStep(f)
         /\ \A f \in (1..minted') \ (1..minted) :
              /\ \A t, u \in Usable(f)' : t = u
              /\ Rotating(f)' = {}
         /\ minted' \in Nat /\ minted <= minted'
<1> DEFINE Goal == /\ Numbered'
                   /\ \A f \in 1..minted : FamilyStep(f)
                   /\ \A f \in (1..minted') \ (1..minted) :
                        (\A t, u \in Usable(f)' : t = u) /\ Rotating(f)' = {}
                   /\ minted' \in Nat /\ minted <= minted'
<1>0. minted \in Nat /\ \A r \in Requests : req[r].family \in Nat
  BY Zenon DEF TypeOK
<1>s. ASSUME minted' = minted, Numbered', \A f \in 1..minted : FamilyStep(f) PROVE Goal
  BY <1>s, <1>0
<1> HIDE DEF Goal
<1>f. ASSUME UNCHANGED <<minted, store, req>> PROVE Goal
  BY <1>f, <1>s, Zenon DEF Numbered, FamilyStep, Usable, Rotating
<1>1. ASSUME NEW r \in Requests, NEW p \in Principals, Bootstrap(r, p) PROVE Goal
  <2>1. /\ minted' = minted /\ store' = store
        /\ req' = [req EXCEPT ![r] = [pc |-> "checked", who |-> p, family |-> 0, exp |-> 0]]
    BY <1>1, Zenon DEF Bootstrap
  <2>3. req'[r].family = 0 /\ \A s \in Requests : s # r => req'[s] = req[s]
    BY <2>1, Zenon DEF TypeOK
  <2>4. Numbered'
    BY <2>1, <2>3, <1>0 DEF Numbered
  <2>5. \A f \in 1..minted : FamilyStep(f)
    BY <2>1, <2>3, <1>0 DEF FamilyStep, Usable, Rotating
  <2> QED BY <2>1, <2>4, <2>5, <1>s
<1>2. ASSUME NEW r \in Requests, NEW n \in 0..minted, Redeem(r, n) PROVE Goal
  <2>1. PICK kept \in {store, {e \in store : clock <= e.exp}} :
          \/ store' = kept /\ UNCHANGED <<req, rev, reused>>
          \/ \E t \in kept : RedeemConsumed(t, kept) \/ RedeemExpired(t, kept)
                              \/ RedeemActive(r, t, kept)
    BY <1>2, Zenon DEF Redeem
  <2>2. kept \subseteq store /\ minted' = minted
    BY <1>2, Zenon DEF Redeem
  <2>3. CASE store' \subseteq store /\ req' = req
    <3>1. Numbered'
      BY <2>2, <2>3, Zenon DEF Numbered
    <3>2. \A f \in 1..minted : FamilyStep(f)
      BY <2>3, Zenon DEF FamilyStep, Usable, Rotating
    <3> QED BY <2>2, <3>1, <3>2, <1>s
  <2>4. ASSUME NEW t \in kept, RedeemActive(r, t, kept) PROVE Goal
    <3> DEFINE used == [token |-> t.token, who |-> t.who, family |-> t.family,
                        exp |-> t.exp, consumed |-> TRUE]
    <3>1. used.consumed = TRUE /\ used.family = t.family
      OBVIOUS
    <3>2. /\ t \in store /\ ~t.consumed /\ store' = (kept \ {t}) \union {used}
          /\ \/ req' = [req EXCEPT ![r] = [pc |-> "redeemed", who |-> t.who,
                                            family |-> t.family, exp |-> 0]]
             \/ req' = req
      BY <2>2, <2>4, Zenon DEF RedeemActive
    <3> HIDE DEF used
    <3>3. /\ \A s \in Requests : s # r => req'[s] = req[s]
          /\ req'[r].family = t.family \/ req' = req
      BY <3>2 DEF TypeOK
    <3>4. t.family \in 1..minted
      BY <3>2, Zenon DEF Numbered
    <3>5. Numbered'
      <4>1. \A e \in store' : e.family \in 1..minted
        BY <3>1, <3>2, <3>4, <2>2, Zenon DEF Numbered
      <4>2. \A s \in Requests : req'[s].family \in 0..minted
        BY <3>3, <3>4, <1>0 DEF Numbered
      <4> QED BY <4>1, <4>2, <2>2 DEF Numbered
    <3>6. ASSUME NEW f \in 1..minted PROVE FamilyStep(f)
      <4>1. Usable(f)' \subseteq Usable(f) \ {t}
        BY <3>1, <3>2, <2>2, Zenon DEF Usable
      <4>2. CASE f = t.family
        <5>1. t \in Usable(f)
          BY <4>2, <3>2, Zenon DEF Usable
        <5>2. Rotating(f)' \subseteq Rotating(f) \union {r}
          BY <3>3, Zenon DEF Rotating
        <5> QED BY <5>1, <5>2, <4>1 DEF FamilyStep
      <4>3. CASE f # t.family
        <5>1. Rotating(f)' \subseteq Rotating(f)
          BY <3>3, <4>3, Zenon DEF Rotating
        <5> QED BY <5>1, <4>1 DEF FamilyStep
      <4> QED BY <4>2, <4>3
    <3> QED BY <2>2, <3>5, <3>6, <1>s
  <2>5. ASSUME NEW t \in kept, RedeemConsumed(t, kept) \/ RedeemExpired(t, kept) PROVE Goal
    BY <2>5, <2>2, <2>3, Zenon DEF RedeemConsumed, RedeemExpired
  <2> QED BY <2>1, <2>2, <2>3, <2>4, <2>5
<1>3. ASSUME NEW r \in Requests, CheckRevoked(r) \/ Sign(r) PROVE Goal
  <2>1. minted' = minted /\ store' = store /\ req[r].pc # "idle"
    BY <1>3, Zenon DEF CheckRevoked, Sign
  <2>2. /\ \A s \in Requests : s # r => req'[s] = req[s]
        /\ req'[r].family = req[r].family \/ (req'[r].pc = "idle" /\ req'[r].family = 0)
    BY <1>3, Defaults DEF CheckRevoked, Sign, TypeOK
  <2>3. Numbered'
    BY <2>1, <2>2, <1>0 DEF Numbered
  <2>4. \A f \in 1..minted : FamilyStep(f)
    BY <2>1, <2>2, Zenon DEF FamilyStep, Usable, Rotating
  <2> QED BY <2>1, <2>3, <2>4, <1>s
<1>4. ASSUME NEW r \in Requests, Issue(r) PROVE Goal
  <2> DEFINE new == NewToken(r)
  <2>1. /\ minted' = minted + 1 /\ req[r].pc = "signed"
        /\ store' = store \union {new} \/ store' = store
        /\ req' = [req EXCEPT ![r] = NoReq]
    BY <1>4, Zenon DEF Issue
  <2>2. new.family = IF req[r].family = 0 THEN minted + 1 ELSE req[r].family
    BY Zenon DEF NewToken
  <2> HIDE DEF new
  <2>3. /\ \A s \in Requests : s # r => req'[s] = req[s]
        /\ req'[r].pc = "idle" /\ req'[r].family = 0
    BY <2>1, Defaults, Zenon DEF TypeOK
  <2>4. new.family \in 1..(minted + 1) /\ req[r].family \in 0..minted
    BY <2>2, <1>0 DEF Numbered
  <2>5. Numbered'
    <3>1. \A t \in store' : t.family \in 1..(minted + 1)
      BY <2>1, <2>4, <1>0 DEF Numbered
    <3>2. \A s \in Requests : req'[s].family \in 0..(minted + 1)
      BY <2>3, <1>0 DEF Numbered
    <3> QED BY <3>1, <3>2, <2>1 DEF Numbered
  <2>6. ASSUME NEW f \in 1..minted PROVE FamilyStep(f)
    <3>1. Usable(f)' \subseteq Usable(f) \union {new} /\ Rotating(f)' \subseteq Rotating(f) \ {r}
      BY <2>1, <2>3, <1>0, Zenon DEF Usable, Rotating
    <3>2. CASE req[r].family = f
      <4>1. r \in Rotating(f)
        BY <2>1, <3>2, Zenon DEF Rotating
      <4> QED BY <4>1, <3>1 DEF FamilyStep
    <3>3. CASE req[r].family # f
      <4>1. new.family # f
        BY <2>2, <3>3, <1>0
      <4>2. Usable(f)' \subseteq Usable(f)
        BY <4>1, <2>1, Zenon DEF Usable
      <4> QED BY <4>2, <3>1 DEF FamilyStep
    <3> QED BY <3>2, <3>3
  <2>7. ASSUME NEW f \in (1..minted') \ (1..minted)
        PROVE  (\A t, u \in Usable(f)' : t = u) /\ Rotating(f)' = {}
    <3>1. f = minted + 1
      BY <2>1, <1>0
    <3>2. \A t \in store : t.family # f
      BY <3>1, <1>0, Zenon DEF Numbered
    <3>3. \A s \in Requests : req'[s].family # f
      BY <3>1, <2>3, <1>0 DEF Numbered
    <3>4. Usable(f)' \subseteq {new}
      BY <3>2, <2>1, Zenon DEF Usable
    <3>5. Rotating(f)' = {}
      BY <3>3, Zenon DEF Rotating
    <3> QED BY <3>4, <3>5
  <2> QED BY <2>1, <2>5, <2>6, <2>7, <1>0 DEF Goal
<1>5. ASSUME NEW o \in Revokers, RevokeAllForIdentity(o) PROVE Goal
  <2>1. minted' = minted /\ store' \subseteq store /\ req' = req
    BY <1>5, Zenon DEF RevokeAllForIdentity
  <2>2. Numbered'
    BY <2>1, Zenon DEF Numbered
  <2>3. \A f \in 1..minted : FamilyStep(f)
    BY <2>1, Zenon DEF FamilyStep, Usable, Rotating
  <2> QED BY <2>1, <2>2, <2>3, <1>s
<1>6. ASSUME NEW o \in Revokers, NEW target \in Targets, HandleRevoke(o, target) PROVE Goal
  BY <1>6, <1>f, Zenon DEF HandleRevoke
<1>7. ASSUME NEW o \in Revokers, Revoke(o) PROVE Goal
  BY <1>7, <1>f, Zenon DEF Revoke
<1>8. ASSUME NEW p \in Principals, Authenticate(p) PROVE Goal
  BY <1>8, <1>f, Zenon DEF Authenticate
<1>9. ASSUME Tick \/ UNCHANGED vars PROVE Goal
  BY <1>9, <1>f, Zenon DEF Tick, vars
<1>10. Goal
  BY <1>1, <1>2, <1>3, <1>4, <1>5, <1>6, <1>7, <1>8, <1>9, Zenon DEF Next, RequestStep, RevokerStep
<1> QED BY <1>10 DEF Goal

IInv == TypeOK /\ Numbered /\ NoFork

\* The invariant holds always.
LEMMA Invariance == Spec => []IInv
<1>1. Init => IInv
  <2> SUFFICES ASSUME Init PROVE IInv
    OBVIOUS
  <2>1. TypeOK
    BY CredentialAssumption, Defaults, Zenon DEF Init, TypeOK
  <2>2. Numbered /\ NoFork
    BY Defaults DEF Init, Numbered, NoFork, Usable, Rotating
  <2> QED BY <2>1, <2>2 DEF IInv
<1>2. IInv /\ [Next]_vars => IInv'
  <2> SUFFICES ASSUME IInv, [Next]_vars PROVE IInv'
    OBVIOUS
  <2>1. TypeOK' /\ Numbered'
    BY TypeStep, FamilyLemma, Zenon DEF IInv
  <2>2. ASSUME NEW f \in 1..minted'
        PROVE  /\ \A t, u \in Usable(f)' : t = u
               /\ \A r, s \in Rotating(f)' : r = s
               /\ Usable(f)' = {} \/ Rotating(f)' = {}
    <3>1. CASE f \in 1..minted
      <4>1. FamilyStep(f)
        BY <3>1, FamilyLemma, Zenon DEF IInv
      <4>2. /\ \A t, u \in Usable(f) : t = u
            /\ \A r, s \in Rotating(f) : r = s
            /\ Usable(f) = {} \/ Rotating(f) = {}
        BY <3>1, Zenon DEF IInv, NoFork
      <4> QED BY <4>1, <4>2, Zenon DEF FamilyStep
    <3>2. CASE f \notin 1..minted
      BY <3>2, FamilyLemma, Zenon DEF IInv
    <3> QED BY <3>1, <3>2
  <2>3. NoFork'
    BY <2>2, Zenon DEF NoFork
  <2> QED BY <2>1, <2>3 DEF IInv
<1> QED BY <1>1, <1>2, PTL DEF Spec

(* A family never forks: whatever refreshes of old and new tokens race and *)
(* fail, RefreshService and the stores keep at most one usable token of it.*)
THEOREM FamiliesDoNotFork == Spec => []NoFork
<1>1. IInv => NoFork
  BY Zenon DEF IInv
<1> QED BY <1>1, Invariance, PTL

(* A family without a usable token or a refresh in progress never gets one *)
(* again: neither a replay nor a failed call brings a lineage back.        *)
THEOREM EndIsFinal == Spec => EndedForever
<1> DEFINE A == \A f \in 1..minted :
                  Usable(f) = {} /\ Rotating(f) = {} => (Usable(f) = {} /\ Rotating(f) = {})'
<1>1. IInv /\ [Next]_vars => [A]_vars
  <2> SUFFICES ASSUME IInv, [Next]_vars, NEW f \in 1..minted,
                      Usable(f) = {}, Rotating(f) = {}
               PROVE  (Usable(f) = {} /\ Rotating(f) = {})'
    OBVIOUS
  <2>1. FamilyStep(f)
    BY FamilyLemma, Zenon DEF IInv
  <2> QED BY <2>1 DEF FamilyStep
<1> QED BY <1>1, Invariance, PTL DEF Spec, EndedForever
-----------------------------------------------------------------------------
\* No two revocations overlap.
OneRevoker == \A o1, o2 \in Revokers : o1 = o2

\* No lifetime ends later than one that starts now.
Bounded ==
  /\ \A a \in access : a.exp <= clock + AccessTTL
  /\ \A r \in Requests : req[r].exp <= clock + AccessTTL
  /\ \A e \in revoked : e.until <= clock + AccessTTL
  /\ \A o \in Revokers : rev[o].until <= clock + AccessTTL

\* A revocation about to be written ends later than those that are.
Latest == \A o \in Revokers : rev[o].pc = "computed" => \A e \in revoked : e.until <= rev[o].until

\* Each access token of p has expired, or does so before a revocation of p.
Covered(p) ==
  \A a \in access : a.who = p =>
    \/ a.exp <= clock
    \/ \E e \in revoked : Matches(e.target, p) /\ a.exp <= e.until

Quiet ==
  \A o \in Revokers : \A p \in rev[o].quiet :
    /\ InFlight(p) = {} /\ Matches(rev[o].target, p)
    /\ \A a \in access : a.who = p => a.exp <= rev[o].until
    /\ rev[o].pc = "written" => Covered(p)

Shut ==
  \A p \in Principals : shut[p] = "shut" =>
    InFlight(p) = {} /\ (\A t \in store : t.who # p) /\ Covered(p)

LInv == TypeOK /\ Bounded /\ Latest /\ Quiet /\ Shut

LEMMA BoundedStep == ASSUME TypeOK, Bounded, [Next]_vars PROVE Bounded'
<1> USE CredentialAssumption, Defaults
<1>0. /\ clock \in Nat
      /\ \A a \in access : a.exp \in Nat
      /\ \A r \in Requests : req[r].exp \in Nat
      /\ \A e \in revoked : e.until \in Nat
      /\ \A o \in Revokers : rev[o].until \in Nat
  BY Zenon DEF TypeOK
<1>1. clock' \in Nat /\ clock <= clock'
  <2>1. clock' = clock \/ clock' = clock + 1
    BY Zenon DEF Next, RequestStep, RevokerStep, Bootstrap, Redeem, CheckRevoked, Sign, Issue, HandleRevoke, Revoke,
         RevokeAllForIdentity, Authenticate, Tick, vars
  <2> QED BY <2>1, <1>0
<1>h. ASSUME NEW p, SelfHeal(p) PROVE revoked' \subseteq revoked
  BY <1>h, Zenon DEF SelfHeal
<1>d. ASSUME NEW p, Disturb(p) PROVE \A o \in Revokers : rev'[o].until = rev[o].until
  BY <1>d, Zenon DEF Disturb
<1>2. \A a \in access' : a.exp <= clock' + AccessTTL
  <2>1. CASE access' \subseteq access
    BY <2>1, <1>0, <1>1 DEF Bounded
  <2>2. ASSUME NEW r \in Requests, Issue(r) PROVE <1>2
    <3>1. clock' = clock /\ access' \subseteq access \union {[who |-> req[r].who, exp |-> req[r].exp]}
      BY <2>2, Zenon DEF Issue
    <3> QED BY <3>1, <1>0 DEF Bounded
  <2> QED
    BY <2>1, <2>2, Zenon DEF Next, RequestStep, RevokerStep, Bootstrap, Redeem, CheckRevoked, Sign, HandleRevoke, Revoke,
         RevokeAllForIdentity, Authenticate, Tick, vars
<1>3. \A r \in Requests : req'[r].exp <= clock' + AccessTTL
  <2>1. CASE req' = req
    <3> SUFFICES ASSUME NEW r \in Requests PROVE req[r].exp <= clock' + AccessTTL
      BY <2>1, Zenon
    <3>1. req[r].exp <= clock + AccessTTL
      BY Zenon DEF Bounded
    <3> QED BY <3>1, <1>0, <1>1
  <2>2. ASSUME NEW r \in Requests, NEW x, req' = [req EXCEPT ![r] = x],
               x.exp = 0 \/ x.exp = clock + AccessTTL PROVE <1>3
    <3>1. \A s \in Requests : req'[s] = IF s = r THEN x ELSE req[s]
      BY <2>2, Zenon DEF TypeOK
    <3>2. x.exp \in Nat /\ x.exp <= clock' + AccessTTL
      BY <2>2, <1>0, <1>1
    <3> QED BY <3>1, <3>2, <1>0, <1>1 DEF Bounded
  <2>3. ASSUME NEW r \in Requests, \E p \in Principals : Bootstrap(r, p) PROVE <1>3
    BY <2>2, <2>3, Zenon DEF Bootstrap
  <2>4. ASSUME NEW r \in Requests, NEW n, Redeem(r, n) PROVE <1>3
    BY <2>1, <2>2, <2>4, Zenon DEF Redeem, RedeemActive, RedeemExpired, RedeemConsumed
  <2>5. ASSUME NEW r \in Requests, CheckRevoked(r) \/ Sign(r) \/ Issue(r) PROVE <1>3
    BY <2>2, <2>5, Zenon DEF CheckRevoked, Sign, Issue
  <2> QED
    BY <2>1, <2>3, <2>4, <2>5, Zenon DEF Next, RequestStep, RevokerStep, HandleRevoke, Revoke, RevokeAllForIdentity,
         Authenticate, Tick, vars
<1>4. \A e \in revoked' : e.until <= clock' + AccessTTL
  <2>1. CASE revoked' \subseteq revoked
    BY <2>1, <1>0, <1>1 DEF Bounded
  <2>2. ASSUME NEW o \in Revokers, Revoke(o) PROVE <1>4
    <3>1. /\ revoked' \subseteq revoked \union {[target |-> rev[o].target, until |-> rev[o].until]}
          /\ clock' = clock
      BY <2>2, Zenon DEF Revoke
    <3> QED BY <3>1, <1>0 DEF Bounded
  <2> QED
    BY <2>1, <2>2, <1>h, Zenon DEF Next, RequestStep, RevokerStep, Bootstrap, Redeem, CheckRevoked, Sign, Issue, HandleRevoke,
         RevokeAllForIdentity, Authenticate, Tick, vars
<1>5. \A o \in Revokers : rev'[o].until <= clock' + AccessTTL
  <2>1. CASE \A o \in Revokers : rev'[o].until = rev[o].until
    BY <2>1, <1>0, <1>1 DEF Bounded
  <2>2. ASSUME NEW o \in Revokers, NEW x, rev' = [rev EXCEPT ![o] = x],
               x.until = 0 \/ x.until = clock + AccessTTL \/ x.until = rev[o].until PROVE <1>5
    <3>1. \A s \in Revokers : rev'[s] = IF s = o THEN x ELSE rev[s]
      BY <2>2, Zenon DEF TypeOK
    <3>2. x.until \in Nat /\ x.until <= clock' + AccessTTL
      BY <2>2, <1>0, <1>1 DEF Bounded
    <3> QED BY <3>1, <3>2, <1>0, <1>1 DEF Bounded
  <2>3. ASSUME NEW o \in Revokers, \E target \in Targets : HandleRevoke(o, target) PROVE <1>5
    BY <2>2, <2>3, Zenon DEF HandleRevoke
  <2>4. ASSUME NEW o \in Revokers, Revoke(o) \/ RevokeAllForIdentity(o) PROVE <1>5
    BY <2>2, <2>4, Zenon DEF Revoke, RevokeAllForIdentity
  <2>5. ASSUME NEW r \in Requests, NEW n, Redeem(r, n) PROVE <1>5
    BY <2>1, <2>5, <1>d, Zenon DEF Redeem, RedeemActive, RedeemExpired, RedeemConsumed
  <2> QED
    BY <2>1, <2>3, <2>4, <2>5, <1>d, Zenon DEF Next, RequestStep, RevokerStep, Bootstrap, CheckRevoked, Sign, Issue,
         Authenticate, Tick, vars
<1> QED BY <1>2, <1>3, <1>4, <1>5 DEF Bounded

LEMMA LatestStep == ASSUME TypeOK, OneRevoker, Bounded, Latest, [Next]_vars PROVE Latest'
<1> USE CredentialAssumption, Defaults
<1>0. /\ clock \in Nat
      /\ \A e \in revoked : e.until \in Nat
      /\ \A o \in Revokers : rev[o].until \in Nat
  BY Zenon DEF TypeOK
<1>h. ASSUME NEW p, SelfHeal(p) PROVE revoked' \subseteq revoked
  BY <1>h, Zenon DEF SelfHeal
<1>d. ASSUME NEW p, Disturb(p)
      PROVE  \A o \in Revokers : rev'[o].until = rev[o].until /\ rev'[o].pc = rev[o].pc
  BY <1>d, Zenon DEF Disturb
<1>1. CASE /\ revoked' \subseteq revoked
           /\ \A o \in Revokers : rev'[o].until = rev[o].until /\ rev'[o].pc = rev[o].pc
  BY <1>1, Zenon DEF Latest
<1>2. ASSUME NEW o \in Revokers, NEW target \in Targets, HandleRevoke(o, target) PROVE Latest'
  <2>1. \A s \in Revokers : s = o
    BY Zenon DEF OneRevoker
  <2>2. rev'[o].until = clock + AccessTTL /\ revoked' = revoked
    BY <1>2, Zenon DEF HandleRevoke, TypeOK
  <2> QED BY <2>1, <2>2 DEF Latest, Bounded
<1>3. ASSUME NEW o \in Revokers, Revoke(o) \/ RevokeAllForIdentity(o) PROVE Latest'
  <2>1. \A s \in Revokers : s = o
    BY Zenon DEF OneRevoker
  <2>2. rev'[o].pc # "computed"
    BY <1>3 DEF Revoke, RevokeAllForIdentity, TypeOK
  <2> QED BY <2>1, <2>2 DEF Latest
<1>4. ASSUME NEW r \in Requests, NEW n, Redeem(r, n) PROVE Latest'
  BY <1>1, <1>4, <1>d, Zenon DEF Redeem, RedeemActive, RedeemExpired, RedeemConsumed
<1>5. ASSUME NEW r \in Requests, NEW p, Bootstrap(r, p) PROVE Latest'
  BY <1>1, <1>5, <1>d, Zenon DEF Bootstrap
<1>6. ASSUME NEW r \in Requests, CheckRevoked(r) \/ Sign(r) \/ Issue(r) PROVE Latest'
  BY <1>1, <1>6, <1>h, Zenon DEF CheckRevoked, Sign, Issue
<1>7. ASSUME NEW p, Authenticate(p) PROVE Latest'
  BY <1>1, <1>7, <1>h, Zenon DEF Authenticate
<1>8. CASE Tick \/ UNCHANGED vars
  BY <1>1, <1>8, Zenon DEF Tick, vars
<1> QED BY <1>2, <1>3, <1>4, <1>5, <1>6, <1>7, <1>8 DEF Next, RequestStep, RevokerStep

\* A principal without a call in progress stays so, or is disturbed by a call
\* that presents its secret or one of its refresh tokens.
LEMMA InFlightStep ==
  ASSUME TypeOK, [Next]_vars, NEW p \in Principals, InFlight(p) = {}
  PROVE  \/ InFlight(p)' = {}
         \/ /\ Disturb(p) /\ UNCHANGED <<access, revoked>>
            /\ shut'[p] = "open" \/ (shut' = shut /\ \E t \in store : t.who = p)
<1>1. ASSUME req' = req PROVE InFlight(p)' = {}
  BY <1>1, Zenon DEF InFlight
<1>2. ASSUME NEW r \in Requests, NEW x, req' = [req EXCEPT ![r] = x],
             x.pc = "idle" \/ x.who # p PROVE InFlight(p)' = {}
  BY <1>2, Zenon DEF InFlight, TypeOK
<1>3. ASSUME NEW r \in Requests, NEW q \in Principals, Bootstrap(r, q)
      PROVE InFlight(p)' = {} \/ (Disturb(p) /\ UNCHANGED <<access, revoked>> /\ shut'[p] = "open")
  <2>1. CASE q = p
    BY <1>3, <2>1, Zenon DEF Bootstrap, TypeOK
  <2>2. CASE q # p
    BY <1>3, <2>2, <1>2, Zenon DEF Bootstrap
  <2> QED BY <2>1, <2>2
<1>4. ASSUME NEW r \in Requests, NEW n, Redeem(r, n)
      PROVE InFlight(p)' = {} \/ (/\ Disturb(p) /\ UNCHANGED <<access, revoked>> /\ shut' = shut
                                  /\ \E t \in store : t.who = p)
  <2>1. UNCHANGED <<access, revoked>> /\ shut' = shut
    BY <1>4, Zenon DEF Redeem
  <2>2. \/ req' = req
        \/ \E t \in store : /\ Disturb(t.who)
                            /\ req' = [req EXCEPT ![r] = [pc |-> "redeemed", who |-> t.who,
                                                         family |-> t.family, exp |-> 0]]
    BY <1>4, Zenon DEF Redeem, RedeemActive, RedeemExpired, RedeemConsumed
  <2>3. ASSUME NEW t \in store, t.who # p,
               req' = [req EXCEPT ![r] = [pc |-> "redeemed", who |-> t.who,
                                          family |-> t.family, exp |-> 0]]
        PROVE  InFlight(p)' = {}
    BY <2>3, <1>2, Zenon
  <2> QED BY <1>1, <2>1, <2>2, <2>3
<1>5. ASSUME NEW r \in Requests, CheckRevoked(r) \/ Sign(r) \/ Issue(r) PROVE InFlight(p)' = {}
  <2>1. req[r].who # p
    BY <1>5, Zenon DEF CheckRevoked, Sign, Issue, InFlight
  <2> QED BY <1>2, <1>5, <2>1, Defaults DEF CheckRevoked, Sign, Issue
<1>6. CASE \/ \E o \in Revokers : \/ \E target \in Targets : HandleRevoke(o, target)
                                  \/ Revoke(o) \/ RevokeAllForIdentity(o)
           \/ \E q \in Principals : Authenticate(q)
           \/ Tick \/ UNCHANGED vars
  BY <1>1, <1>6, Zenon DEF HandleRevoke, Revoke, RevokeAllForIdentity, Authenticate, Tick, vars
<1> QED BY <1>3, <1>4, <1>5, <1>6 DEF Next, RequestStep, RevokerStep

\* The revocations of p outlast its access tokens while it makes no calls.
LEMMA CoveredStep ==
  ASSUME TypeOK, Latest, [Next]_vars, NEW p \in Principals, InFlight(p) = {}, Covered(p)
  PROVE  Covered(p)'
<1>0. /\ clock \in Nat
      /\ \A a \in access : a.exp \in Nat
      /\ \A e \in revoked : e.until \in Nat
      /\ \A o \in Revokers : rev[o].until \in Nat
  BY Zenon DEF TypeOK
<1>1. CASE UNCHANGED <<clock, access, revoked>>
  BY <1>1, Zenon DEF Covered
<1>2. ASSUME NEW q, SelfHeal(q), UNCHANGED <<clock, access>> PROVE Covered(p)'
  <2>1. \A e \in revoked : e \in revoked' \/ e.until <= clock
    BY <1>2, <1>0 DEF SelfHeal, Live
  <2> QED BY <1>2, <2>1, <1>0 DEF Covered
<1>3. ASSUME NEW r \in Requests, Issue(r) PROVE Covered(p)'
  <2>1. req[r].who # p
    BY <1>3, Zenon DEF Issue, InFlight
  <2>2. /\ \A a \in access' : a \in access \/ a.who # p
        /\ UNCHANGED <<clock, revoked>>
    BY <1>3, <2>1 DEF Issue
  <2> QED BY <2>2 DEF Covered
<1>4. ASSUME NEW o \in Revokers, Revoke(o) PROVE Covered(p)'
  <2> DEFINE new == [target |-> rev[o].target, until |-> rev[o].until]
  <2>1. UNCHANGED <<clock, access>> /\ rev[o].pc = "computed"
    BY <1>4, Zenon DEF Revoke
  <2>2. CASE revoked' = {e \in revoked : e.target # rev[o].target} \union {new}
    <3>1. new.target = rev[o].target /\ new.until = rev[o].until /\ new \in revoked'
      BY <2>2, Zenon
    <3>2. \A e \in revoked : \/ e \in revoked'
                             \/ e.target = new.target /\ e.until <= new.until
      BY <2>1, <2>2, <3>1, Zenon DEF Latest
    <3> HIDE DEF new
    <3>3. ASSUME NEW a \in access, a.who = p, NEW e \in revoked,
                 Matches(e.target, p), a.exp <= e.until
          PROVE  \E d \in revoked' : Matches(d.target, p) /\ a.exp <= d.until
      BY <3>1, <3>2, <3>3, <1>0
    <3> QED BY <2>1, <3>3 DEF Covered, Matches, Everywhere
  <2>3. CASE revoked' = revoked
    BY <1>1, <2>1, <2>3, Zenon
  <2> QED BY <1>4, <2>2, <2>3 DEF Revoke
<1>5. CASE Tick
  <2>1. clock' = clock + 1 /\ access' \subseteq access /\ revoked' = revoked
    BY <1>5, Zenon DEF Tick
  <2> QED BY <2>1, <1>0 DEF Covered, Matches, Everywhere
<1>6. CASE \/ \E r \in Requests : (\E q \in Principals : Bootstrap(r, q))
                                  \/ (\E n \in 0..minted : Redeem(r, n)) \/ Sign(r)
           \/ \E o \in Revokers : (\E target \in Targets : HandleRevoke(o, target))
                                  \/ RevokeAllForIdentity(o)
           \/ UNCHANGED vars
  BY <1>1, <1>6, Zenon DEF Bootstrap, Redeem, Sign, HandleRevoke, RevokeAllForIdentity, vars
<1>7. ASSUME NEW r \in Requests, CheckRevoked(r) PROVE Covered(p)'
  BY <1>2, <1>7, Zenon DEF CheckRevoked
<1>8. ASSUME NEW q \in Principals, Authenticate(q) PROVE Covered(p)'
  BY <1>2, <1>8, Zenon DEF Authenticate
<1> QED BY <1>3, <1>4, <1>5, <1>6, <1>7, <1>8 DEF Next, RequestStep, RevokerStep

\* A principal without a call in progress gets no token.
LEMMA NoNewTokens ==
  ASSUME TypeOK, [Next]_vars, NEW p \in Principals, InFlight(p) = {}
  PROVE  /\ \A a \in access' : a.who = p => a \in access
         /\ (\A t \in store : t.who # p) => (\A t \in store' : t.who # p)
<1>1. CASE store' \subseteq store /\ access' \subseteq access
  BY <1>1, Zenon
<1>2. ASSUME NEW r \in Requests, NEW n, Redeem(r, n)
      PROVE  /\ access' = access
             /\ (\A t \in store : t.who # p) => (\A t \in store' : t.who # p)
  <2>1. \A e \in store' : \E t \in store : e.who = t.who
    BY <1>2 DEF Redeem, RedeemActive, RedeemExpired, RedeemConsumed
  <2>2. access' = access
    BY <1>2, Zenon DEF Redeem
  <2> QED BY <2>1, <2>2
<1>3. ASSUME NEW r \in Requests, Issue(r)
      PROVE  /\ \A a \in access' : a.who = p => a \in access
             /\ (\A t \in store : t.who # p) => (\A t \in store' : t.who # p)
  <2>1. req[r].who # p
    BY <1>3, Zenon DEF Issue, InFlight
  <2>2. NewToken(r).who = req[r].who
    BY Zenon DEF NewToken
  <2> QED BY <1>3, <2>1, <2>2 DEF Issue
<1> QED
  BY <1>1, <1>2, <1>3, Zenon DEF Next, RequestStep, RevokerStep, Bootstrap, CheckRevoked, Sign, HandleRevoke, Revoke,
       RevokeAllForIdentity, Authenticate, Tick, vars

\* What one step does to a revocation in progress.
LEMMA RevStep ==
  ASSUME TypeOK, [Next]_vars, NEW o \in Revokers, NEW p \in rev'[o].quiet
  PROVE  \/ /\ p \in rev[o].quiet /\ rev'[o].target = rev[o].target
            /\ rev'[o].until = rev[o].until /\ ~Disturb(p)
            /\ rev'[o].pc = rev[o].pc \/ Revoke(o)
         \/ \E target \in Targets : HandleRevoke(o, target)
<1> DEFINE Kept == /\ p \in rev[o].quiet /\ rev'[o].target = rev[o].target
                   /\ rev'[o].until = rev[o].until
                   /\ rev'[o].pc = rev[o].pc \/ Revoke(o)
<1> HIDE DEF Kept
<1>1. ~Disturb(p)
  BY DEF Disturb
<1>2. ASSUME NEW q, Disturb(q) PROVE Kept
  BY <1>2, Zenon DEF Disturb, Kept
<1>3. ASSUME UNCHANGED rev PROVE Kept
  BY <1>3, Zenon DEF Kept
<1>4. ASSUME NEW r \in Requests, NEW n, Redeem(r, n) PROVE Kept
  BY <1>2, <1>3, <1>4, Zenon DEF Redeem, RedeemActive, RedeemExpired, RedeemConsumed
<1>5. ASSUME NEW s \in Revokers, Revoke(s) PROVE Kept
  <2>1. CASE s = o
    BY <1>5, <2>1, Defaults DEF Revoke, TypeOK, Kept
  <2>2. CASE s # o
    <3>1. rev'[o] = rev[o]
      BY <1>5, <2>2, Zenon DEF Revoke, TypeOK
    <3> QED BY <3>1 DEF Kept
  <2> QED BY <2>1, <2>2
<1>6. ASSUME NEW s \in Revokers, RevokeAllForIdentity(s) PROVE Kept
  <2>1. s # o
    BY <1>6, Defaults, Zenon DEF RevokeAllForIdentity, TypeOK
  <2>2. rev'[o] = rev[o]
    BY <1>6, <2>1, Zenon DEF RevokeAllForIdentity, TypeOK
  <2> QED BY <2>2 DEF Kept
<1>7. ASSUME NEW s \in Revokers, NEW target \in Targets, HandleRevoke(s, target)
      PROVE  Kept \/ HandleRevoke(o, target)
  <2>1. CASE s # o
    <3>1. rev'[o] = rev[o]
      BY <1>7, <2>1, Zenon DEF HandleRevoke, TypeOK
    <3> QED BY <3>1 DEF Kept
  <2> QED BY <2>1, <1>7
<1>8. Kept \/ \E target \in Targets : HandleRevoke(o, target)
  BY <1>2, <1>3, <1>4, <1>5, <1>6, <1>7, Zenon DEF Next, RequestStep, RevokerStep, Bootstrap, CheckRevoked, Sign, Issue,
       Authenticate, Tick, vars
<1> QED BY <1>1, <1>8 DEF Kept

LEMMA QuietStep == ASSUME LInv, [Next]_vars PROVE Quiet'
<1> SUFFICES ASSUME NEW o \in Revokers, NEW p \in rev'[o].quiet
             PROVE  /\ InFlight(p)' = {} /\ Matches(rev'[o].target, p)
                    /\ \A a \in access' : a.who = p => a.exp <= rev'[o].until
                    /\ rev'[o].pc = "written" => Covered(p)'
  BY Zenon DEF Quiet, Matches, Everywhere
<1>t. TypeOK /\ Bounded /\ Latest /\ Quiet
  BY Zenon DEF LInv
<1>p. p \in Principals
  <2>1. TypeOK'
    BY <1>t, TypeStep, Zenon
  <2> QED BY <2>1 DEF TypeOK
<1>1. ASSUME NEW target \in Targets, HandleRevoke(o, target) PROVE
        /\ InFlight(p)' = {} /\ Matches(rev'[o].target, p)
        /\ \A a \in access' : a.who = p => a.exp <= rev'[o].until
        /\ rev'[o].pc # "written"
  <2>1. /\ rev'[o].pc = "computed" /\ rev'[o].target = target /\ rev'[o].until = clock + AccessTTL
        /\ p \in {q \in Principals : Matches(target, q) /\ InFlight(q) = {}}
        /\ UNCHANGED <<req, access>>
    BY <1>1, <1>t, Zenon DEF HandleRevoke, TypeOK
  <2>2. InFlight(p)' = {}
    BY <2>1, Zenon DEF InFlight
  <2> QED BY <2>1, <2>2, <1>t DEF Bounded
<1>2. ASSUME p \in rev[o].quiet, rev'[o].target = rev[o].target,
             rev'[o].until = rev[o].until, ~Disturb(p), rev'[o].pc = rev[o].pc \/ Revoke(o)
      PROVE  /\ InFlight(p)' = {} /\ Matches(rev'[o].target, p)
             /\ \A a \in access' : a.who = p => a.exp <= rev'[o].until
             /\ rev'[o].pc = "written" => Covered(p)'
  <2>1. /\ InFlight(p) = {} /\ Matches(rev[o].target, p)
        /\ \A a \in access : a.who = p => a.exp <= rev[o].until
        /\ rev[o].pc = "written" => Covered(p)
    BY <1>2, <1>t, Zenon DEF Quiet
  <2>2. InFlight(p)' = {}
    BY <2>1, <1>2, <1>t, <1>p, InFlightStep, Zenon
  <2>3. \A a \in access' : a.who = p => a.exp <= rev'[o].until
    BY <2>1, <1>2, <1>t, <1>p, NoNewTokens, Zenon
  <2>4. ASSUME rev[o].pc = "written" PROVE Covered(p)'
    BY <2>1, <2>4, <1>t, <1>p, CoveredStep, Zenon
  <2>5. ASSUME Revoke(o), rev'[o].pc = "written" PROVE Covered(p)'
    <3> DEFINE new == [target |-> rev[o].target, until |-> rev[o].until]
    <3>1. new \in revoked' /\ access' = access
      BY <2>5, <1>t, Defaults, Zenon DEF Revoke, TypeOK
    <3>2. Matches(new.target, p) /\ \A a \in access' : a.who = p => a.exp <= new.until
      BY <2>1, <3>1, Zenon
    <3> HIDE DEF new
    <3> QED BY <3>1, <3>2 DEF Covered, Matches, Everywhere
  <2> QED BY <2>1, <2>2, <2>3, <2>4, <2>5, <1>2
<1> QED BY <1>1, <1>2, <1>t, RevStep

LEMMA ShutStep == ASSUME LInv, [Next]_vars PROVE Shut'
<1> SUFFICES ASSUME NEW p \in Principals, shut'[p] = "shut"
             PROVE  InFlight(p)' = {} /\ (\A t \in store' : t.who # p) /\ Covered(p)'
  BY Zenon DEF Shut
<1>t. TypeOK /\ Latest /\ Quiet /\ Shut
  BY Zenon DEF LInv
<1>1. ASSUME shut[p] = "shut"
      PROVE  InFlight(p)' = {} /\ (\A t \in store' : t.who # p) /\ Covered(p)'
  <2>1. InFlight(p) = {} /\ (\A t \in store : t.who # p) /\ Covered(p)
    BY <1>1, <1>t, Zenon DEF Shut
  <2> QED BY <2>1, <1>t, InFlightStep, NoNewTokens, CoveredStep
<1>2. ASSUME NEW o \in Revokers, RevokeAllForIdentity(o), shut[p] # "shut"
      PROVE  InFlight(p)' = {} /\ (\A t \in store' : t.who # p) /\ Covered(p)'
  <2>1. p \in rev[o].quiet /\ store' = {e \in store : ~Matches(rev[o].target, e.who)}
    BY <1>2, <1>t, Zenon DEF RevokeAllForIdentity, Outcome, TypeOK
  <2>2. InFlight(p) = {} /\ Matches(rev[o].target, p) /\ Covered(p)
    BY <1>2, <2>1, <1>t, Zenon DEF Quiet, RevokeAllForIdentity
  <2>3. Covered(p)'
    BY <2>2, <1>t, CoveredStep, Zenon
  <2>4. InFlight(p)' = {}
    BY <1>2, <2>2, Zenon DEF InFlight, RevokeAllForIdentity
  <2> QED BY <2>1, <2>2, <2>3, <2>4
<1>3. ASSUME NEW r \in Requests, NEW q \in Principals, Bootstrap(r, q) PROVE shut[p] = "shut"
  BY <1>3, <1>t, Zenon DEF Bootstrap, TypeOK
<1>4. shut[p] = "shut" \/ \E o \in Revokers : RevokeAllForIdentity(o)
  BY <1>3, Zenon DEF Next, RequestStep, RevokerStep, Redeem, CheckRevoked, Sign, Issue, HandleRevoke, Revoke, Authenticate,
       Tick, vars
<1> QED BY <1>1, <1>2, <1>4

(* If revocations do not overlap, a principal none of whose calls overlaps *)
(* its revocation is locked out when Revoke returns: it has no refresh     *)
(* token left and the revoker rejects every access token it holds, until   *)
(* it bootstraps again.  No failure or race of other calls changes that.   *)
THEOREM RevocationLocksOut == OneRevoker => (Spec => []LockedOut)
<1> SUFFICES ASSUME OneRevoker PROVE Spec => []LockedOut
  OBVIOUS
<1>1. Init => LInv
  <2> SUFFICES ASSUME Init PROVE LInv
    OBVIOUS
  <2>1. TypeOK
    BY CredentialAssumption, Defaults, Zenon DEF Init, TypeOK
  <2>2. Bounded /\ Latest
    BY CredentialAssumption, Defaults DEF Init, Bounded, Latest
  <2>3. Quiet /\ Shut
    BY Defaults, Zenon DEF Init, Quiet, Shut
  <2> QED BY <2>1, <2>2, <2>3 DEF LInv
<1>2. LInv /\ [Next]_vars => LInv'
  BY TypeStep, BoundedStep, LatestStep, QuietStep, ShutStep, Zenon DEF LInv
<1>3. LInv => LockedOut
  <2> SUFFICES ASSUME LInv, NEW p \in Principals, shut[p] = "shut"
               PROVE  /\ \A t \in store : t.who # p
                      /\ \A a \in access : a.who = p /\ Valid(a) => IsRevoked(p)
    BY Zenon DEF LockedOut
  <2>1. (\A t \in store : t.who # p) /\ Covered(p)
    BY Zenon DEF LInv, Shut
  <2>2. ASSUME NEW a \in access, a.who = p, Valid(a) PROVE IsRevoked(p)
    <3>1. clock \in Nat /\ a.exp \in Nat /\ \A e \in revoked : e.until \in Nat
      BY Zenon DEF LInv, TypeOK
    <3>2. clock < a.exp
      BY <2>2, Zenon DEF Valid
    <3>3. PICK e \in revoked : Matches(e.target, p) /\ a.exp <= e.until
      BY <2>1, <2>2, <3>1, <3>2 DEF Covered
    <3>4. clock < e.until
      BY <3>1, <3>2, <3>3
    <3> QED BY <3>3, <3>4 DEF IsRevoked, Live
  <2> QED BY <2>1, <2>2
<1> QED BY <1>1, <1>2, <1>3, PTL DEF Spec
=============================================================================
