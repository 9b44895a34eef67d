---------------------------- MODULE ReloadProofs ----------------------------
(***************************************************************************)
(* Proofs about hot reload, for any number of dashboard requests, tenants  *)
(* and tools, any set of configs and any number of edits.                  *)
(***************************************************************************)
EXTENDS Reload, TLAPS

Runs(w, d) == job[w].pc # "idle" /\ job[w].domain = d

\* A call of a closure is at a place of that closure.
Fits ==
  \A w \in Reloaders :
    /\ job[w].pc = "swap" => job[w].domain \in {"policy", "rbac"}
    /\ job[w].pc \in {"info", "swapInfo"} => job[w].domain = "policy"
    /\ job[w].pc \notin {"idle", "swap", "info", "swapInfo"} => job[w].domain = "budget"

Alone == \A d \in {"policy", "rbac", "budget"} : \A v, w \in Reloaders :
           Runs(v, d) /\ Runs(w, d) => v = w

-----------------------------------------------------------------------------
\* The overrides of one scope (the tenants, or the tools) while a config is
\* applied: as the last config left them; while those the new one drops are
\* cleared; while those it has are set; as the new one wants them.
Left(scope, old) == \A n \in scope : limit[n] # NoLimit <=> n \in old

Clearing(scope, old, cfg, todo) ==
  /\ todo \subseteq scope
  /\ \A n \in scope : /\ n \in todo => n \in old /\ cfg.limit[n] = NoLimit
                      /\ limit[n] # NoLimit <=> n \in old /\ (cfg.limit[n] # NoLimit \/ n \in todo)

Setting(scope, old, cfg, todo) ==
  /\ todo \subseteq scope
  /\ \A n \in scope : /\ n \in todo => cfg.limit[n] # NoLimit /\ (n \in old => limit[n] # NoLimit)
                      /\ n \notin todo => limit[n] = cfg.limit[n]

Applied(scope, cfg) == \A n \in scope : limit[n] = cfg.limit[n]

\* Where a call of the budget closure is, and what it has done by then.
Tenanted(w) == Applied(Tenants, job[w].cfg)
Phase(w) ==
  /\ job[w].pc # "default" => default = job[w].cfg.default
  /\ job[w].pc = "default" => Left(Tenants, previous.tenants) /\ Left(Tools, previous.tools)
  /\ job[w].pc = "clearTenants" => /\ Clearing(Tenants, previous.tenants, job[w].cfg, job[w].todo)
                                   /\ Left(Tools, previous.tools)
  /\ job[w].pc = "setTenants" => /\ Setting(Tenants, previous.tenants, job[w].cfg, job[w].todo)
                                 /\ Left(Tools, previous.tools)
  /\ job[w].pc = "clearTools" => /\ Tenanted(w)
                                 /\ Clearing(Tools, previous.tools, job[w].cfg, job[w].todo)
  /\ job[w].pc = "setTools" => /\ Tenanted(w)
                               /\ Setting(Tools, previous.tools, job[w].cfg, job[w].todo)
  /\ job[w].pc = "trackTenants" => Tenanted(w) /\ Applied(Tools, job[w].cfg)
  /\ job[w].pc = "trackTools" => /\ Tenanted(w) /\ Applied(Tools, job[w].cfg)
                                 /\ Left(Tenants, previous.tenants)

Phases ==
  /\ \A w \in Reloaders : Runs(w, "budget") => Phase(w)
  /\ ~ Running("budget") => Left(Tenants, previous.tenants) /\ Left(Tools, previous.tools)

-----------------------------------------------------------------------------
\* No edit is pending for the closure that a round calls as number k.
Settled(k) == ~event /\ file.valid /\ (round = 0 \/ round > k)

PolicyCurrent ==
  Settled(1) =>
    /\ \A w \in Reloaders : Runs(w, "policy") =>
         /\ job[w].pc # "info" => job[w].cfg = file
         /\ job[w].pc # "swap" => engine = file
    /\ ~ Running("policy") => engine = file /\ info = file

RbacCurrent ==
  Settled(2) =>
    /\ \A w \in Reloaders : Runs(w, "rbac") => job[w].cfg = file
    /\ ~ Running("rbac") => authorizer = file

BudgetCurrent ==
  Settled(3) =>
    /\ \A w \in Reloaders : Runs(w, "budget") => job[w].cfg = file
    /\ ~ Running("budget") => InForce(file)

ReloadInv ==
  TypeOK /\ Fits /\ (~overlap => Alone /\ Phases /\ PolicyCurrent /\ RbacCurrent /\ BudgetCurrent)

-----------------------------------------------------------------------------
LEMMA LoadTyped ==
  ASSUME TypeOK, NEW w \in Reloaders, NEW d \in {"policy", "rbac", "budget"}, Load(w, d, file)
  PROVE  job' \in [Reloaders -> Jobs]
BY ReloadAssumption, Zenon DEF TypeOK, Load, Jobs, PCs, Idle

LEMMA ToTyped ==
  ASSUME TypeOK, NEW w \in Reloaders, NEW pc \in PCs, NEW todo \in SUBSET Names, To(w, pc, todo)
  PROVE  job' \in [Reloaders -> Jobs]
BY Zenon DEF TypeOK, To, Jobs

LEMMA IdleTyped ==
  ASSUME TypeOK, NEW w \in Reloaders, job' = [job EXCEPT ![w] = Idle]
  PROVE  job' \in [Reloaders -> Jobs]
BY ReloadAssumption, Zenon DEF TypeOK, Jobs, PCs, Idle

LEMMA ScopesTyped ==
  ASSUME TypeOK, NEW w \in Reloaders
  PROVE  /\ job[w].cfg \in Configs /\ job[w].pc \in PCs /\ job[w].todo \in SUBSET Names
         /\ Overridden(job[w].cfg, Tenants) \in SUBSET Tenants
         /\ Overridden(job[w].cfg, Tools) \in SUBSET Tools
         /\ previous.tenants \in SUBSET Tenants /\ previous.tools \in SUBSET Tools
BY Zenon DEF TypeOK, Jobs, Overridden

LEMMA TypeStep == TypeOK /\ [Next]_vars => TypeOK'
<1> SUFFICES ASSUME TypeOK, [Next]_vars PROVE TypeOK'
  OBVIOUS
<1> USE ReloadAssumption
<1>1. ASSUME NEW v \in Configs, Edit(v) PROVE TypeOK'
  <2>1. edits \in 0..MaxEdits /\ edits < MaxEdits /\ edits' = edits + 1
    BY <1>1, Zenon DEF Edit, TypeOK
  <2>2. edits' \in 0..MaxEdits
    BY <2>1
  <2> QED
    BY <1>1, <2>2, Zenon DEF Edit, TypeOK
<1>2. ASSUME NEW h \in Handlers, NEW d \in {"policy", "rbac", "budget"}, HandleReload(h, d)
      PROVE  TypeOK'
  <2>1. h \in Reloaders /\ Load(h, d, file)
    BY <1>2, Zenon DEF HandleReload, Reloaders
  <2>2. job' \in [Reloaders -> Jobs]
    BY <2>1, LoadTyped, Zenon
  <2>3. overlap' \in BOOLEAN
    BY <1>2, Zenon DEF HandleReload, TypeOK
  <2> QED
    BY <1>2, <2>2, <2>3, Zenon DEF HandleReload, TypeOK
<1>3. CASE Notice
  <2>1. round' \in 0..4
    BY <1>3 DEF Notice
  <2> QED
    BY <1>3, <2>1, Zenon DEF Notice, TypeOK
<1>4. CASE CallClosure
  <2>1. Watcher \in Reloaders /\ Domains[round] \in {"policy", "rbac", "budget"} /\ round' \in 0..4
    BY <1>4 DEF CallClosure, Reloaders, Domains
  <2>2. job' \in [Reloaders -> Jobs]
    BY <1>4, <2>1, LoadTyped, Zenon DEF CallClosure
  <2>3. overlap' \in BOOLEAN
    BY <1>4, Zenon DEF CallClosure, TypeOK
  <2> QED
    BY <1>4, <2>1, <2>2, <2>3, Zenon DEF CallClosure, TypeOK
<1>5. CASE EndRound
  <2>1. round' \in 0..4
    BY <1>5 DEF EndRound
  <2> QED
    BY <1>5, <2>1, Zenon DEF EndRound, TypeOK
<1>6. ASSUME NEW w \in Reloaders, Step(w) PROVE TypeOK'
  <2> USE ScopesTyped
  <2>1. CASE Swap(w)
    <3>1. job' \in [Reloaders -> Jobs]
      BY <2>1, ToTyped, IdleTyped, Zenon DEF Swap, PCs
    <3>2. job[w].cfg \in Configs
      BY Zenon DEF TypeOK, Jobs
    <3>3. engine' \in Configs /\ authorizer' \in Configs
      BY <2>1, <3>2, Zenon DEF Swap, TypeOK
    <3> QED
      BY <2>1, <3>1, <3>3, ZenonT(30), Zenon DEF Swap, TypeOK
  <2>2. CASE BuildPolicyInfo(w)
    <3>1. job' \in [Reloaders -> Jobs]
      BY <2>2, Zenon DEF BuildPolicyInfo, Jobs, PCs, TypeOK
    <3> QED
      BY <2>2, <3>1, Zenon DEF BuildPolicyInfo, TypeOK
  <2>3. CASE SwapInfo(w)
    BY <2>3, IdleTyped, Zenon DEF SwapInfo, TypeOK
  <2>4. CASE SetDefaultLimit(w)
    <3>1. job' \in [Reloaders -> Jobs]
      <4>1. previous.tenants \ Overridden(job[w].cfg, Tenants) \in SUBSET Names
        BY Zenon DEF Names
      <4> QED
        BY <2>4, <4>1, ToTyped, ZenonT(40) DEF SetDefaultLimit, PCs
    <3>2. default' \in {c.default : c \in Configs}
      BY <2>4, Zenon DEF SetDefaultLimit
    <3> QED
      BY <2>4, <3>1, <3>2, Zenon DEF SetDefaultLimit, TypeOK
  <2>5. CASE NextLoop(w)
    <3>1. \E pc \in PCs, todo \in SUBSET Names : To(w, pc, todo)
      <4>1. /\ Overridden(job[w].cfg, Tenants) \in SUBSET Names
            /\ Overridden(job[w].cfg, Tools) \in SUBSET Names
            /\ previous.tools \ Overridden(job[w].cfg, Tools) \in SUBSET Names
            /\ {} \in SUBSET Names
        BY Zenon DEF Names
      <4>2. {"setTenants", "clearTools", "setTools", "trackTenants"} \subseteq PCs
        BY Zenon DEF PCs
      <4> QED
        BY <2>5, <4>1, <4>2, Zenon DEF NextLoop
    <3> QED
      BY <2>5, <3>1, ToTyped, Zenon DEF NextLoop, TypeOK
  <2>6. CASE Track(w)
    <3>1. job' \in [Reloaders -> Jobs]
      BY <2>6, ToTyped, IdleTyped, Zenon DEF Track, PCs
    <3>2. previous' \in [tenants : SUBSET Tenants, tools : SUBSET Tools]
      BY <2>6, ZenonT(40) DEF Track, TypeOK
    <3> QED
      BY <2>6, <3>1, <3>2, Zenon DEF Track, TypeOK
  <2>7. ASSUME NEW n \in Names, ClearLimit(w, n) \/ SetLimit(w, n) PROVE TypeOK'
    <3>1. job[w].todo \ {n} \in SUBSET Names /\ To(w, job[w].pc, job[w].todo \ {n})
      BY <2>7, Zenon DEF ClearLimit, SetLimit
    <3>2. job' \in [Reloaders -> Jobs]
      BY <3>1, ToTyped, Zenon
    <3>3. limit' \in [Names -> Limits]
      <4>1. \A c \in Configs : c.limit[n] \in Limits
        BY DEF Limits
      <4>2. job[w].cfg.limit[n] \in Limits /\ NoLimit \in Limits
        BY <4>1, Zenon DEF Limits
      <4> QED
        BY <2>7, <4>2, ZenonT(40) DEF ClearLimit, SetLimit, TypeOK
    <3> QED
      BY <2>7, <3>2, <3>3, ZenonT(30) DEF ClearLimit, SetLimit, TypeOK
  <2> QED
    BY <1>6, <2>1, <2>2, <2>3, <2>4, <2>5, <2>6, <2>7, Zenon DEF Step
<1>7. CASE UNCHANGED vars
  BY <1>7, Zenon DEF vars, TypeOK
<1> QED
  BY <1>1, <1>2, <1>3, <1>4, <1>5, <1>6, <1>7, Zenon DEF Next, WatchStep

-----------------------------------------------------------------------------
\* What a call that starts, and a call that goes on, change of the calls.
Starts(w, d) ==
  job[w].pc = "idle" /\ Load(w, d, file) /\ overlap' = (overlap \/ Running(d))

LEMMA Loading ==
  ASSUME TypeOK, NEW w \in Reloaders, NEW d \in {"policy", "rbac", "budget"}, Starts(w, d)
  PROVE  /\ \A v \in Reloaders : v # w => job'[v] = job[v]
         /\ \A v \in Reloaders, e \in {"policy", "rbac", "budget"} :
              Runs(v, e)' <=> Runs(v, e) \/ (v = w /\ e = d /\ file.valid)
         /\ file.valid => /\ job'[w].domain = d /\ job'[w].cfg = file
                          /\ d = "budget" => job'[w].pc = "default"
                          /\ d # "budget" => job'[w].pc = "swap"
         /\ ~ file.valid => job'[w].pc = "idle"
<1>1. job' = [job EXCEPT ![w] = job'[w]] /\ \A v \in Reloaders : v # w => job'[v] = job[v]
  BY Zenon DEF Starts, Load, TypeOK
<1>2. /\ file.valid => /\ job'[w].domain = d /\ job'[w].cfg = file
                       /\ d = "budget" => job'[w].pc = "default"
                       /\ d # "budget" => job'[w].pc = "swap"
      /\ ~ file.valid => job'[w].pc = "idle"
  BY Zenon DEF Starts, Load, TypeOK, Idle
<1>3. job[w].pc = "idle"
  BY Zenon DEF Starts
<1>4. ASSUME NEW v \in Reloaders, NEW e \in {"policy", "rbac", "budget"}, v # w
      PROVE  Runs(v, e)' <=> Runs(v, e) \/ (v = w /\ e = d /\ file.valid)
  BY <1>1, <1>4, Zenon DEF Runs
<1>5. ASSUME NEW e \in {"policy", "rbac", "budget"}
      PROVE  Runs(w, e)' <=> Runs(w, e) \/ (e = d /\ file.valid)
  BY <1>2, <1>3, Zenon DEF Runs
<1> QED
  BY <1>1, <1>2, <1>4, <1>5, Zenon

LEMMA Stepping ==
  ASSUME TypeOK, NEW w \in Reloaders, Step(w)
  PROVE  /\ \A v \in Reloaders : v # w => job'[v] = job[v]
         /\ job[w].pc # "idle" /\ UNCHANGED <<file, event, round, overlap>>
         /\ job'[w].pc = "idle" \/ job'[w].pc = "swapInfo" \/ job'[w].domain = job[w].domain
<1> USE DEF TypeOK
<1>1. CASE Swap(w)
  BY <1>1 DEF Swap, To, Idle
<1>2. CASE BuildPolicyInfo(w)
  BY <1>2, Zenon DEF BuildPolicyInfo
<1>3. CASE SwapInfo(w)
  BY <1>3, Zenon DEF SwapInfo, Idle
<1>4. CASE SetDefaultLimit(w)
  BY <1>4, Zenon DEF SetDefaultLimit, To
<1>5. CASE NextLoop(w)
  BY <1>5 DEF NextLoop, To
<1>6. CASE Track(w)
  BY <1>6 DEF Track, To, Idle
<1>7. ASSUME NEW n \in Names, ClearLimit(w, n) \/ SetLimit(w, n)
      PROVE  /\ \A v \in Reloaders : v # w => job'[v] = job[v]
             /\ job[w].pc # "idle" /\ UNCHANGED <<file, event, round, overlap>>
             /\ job'[w].domain = job[w].domain
  BY <1>7 DEF ClearLimit, SetLimit, To
<1> QED
  BY <1>1, <1>2, <1>3, <1>4, <1>5, <1>6, <1>7, Zenon DEF Step

LEMMA FitsStep ==
  ASSUME TypeOK, Fits, NEW w \in Reloaders, Step(w)
  PROVE  Fits'
<1> DEFINE Fit(j) == /\ j.pc = "swap" => j.domain \in {"policy", "rbac"}
                     /\ j.pc \in {"info", "swapInfo"} => j.domain = "policy"
                     /\ j.pc \notin {"idle", "swap", "info", "swapInfo"} => j.domain = "budget"
<1>1. Fit(job'[w])
  <2>0. Fit(job[w])
    BY Zenon DEF Fits
  <2> USE <2>0 DEF TypeOK
  <2>1. CASE Swap(w)
    BY <2>1 DEF Swap, To, Idle
  <2>2. CASE BuildPolicyInfo(w)
    BY <2>2, Zenon DEF BuildPolicyInfo
  <2>3. CASE SwapInfo(w)
    BY <2>3, Zenon DEF SwapInfo, Idle
  <2>4. CASE SetDefaultLimit(w)
    BY <2>4, Zenon DEF SetDefaultLimit, To
  <2>5. CASE NextLoop(w)
    BY <2>5 DEF NextLoop, To
  <2>6. CASE Track(w)
    BY <2>6 DEF Track, To, Idle
  <2>7. ASSUME NEW n \in Names, ClearLimit(w, n) \/ SetLimit(w, n)
        PROVE  Fit(job'[w])
    BY <2>7 DEF ClearLimit, SetLimit, To
  <2> QED
    BY <2>1, <2>2, <2>3, <2>4, <2>5, <2>6, <2>7, Zenon DEF Step
<1>2. ASSUME NEW v \in Reloaders PROVE Fit(job'[v])
  <2>1. v # w => Fit(job[v]) /\ job'[v] = job[v]
    BY Stepping, Zenon DEF Fits
  <2> QED
    BY <1>1, <2>1, Zenon
<1> QED
  BY <1>2, Zenon DEF Fits

\* A call that goes on stays with its closure.
LEMMA RunsStep ==
  ASSUME TypeOK, Fits, NEW w \in Reloaders, Step(w)
  PROVE  /\ \A v \in Reloaders, e \in {"policy", "rbac", "budget"} : Runs(v, e)' => Runs(v, e)
         /\ \A v \in Reloaders, e \in {"policy", "rbac", "budget"} :
              v # w /\ Runs(v, e) => Runs(v, e)'
         /\ Runs(w, job[w].domain) /\ job[w].domain \in {"policy", "rbac", "budget"}
<1>1. job[w].pc = "info" \/ job'[w].pc # "swapInfo" \/ job'[w].domain = job[w].domain
  <2>1. CASE Swap(w)
    BY <2>1 DEF Swap, To, Idle, TypeOK
  <2>2. CASE BuildPolicyInfo(w)
    BY <2>2, Zenon DEF BuildPolicyInfo
  <2>3. CASE SwapInfo(w)
    BY <2>3, Zenon DEF SwapInfo, Idle, TypeOK
  <2>4. CASE SetDefaultLimit(w) \/ NextLoop(w) \/ Track(w) \/ \E n \in Names : ClearLimit(w, n) \/ SetLimit(w, n)
    BY <2>4 DEF SetDefaultLimit, NextLoop, Track, ClearLimit, SetLimit, To, Idle, TypeOK
  <2> QED
    BY <2>1, <2>2, <2>3, <2>4, Zenon DEF Step
<1>2. job[w].domain \in {"policy", "rbac", "budget"}
  BY Zenon DEF TypeOK, Jobs
<1>3. job'[w].pc = "swapInfo" => job'[w].domain = "policy"
  BY FitsStep, Zenon DEF Fits
<1>4. job[w].pc = "info" => job[w].domain = "policy"
  BY Zenon DEF Fits
<1>5. ASSUME NEW e \in {"policy", "rbac", "budget"}, Runs(w, e)' PROVE Runs(w, e)
  BY <1>1, <1>3, <1>4, <1>5, Stepping, Zenon DEF Runs
<1>6. Runs(w, job[w].domain)
  BY Stepping, Zenon DEF Runs
<1> QED
  BY <1>2, <1>5, <1>6, Stepping, Zenon DEF Runs

-----------------------------------------------------------------------------
\* A call of the budget closure is alone, so only it decides the phase.
LEMMA OnePhase ==
  ASSUME TypeOK, Fits, Alone, NEW w \in Reloaders, Step(w), Runs(w, "budget"),
         Runs(w, "budget")' => Phase(w)',
         ~ Runs(w, "budget")' => Left(Tenants, previous.tenants)' /\ Left(Tools, previous.tools)'
  PROVE  Phases'
<1>1. ASSUME NEW v \in Reloaders, Runs(v, "budget")' PROVE v = w
  BY <1>1, RunsStep, Zenon DEF Alone
<1>2. Running("budget")' <=> \E v \in Reloaders : Runs(v, "budget")'
  BY Zenon DEF Running, Runs
<1> QED
  BY <1>1, <1>2, Zenon DEF Phases

LEMMA SamePhase ==
  ASSUME NEW w \in Reloaders, UNCHANGED <<default, limit, previous, job[w]>>, Phase(w)
  PROVE  Phase(w)'
BY ZenonT(60), Zenon DEF Phase, Tenanted, Applied, Left, Clearing, Setting

LEMMA SameLeft ==
  ASSUME UNCHANGED <<limit, previous>>
  PROVE  /\ Left(Tenants, previous.tenants)' <=> Left(Tenants, previous.tenants)
         /\ Left(Tools, previous.tools)' <=> Left(Tools, previous.tools)
BY Zenon DEF Left

LEMMA PhasesStart ==
  ASSUME TypeOK, Phases, NEW w \in Reloaders, NEW d \in {"policy", "rbac", "budget"}, Starts(w, d),
         ~ overlap', UNCHANGED <<default, limit, previous>>
  PROVE  Phases'
<1>1. ASSUME NEW v \in Reloaders, Runs(v, "budget")', v # w PROVE Phase(v)'
  BY <1>1, Loading, SamePhase, ZenonT(30) DEF Phases
<1>2. ASSUME Runs(w, "budget")' PROVE Phase(w)'
  <2>1. d = "budget" /\ job'[w].pc = "default"
    BY <1>2, Loading, Zenon DEF Starts, Runs
  <2>2. ~ Running("budget")
    BY <2>1, Zenon DEF Starts
  <2>3. Left(Tenants, previous.tenants)' /\ Left(Tools, previous.tools)'
    BY <2>2, SameLeft, Zenon DEF Phases
  <2> QED
    BY <2>1, <2>3, Zenon DEF Phase
<1>3. ~ Running("budget")' => ~ Running("budget")
  BY Loading, ZenonT(30) DEF Running, Runs
<1> QED
  BY <1>1, <1>2, <1>3, SameLeft, Zenon DEF Phases

LEMMA PhasesApart ==
  ASSUME TypeOK, Fits, Phases, NEW w \in Reloaders, Step(w), ~ Runs(w, "budget"),
         UNCHANGED <<default, limit, previous>>
  PROVE  Phases'
<1>1. ASSUME NEW v \in Reloaders, Runs(v, "budget")' PROVE Phase(v)'
  BY <1>1, RunsStep, Stepping, SamePhase, Zenon DEF Phases
<1>2. ~ Running("budget")' => ~ Running("budget")
  BY RunsStep, Zenon DEF Running, Runs
<1> QED
  BY <1>1, <1>2, SameLeft, Zenon DEF Phases

\* The scopes of the loops, as sets of names.
LEMMA Scopes ==
  ASSUME TypeOK, NEW w \in Reloaders
  PROVE  /\ Tenants \subseteq Names /\ Tools \subseteq Names /\ limit \in [Names -> Limits]
         /\ \A n \in Tenants : n \notin Tools
         /\ \A n \in Tenants : n \in Overridden(job[w].cfg, Tenants) <=> job[w].cfg.limit[n] # NoLimit
         /\ \A n \in Tools : n \in Overridden(job[w].cfg, Tools) <=> job[w].cfg.limit[n] # NoLimit
         /\ Overridden(job[w].cfg, Tenants) \subseteq Tenants
         /\ Overridden(job[w].cfg, Tools) \subseteq Tools
         /\ previous.tenants \subseteq Tenants /\ previous.tools \subseteq Tools
BY ReloadAssumption, ScopesTyped, Zenon DEF Names, Overridden, TypeOK

LEMMA PhasesDefault ==
  ASSUME TypeOK, Fits, Alone, Phases, NEW w \in Reloaders, SetDefaultLimit(w)
  PROVE  Phases'
<1>1. Step(w) /\ Runs(w, "budget") /\ Phase(w)
  BY Zenon DEF Step, SetDefaultLimit, Runs, Fits, Phases
<1>2. /\ job'[w].pc = "clearTenants" /\ job'[w].domain = job[w].domain /\ job'[w].cfg = job[w].cfg
      /\ job'[w].todo = previous.tenants \ Overridden(job[w].cfg, Tenants)
      /\ default' = job[w].cfg.default /\ UNCHANGED <<limit, previous>>
  BY Zenon DEF SetDefaultLimit, To, TypeOK
<1>3. Left(Tenants, previous.tenants) /\ Left(Tools, previous.tools)
  BY <1>1, Zenon DEF Phase, SetDefaultLimit
<1>4. Clearing(Tenants, previous.tenants, job[w].cfg, job[w].todo)'
  BY <1>2, <1>3, Scopes, ZenonT(40) DEF Clearing, Left
<1>5. Phase(w)' /\ Runs(w, "budget")'
  BY <1>1, <1>2, <1>3, <1>4, SameLeft, Zenon DEF Phase, Runs
<1> QED
  BY <1>1, <1>5, OnePhase, Zenon

LEMMA PhasesClear ==
  ASSUME TypeOK, Fits, Alone, Phases, NEW w \in Reloaders, NEW n \in Names, ClearLimit(w, n)
  PROVE  Phases'
<1>1. Step(w) /\ Runs(w, "budget") /\ Phase(w)
  BY Zenon DEF Step, ClearLimit, Runs, Fits, Phases
<1>2. /\ job'[w].pc = job[w].pc /\ job'[w].domain = job[w].domain /\ job'[w].cfg = job[w].cfg
      /\ job'[w].todo = job[w].todo \ {n} /\ n \in job[w].todo
      /\ limit' = [limit EXCEPT ![n] = NoLimit] /\ UNCHANGED <<default, previous>>
  BY Zenon DEF ClearLimit, To, TypeOK
<1>3. CASE job[w].pc = "clearTenants"
  <2>1. /\ Clearing(Tenants, previous.tenants, job[w].cfg, job[w].todo)
        /\ Left(Tools, previous.tools) /\ default = job[w].cfg.default
    BY <1>1, <1>3, Zenon DEF Phase
  <2>2. n \in Tenants
    BY <1>2, <2>1, Zenon DEF Clearing
  <2>3. Clearing(Tenants, previous.tenants, job[w].cfg, job[w].todo)'
    BY <1>2, <2>1, <2>2, Scopes, ZenonT(40) DEF Clearing
  <2>4. Left(Tools, previous.tools)'
    BY <1>2, <2>1, <2>2, Scopes, ZenonT(40) DEF Left
  <2>5. Phase(w)' /\ Runs(w, "budget")'
    BY <1>1, <1>2, <1>3, <2>1, <2>3, <2>4, Zenon DEF Phase, Runs
  <2> QED
    BY <1>1, <2>5, OnePhase, Zenon
<1>4. CASE job[w].pc = "clearTools"
  <2>1. /\ Clearing(Tools, previous.tools, job[w].cfg, job[w].todo)
        /\ Tenanted(w) /\ default = job[w].cfg.default
    BY <1>1, <1>4, Zenon DEF Phase
  <2>2. n \in Tools
    BY <1>2, <2>1, Zenon DEF Clearing
  <2>3. Clearing(Tools, previous.tools, job[w].cfg, job[w].todo)'
    BY <1>2, <2>1, <2>2, Scopes, ZenonT(30) DEF Clearing
  <2>4. Tenanted(w)'
    BY <1>2, <2>1, <2>2, Scopes, ZenonT(30) DEF Tenanted, Applied
  <2>5. Phase(w)' /\ Runs(w, "budget")'
    BY <1>1, <1>2, <1>4, <2>1, <2>3, <2>4, Zenon DEF Phase, Runs
  <2> QED
    BY <1>1, <2>5, OnePhase, Zenon
<1> QED
  BY <1>3, <1>4, Zenon DEF ClearLimit

LEMMA PhasesSet ==
  ASSUME TypeOK, Fits, Alone, Phases, NEW w \in Reloaders, NEW n \in Names, SetLimit(w, n)
  PROVE  Phases'
<1>1. Step(w) /\ Runs(w, "budget") /\ Phase(w)
  BY Zenon DEF Step, SetLimit, Runs, Fits, Phases
<1>2. /\ job'[w].pc = job[w].pc /\ job'[w].domain = job[w].domain /\ job'[w].cfg = job[w].cfg
      /\ job'[w].todo = job[w].todo \ {n} /\ n \in job[w].todo
      /\ limit' = [limit EXCEPT ![n] = job[w].cfg.limit[n]] /\ UNCHANGED <<default, previous>>
  BY Zenon DEF SetLimit, To, TypeOK
<1>3. CASE job[w].pc = "setTenants"
  <2>1. /\ Setting(Tenants, previous.tenants, job[w].cfg, job[w].todo)
        /\ Left(Tools, previous.tools) /\ default = job[w].cfg.default
    BY <1>1, <1>3, Zenon DEF Phase
  <2>2. n \in Tenants
    BY <1>2, <2>1, Zenon DEF Setting
  <2>3. Setting(Tenants, previous.tenants, job[w].cfg, job[w].todo)'
    BY <1>2, <2>1, <2>2, Scopes, ZenonT(30) DEF Setting
  <2>4. Left(Tools, previous.tools)'
    BY <1>2, <2>1, <2>2, Scopes, ZenonT(30) DEF Left
  <2>5. Phase(w)' /\ Runs(w, "budget")'
    BY <1>1, <1>2, <1>3, <2>1, <2>3, <2>4, Zenon DEF Phase, Runs
  <2> QED
    BY <1>1, <2>5, OnePhase, Zenon
<1>4. CASE job[w].pc = "setTools"
  <2>1. /\ Setting(Tools, previous.tools, job[w].cfg, job[w].todo)
        /\ Tenanted(w) /\ default = job[w].cfg.default
    BY <1>1, <1>4, Zenon DEF Phase
  <2>2. n \in Tools
    BY <1>2, <2>1, Zenon DEF Setting
  <2>3. Setting(Tools, previous.tools, job[w].cfg, job[w].todo)'
    BY <1>2, <2>1, <2>2, Scopes, ZenonT(30) DEF Setting
  <2>4. Tenanted(w)'
    BY <1>2, <2>1, <2>2, Scopes, Zenon DEF Tenanted, Applied
  <2>5. Phase(w)' /\ Runs(w, "budget")'
    BY <1>1, <1>2, <1>4, <2>1, <2>3, <2>4, Zenon DEF Phase, Runs
  <2> QED
    BY <1>1, <2>5, OnePhase, Zenon
<1> QED
  BY <1>3, <1>4, Zenon DEF SetLimit

LEMMA PhasesLoop ==
  ASSUME TypeOK, Fits, Alone, Phases, NEW w \in Reloaders, NextLoop(w)
  PROVE  Phases'
<1>0. Step(w) /\ job[w].pc \in {"clearTenants", "setTenants", "clearTools", "setTools"}
  BY Zenon DEF Step, NextLoop
<1>1. Runs(w, "budget") /\ Phase(w)
  BY <1>0, Zenon DEF Runs, Fits, Phases
<1>2. /\ job'[w].domain = job[w].domain /\ job'[w].cfg = job[w].cfg /\ job[w].todo = {}
      /\ UNCHANGED <<default, limit, previous>>
  BY DEF NextLoop, To, TypeOK
<1>3. default = job[w].cfg.default
  BY <1>0, <1>1, Zenon DEF Phase
<1>4. CASE job[w].pc = "clearTenants"
  <2>1. Clearing(Tenants, previous.tenants, job[w].cfg, job[w].todo) /\ Left(Tools, previous.tools)
    BY <1>1, <1>4, Zenon DEF Phase
  <2>2. job'[w].pc = "setTenants" /\ job'[w].todo = Overridden(job[w].cfg, Tenants)
    BY <1>4 DEF NextLoop, To, TypeOK
  <2>3. Setting(Tenants, previous.tenants, job[w].cfg, job[w].todo)'
    BY <1>2, <2>1, <2>2, Scopes DEF Clearing, Setting
  <2>4. Phase(w)' /\ Runs(w, "budget")'
    BY <1>1, <1>2, <1>3, <2>1, <2>2, <2>3, SameLeft, Zenon DEF Phase, Runs
  <2> QED
    BY <1>0, <1>1, <2>4, OnePhase, Zenon
<1>5. CASE job[w].pc = "setTenants"
  <2>1. Setting(Tenants, previous.tenants, job[w].cfg, job[w].todo) /\ Left(Tools, previous.tools)
    BY <1>1, <1>5, Zenon DEF Phase
  <2>2. /\ job'[w].pc = "clearTools"
        /\ job'[w].todo = previous.tools \ Overridden(job[w].cfg, Tools)
    BY <1>5 DEF NextLoop, To, TypeOK
  <2>3. Tenanted(w)'
    BY <1>2, <2>1, Zenon DEF Setting, Tenanted, Applied
  <2>4. Clearing(Tools, previous.tools, job[w].cfg, job[w].todo)'
    BY <1>2, <2>1, <2>2, Scopes, ZenonT(40) DEF Clearing, Left
  <2>5. Phase(w)' /\ Runs(w, "budget")'
    BY <1>1, <1>2, <1>3, <2>2, <2>3, <2>4, Zenon DEF Phase, Runs
  <2> QED
    BY <1>0, <1>1, <2>5, OnePhase, Zenon
<1>6. CASE job[w].pc = "clearTools"
  <2>1. Clearing(Tools, previous.tools, job[w].cfg, job[w].todo) /\ Tenanted(w)
    BY <1>1, <1>6, Zenon DEF Phase
  <2>2. job'[w].pc = "setTools" /\ job'[w].todo = Overridden(job[w].cfg, Tools)
    BY <1>6 DEF NextLoop, To, TypeOK
  <2>3. Setting(Tools, previous.tools, job[w].cfg, job[w].todo)' /\ Tenanted(w)'
    BY <1>2, <2>1, <2>2, Scopes DEF Clearing, Setting, Tenanted, Applied
  <2>4. Phase(w)' /\ Runs(w, "budget")'
    BY <1>1, <1>2, <1>3, <2>2, <2>3, Zenon DEF Phase, Runs
  <2> QED
    BY <1>0, <1>1, <2>4, OnePhase, Zenon
<1>7. CASE job[w].pc = "setTools"
  <2>1. Setting(Tools, previous.tools, job[w].cfg, job[w].todo) /\ Tenanted(w)
    BY <1>1, <1>7, Zenon DEF Phase
  <2>2. job'[w].pc = "trackTenants"
    BY <1>7 DEF NextLoop, To, TypeOK
  <2>3. Tenanted(w)' /\ Applied(Tools, job[w].cfg)'
    BY <1>2, <2>1, Zenon DEF Setting, Tenanted, Applied
  <2>4. Phase(w)' /\ Runs(w, "budget")'
    BY <1>1, <1>2, <1>3, <2>2, <2>3, Zenon DEF Phase, Runs
  <2> QED
    BY <1>0, <1>1, <2>4, OnePhase, Zenon
<1> QED
  BY <1>0, <1>4, <1>5, <1>6, <1>7, Zenon

LEMMA PhasesTrack ==
  ASSUME TypeOK, Fits, Alone, Phases, NEW w \in Reloaders, Track(w)
  PROVE  Phases'
<1>0. Step(w) /\ job[w].pc \in {"trackTenants", "trackTools"} /\ UNCHANGED <<default, limit>>
  BY Zenon DEF Step, Track
<1>1. Runs(w, "budget") /\ Phase(w)
  BY <1>0, Zenon DEF Runs, Fits, Phases
<1>2. Tenanted(w) /\ Applied(Tools, job[w].cfg) /\ default = job[w].cfg.default
  BY <1>0, <1>1, Zenon DEF Phase
<1>3. CASE job[w].pc = "trackTenants"
  <2>1. /\ job'[w].domain = job[w].domain /\ job'[w].cfg = job[w].cfg /\ job'[w].pc = "trackTools"
        /\ previous'.tenants = Overridden(job[w].cfg, Tenants)
    BY <1>3 DEF Track, To, TypeOK
  <2>2. Left(Tenants, previous.tenants)'
    BY <1>0, <1>2, <2>1, Scopes DEF Left, Tenanted, Applied
  <2>3. Tenanted(w)' /\ Applied(Tools, job[w].cfg)'
    BY <1>0, <1>2, <2>1, Zenon DEF Tenanted, Applied
  <2>4. Phase(w)' /\ Runs(w, "budget")'
    BY <1>0, <1>1, <1>2, <2>1, <2>2, <2>3, Zenon DEF Phase, Runs
  <2> QED
    BY <1>0, <1>1, <2>4, OnePhase, Zenon
<1>4. CASE job[w].pc = "trackTools"
  <2>1. /\ job'[w].pc = "idle" /\ previous'.tenants = previous.tenants
        /\ previous'.tools = Overridden(job[w].cfg, Tools)
    BY <1>4 DEF Track, Idle, TypeOK
  <2>2. Left(Tenants, previous.tenants)
    BY <1>1, <1>4, Zenon DEF Phase
  <2>3. Left(Tenants, previous.tenants)'
    BY <1>0, <2>1, <2>2, Zenon DEF Left
  <2>4. Left(Tools, previous.tools)'
    BY <1>0, <1>2, <2>1, Scopes DEF Left, Applied
  <2>5. ~ Runs(w, "budget")'
    BY <2>1, Zenon DEF Runs
  <2> QED
    BY <1>0, <1>1, <2>3, <2>4, <2>5, OnePhase, Zenon
<1> QED
  BY <1>0, <1>3, <1>4, Zenon

LEMMA PhasesStep ==
  ASSUME TypeOK, Fits, Alone, Phases, NEW w \in Reloaders, Step(w)
  PROVE  Phases'
<1>1. CASE Swap(w) \/ BuildPolicyInfo(w) \/ SwapInfo(w)
  <2>1. job[w].pc \in {"swap", "info", "swapInfo"} /\ UNCHANGED <<default, limit, previous>>
    BY <1>1, Zenon DEF Swap, BuildPolicyInfo, SwapInfo
  <2>2. ~ Runs(w, "budget")
    BY <2>1, Zenon DEF Fits, Runs
  <2> QED
    BY <2>1, <2>2, PhasesApart, Zenon
<1> QED
  BY <1>1, PhasesDefault, PhasesClear, PhasesSet, PhasesLoop, PhasesTrack, Zenon DEF Step

-----------------------------------------------------------------------------
\* A step of the system is one of an operator or of the watcher's timer, the
\* start of a call, or a step of a call.
Elsewhere ==
  /\ UNCHANGED <<engine, authorizer, info, default, limit, previous, job, overlap>>
  /\ \A k \in 1..3 : Settled(k)' => Settled(k) /\ file' = file

Called(w, d) ==
  /\ Starts(w, d) /\ UNCHANGED <<file, engine, authorizer, info, default, limit, previous>>
  /\ \A k \in 1..3 : Settled(k)' => Settled(k) \/ d = Domains[k]

LEMMA Kinds ==
  ASSUME TypeOK, [Next]_vars
  PROVE  \/ Elsewhere
         \/ \E w \in Reloaders, d \in {"policy", "rbac", "budget"} : Called(w, d)
         \/ \E w \in Reloaders : Step(w)
<1>1. ASSUME NEW v \in Configs, Edit(v) PROVE Elsewhere
  BY <1>1, Zenon DEF Edit, Elsewhere, Settled
<1>2. ASSUME NEW h \in Handlers, NEW d \in {"policy", "rbac", "budget"}, HandleReload(h, d)
      PROVE  h \in Reloaders /\ Called(h, d)
  BY <1>2, Zenon DEF HandleReload, Called, Starts, Settled, Reloaders
<1>3. CASE Notice
  BY <1>3 DEF Notice, Elsewhere, Settled
<1>4. CASE CallClosure
  <2>1. Watcher \in Reloaders /\ Domains[round] \in {"policy", "rbac", "budget"}
    BY <1>4 DEF CallClosure, Reloaders, Domains
  <2>2. ASSUME NEW k \in 1..3, Settled(k)' PROVE Settled(k) \/ Domains[round] = Domains[k]
    <3>1. ~ event /\ file.valid /\ round + 1 > k /\ round \in 1..3
      BY <1>4, <2>2 DEF CallClosure, Settled
    <3>2. round > k \/ round = k
      BY <3>1
    <3> QED
      BY <3>1, <3>2, Zenon DEF Settled
  <2>3. Called(Watcher, Domains[round])
    BY <1>4, <2>2, Zenon DEF CallClosure, Called, Starts
  <2> QED
    BY <2>1, <2>3, Zenon
<1>5. CASE EndRound
  BY <1>5 DEF EndRound, Elsewhere, Settled
<1>6. CASE UNCHANGED vars
  BY <1>6, Zenon DEF vars, Elsewhere, Settled
<1> QED
  BY <1>1, <1>2, <1>3, <1>4, <1>5, <1>6, Zenon DEF Next, WatchStep

LEMMA AloneCalled ==
  ASSUME TypeOK, Alone, NEW w \in Reloaders, NEW d \in {"policy", "rbac", "budget"}, Starts(w, d),
         ~ overlap'
  PROVE  Alone'
<1> SUFFICES ASSUME NEW e \in {"policy", "rbac", "budget"}, NEW u \in Reloaders, NEW v \in Reloaders,
                    Runs(u, e)', Runs(v, e)'
             PROVE  u = v
  BY Zenon DEF Alone
<1>1. \A x \in Reloaders : ~ Runs(x, d)
  BY Zenon DEF Starts, Running, Runs
<1>2. \A x \in Reloaders : Runs(x, e)' <=> Runs(x, e) \/ (x = w /\ e = d /\ file.valid)
  BY Loading
<1>3. CASE e = d
  <2>1. Runs(u, d)' /\ Runs(v, d)' /\ ~ Runs(u, d) /\ ~ Runs(v, d)
    BY <1>1, <1>3, Zenon
  <2>2. u = w /\ v = w
    BY <1>2, <1>3, <2>1, Zenon
  <2> QED
    BY <2>2, Zenon
<1>4. CASE e # d
  BY <1>2, <1>4, Zenon DEF Alone
<1> QED
  BY <1>3, <1>4, Zenon

LEMMA AloneStep ==
  ASSUME TypeOK, Fits, Alone, NEW w \in Reloaders, Step(w)
  PROVE  Alone'
BY RunsStep, ZenonT(60), Zenon DEF Alone

\* A call that starts while the file is settled applies the file.
LEMMA CalledCurrent ==
  ASSUME TypeOK, NEW w \in Reloaders, NEW d \in {"policy", "rbac", "budget"}, Called(w, d),
         ~ overlap', NEW k \in 1..3, Settled(k)'
  PROVE  /\ d = Domains[k] =>
              \A v \in Reloaders : Runs(v, d)' <=> v = w
         /\ d = Domains[k] => job'[w].cfg = file /\ (d # "budget" => job'[w].pc = "swap")
         /\ d # Domains[k] => /\ Settled(k)
                              /\ \A v \in Reloaders : Runs(v, Domains[k])' <=> Runs(v, Domains[k])
         /\ \A v \in Reloaders : d # Domains[k] /\ Runs(v, Domains[k]) => job'[v] = job[v]
<1>1. file.valid /\ file' = file /\ Starts(w, d)
  BY Zenon DEF Settled, Called
<1>2. Domains[k] \in {"policy", "rbac", "budget"}
  BY DEF Domains
<1>3. \A v \in Reloaders : ~ Runs(v, d)
  BY <1>1, Zenon DEF Starts, Running, Runs
<1>4. ASSUME d # Domains[k] PROVE Settled(k)
  BY <1>4, Zenon DEF Called
<1>5. \A e \in {"policy", "rbac", "budget"} : ~ Runs(w, e)
  BY <1>1, Zenon DEF Starts, Runs
<1> QED
  <2>1. \A v \in Reloaders : Runs(v, Domains[k])' <=> Runs(v, Domains[k]) \/ (v = w /\ Domains[k] = d)
    <3> DEFINE e == Domains[k]
    <3>1. e \in {"policy", "rbac", "budget"}
      BY <1>2, Zenon
    <3> HIDE DEF e
    <3>2. \A v \in Reloaders : Runs(v, e)' <=> Runs(v, e) \/ (v = w /\ e = d)
      BY <1>1, <3>1, Loading
    <3> QED
      BY <3>2, Zenon DEF e
  <2>2. d = Domains[k] => \A v \in Reloaders : Runs(v, d)' <=> v = w
    BY <1>3, <2>1, Zenon
  <2>3. job'[w].cfg = file /\ (d # "budget" => job'[w].pc = "swap")
    BY <1>1, Loading, ZenonT(60), Zenon
  <2>4. \A v \in Reloaders : Runs(v, Domains[k]) => job'[v] = job[v]
    BY <1>1, <1>2, <1>5, Loading, ZenonT(60), Zenon
  <2> QED
    BY <1>4, <2>1, <2>2, <2>3, <2>4, Zenon

LEMMA CurrentCalled ==
  ASSUME TypeOK, PolicyCurrent, RbacCurrent, BudgetCurrent,
         NEW w \in Reloaders, NEW d \in {"policy", "rbac", "budget"}, Called(w, d), ~ overlap'
  PROVE  PolicyCurrent' /\ RbacCurrent' /\ BudgetCurrent'
<1>0. UNCHANGED <<file, engine, authorizer, info, default, limit>>
  BY Zenon DEF Called
<1>1. ASSUME Settled(1)' PROVE PolicyCurrent'
  <2>1. 1 \in 1..3 /\ Domains[1] = "policy"
    BY DEF Domains
  <2>2. CASE d = "policy"
    <3>1. /\ \A v \in Reloaders : Runs(v, "policy")' <=> v = w
          /\ job'[w].cfg = file /\ job'[w].pc = "swap"
      BY <1>1, <2>1, <2>2, CalledCurrent, Zenon
    <3> QED
      BY <1>0, <3>1, Zenon DEF PolicyCurrent, Running, Runs
  <2>3. CASE d # "policy"
    <3>1. /\ Settled(1) /\ \A v \in Reloaders : Runs(v, "policy")' <=> Runs(v, "policy")
          /\ \A v \in Reloaders : Runs(v, "policy") => job'[v] = job[v]
      BY <1>1, <2>1, <2>3, CalledCurrent
    <3> QED
      BY <1>0, <3>1, Zenon DEF PolicyCurrent, Running, Runs
  <2> QED
    BY <2>2, <2>3, Zenon
<1>2. ASSUME Settled(2)' PROVE RbacCurrent'
  <2>1. 2 \in 1..3 /\ Domains[2] = "rbac"
    BY DEF Domains
  <2>2. CASE d = "rbac"
    <3>1. /\ \A v \in Reloaders : Runs(v, "rbac")' <=> v = w
          /\ job'[w].cfg = file
      BY <1>2, <2>1, <2>2, CalledCurrent, Zenon
    <3> QED
      BY <1>0, <3>1, Zenon DEF RbacCurrent, Running, Runs
  <2>3. CASE d # "rbac"
    <3>1. /\ Settled(2) /\ \A v \in Reloaders : Runs(v, "rbac")' <=> Runs(v, "rbac")
          /\ \A v \in Reloaders : Runs(v, "rbac") => job'[v] = job[v]
      BY <1>2, <2>1, <2>3, CalledCurrent
    <3> QED
      BY <1>0, <3>1, Zenon DEF RbacCurrent, Running, Runs
  <2> QED
    BY <2>2, <2>3, Zenon
<1>3. ASSUME Settled(3)' PROVE BudgetCurrent'
  <2>1. 3 \in 1..3 /\ Domains[3] = "budget"
    BY DEF Domains
  <2>2. CASE d = "budget"
    <3>1. /\ \A v \in Reloaders : Runs(v, "budget")' <=> v = w
          /\ job'[w].cfg = file
      BY <1>3, <2>1, <2>2, CalledCurrent
    <3> QED
      BY <1>0, <3>1, Zenon DEF BudgetCurrent, Running, Runs
  <2>3. CASE d # "budget"
    <3>1. /\ Settled(3) /\ \A v \in Reloaders : Runs(v, "budget")' <=> Runs(v, "budget")
          /\ \A v \in Reloaders : Runs(v, "budget") => job'[v] = job[v]
      BY <1>3, <2>1, <2>3, CalledCurrent
    <3> QED
      BY <1>0, <3>1, Zenon DEF BudgetCurrent, Running, Runs, InForce
  <2> QED
    BY <2>2, <2>3, Zenon
<1> QED
  BY <1>1, <1>2, <1>3, Zenon DEF PolicyCurrent, RbacCurrent, BudgetCurrent

\* What a step of a call changes of what is in force.
LEMMA Touches ==
  ASSUME TypeOK, Fits, NEW w \in Reloaders, Step(w)
  PROVE  /\ ~ Runs(w, "policy") => UNCHANGED <<engine, info>>
         /\ ~ Runs(w, "rbac") => UNCHANGED authorizer
         /\ ~ Runs(w, "budget") => UNCHANGED <<default, limit>>
<1>1. CASE Swap(w)
  BY <1>1, Zenon DEF Swap, Fits, Runs
<1>2. CASE BuildPolicyInfo(w)
  BY <1>2, Zenon DEF BuildPolicyInfo
<1>3. CASE SwapInfo(w)
  BY <1>3, Zenon DEF SwapInfo, Fits, Runs
<1>4. CASE SetDefaultLimit(w)
  BY <1>4, Zenon DEF SetDefaultLimit, Fits, Runs
<1>5. CASE NextLoop(w)
  BY <1>5, Zenon DEF NextLoop
<1>6. CASE Track(w)
  BY <1>6, Zenon DEF Track
<1>7. ASSUME NEW n \in Names, ClearLimit(w, n) \/ SetLimit(w, n)
      PROVE  job[w].pc \in {"clearTenants", "setTenants", "clearTools", "setTools"} /\ UNCHANGED <<engine, info, authorizer>>
  BY <1>7, Zenon DEF ClearLimit, SetLimit
<1>8. CASE \E n \in Names : ClearLimit(w, n) \/ SetLimit(w, n)
  BY <1>7, <1>8, Zenon DEF Fits, Runs
<1> QED
  BY <1>1, <1>2, <1>3, <1>4, <1>5, <1>6, <1>8, Zenon DEF Step

\* While a call of a closure is alone, no other call of it runs after its step.
LEMMA AlsoAlone ==
  ASSUME TypeOK, Fits, Alone, NEW w \in Reloaders, Step(w),
         NEW d \in {"policy", "rbac", "budget"}, Runs(w, d)
  PROVE  \A v \in Reloaders : Runs(v, d)' => v = w
BY RunsStep, Zenon DEF Alone

LEMMA OthersRun ==
  ASSUME TypeOK, Fits, NEW w \in Reloaders, Step(w),
         NEW d \in {"policy", "rbac", "budget"}, ~ Runs(w, d)
  PROVE  /\ \A v \in Reloaders : Runs(v, d)' <=> Runs(v, d)
         /\ \A v \in Reloaders : Runs(v, d) => job'[v] = job[v]
<1>1. \A v \in Reloaders : Runs(v, d)' <=> Runs(v, d)
  BY RunsStep, Zenon
<1> QED
  BY <1>1, Stepping, Zenon

LEMMA PolicyStep ==
  ASSUME TypeOK, Fits, Alone, PolicyCurrent, NEW w \in Reloaders, Step(w)
  PROVE  PolicyCurrent'
<1> SUFFICES ASSUME Settled(1)' PROVE PolicyCurrent'
  BY Zenon DEF PolicyCurrent
<1>1. Settled(1) /\ file' = file
  BY Stepping, Zenon DEF Settled
<1>2. CASE ~ Runs(w, "policy")
  <2>1. UNCHANGED <<engine, info>>
    BY <1>2, Touches, Zenon
  <2>2. /\ \A v \in Reloaders : Runs(v, "policy")' <=> Runs(v, "policy")
        /\ \A v \in Reloaders : Runs(v, "policy") => job'[v] = job[v]
    BY <1>2, OthersRun, Zenon
  <2> QED
    BY <1>1, <2>1, <2>2, Zenon DEF PolicyCurrent, Running, Runs
<1>3. CASE Runs(w, "policy")
  <2>1. /\ job[w].pc # "info" => job[w].cfg = file
        /\ job[w].pc # "swap" => engine = file
    BY <1>1, <1>3, Zenon DEF PolicyCurrent
  <2>2. \A v \in Reloaders : Runs(v, "policy")' => v = w
    BY <1>3, AlsoAlone, Zenon
  <2>3. /\ job'[w].pc \notin {"idle", "info"} => job'[w].cfg = file
        /\ job'[w].pc # "swap" => engine' = file
        /\ job'[w].pc = "idle" => info' = file
        /\ job'[w].pc # "idle" => job'[w].domain = "policy"
    <3>1. CASE Swap(w)
      BY <1>3, <2>1, <3>1 DEF Swap, To, Runs, TypeOK
    <3>2. CASE BuildPolicyInfo(w)
      BY <2>1, <3>2, Zenon DEF BuildPolicyInfo, TypeOK
    <3>3. CASE SwapInfo(w)
      BY <2>1, <3>3, Zenon DEF SwapInfo, Idle, TypeOK
    <3>4. CASE ~ (Swap(w) \/ BuildPolicyInfo(w) \/ SwapInfo(w))
      <4>1. job[w].pc \in {"default", "clearTenants", "setTenants", "clearTools", "setTools",
                           "trackTenants", "trackTools"}
        BY <3>4, Zenon DEF Step, SetDefaultLimit, NextLoop, Track, ClearLimit, SetLimit
      <4> QED
        BY <1>3, <4>1, Zenon DEF Fits, Runs
    <3> QED
      BY <3>1, <3>2, <3>3, <3>4, Zenon
  <2>4. ~ Running("policy")' => job'[w].pc = "idle"
    BY <2>3, Zenon DEF Running
  <2> QED
    BY <1>1, <2>2, <2>3, <2>4, Zenon DEF PolicyCurrent, Runs
<1> QED
  BY <1>2, <1>3, Zenon

LEMMA RbacStep ==
  ASSUME TypeOK, Fits, Alone, RbacCurrent, NEW w \in Reloaders, Step(w)
  PROVE  RbacCurrent'
<1> SUFFICES ASSUME Settled(2)' PROVE RbacCurrent'
  BY Zenon DEF RbacCurrent
<1>1. Settled(2) /\ file' = file
  BY Stepping, Zenon DEF Settled
<1>2. CASE ~ Runs(w, "rbac")
  <2>1. UNCHANGED authorizer
    BY <1>2, Touches, Zenon
  <2>2. /\ \A v \in Reloaders : Runs(v, "rbac")' <=> Runs(v, "rbac")
        /\ \A v \in Reloaders : Runs(v, "rbac") => job'[v] = job[v]
    BY <1>2, OthersRun, Zenon
  <2> QED
    BY <1>1, <2>1, <2>2, Zenon DEF RbacCurrent, Running, Runs
<1>3. CASE Runs(w, "rbac")
  <2>1. job[w].cfg = file
    BY <1>1, <1>3, Zenon DEF RbacCurrent
  <2>2. \A v \in Reloaders : Runs(v, "rbac")' => v = w
    BY <1>3, AlsoAlone, Zenon
  <2>3. Swap(w)
    BY <1>3, Zenon DEF Fits, Runs, Step, BuildPolicyInfo, SwapInfo, SetDefaultLimit, NextLoop,
                       Track, ClearLimit, SetLimit
  <2>4. job'[w].pc = "idle" /\ authorizer' = file
    BY <1>3, <2>1, <2>3 DEF Swap, Runs, Idle, TypeOK
  <2> QED
    BY <1>1, <2>2, <2>4, Zenon DEF RbacCurrent, Runs
<1> QED
  BY <1>2, <1>3, Zenon

LEMMA BudgetStep ==
  ASSUME TypeOK, Fits, Alone, Phases, BudgetCurrent, NEW w \in Reloaders, Step(w)
  PROVE  BudgetCurrent'
<1> SUFFICES ASSUME Settled(3)' PROVE BudgetCurrent'
  BY Zenon DEF BudgetCurrent
<1>1. Settled(3) /\ file' = file
  BY Stepping, Zenon DEF Settled
<1>2. CASE ~ Runs(w, "budget")
  <2>1. UNCHANGED <<default, limit>>
    BY <1>2, Touches, Zenon
  <2>2. /\ \A v \in Reloaders : Runs(v, "budget")' <=> Runs(v, "budget")
        /\ \A v \in Reloaders : Runs(v, "budget") => job'[v] = job[v]
    BY <1>2, OthersRun, Zenon
  <2> QED
    BY <1>1, <2>1, <2>2, Zenon DEF BudgetCurrent, Running, Runs, InForce
<1>3. CASE Runs(w, "budget")
  <2>1. job[w].cfg = file /\ Phase(w)
    BY <1>1, <1>3, Zenon DEF BudgetCurrent, Phases
  <2>2. \A v \in Reloaders : Runs(v, "budget")' => v = w
    BY <1>3, AlsoAlone, Zenon
  <2>3. CASE Track(w) /\ job[w].pc = "trackTools"
    <3>1. /\ job'[w].pc = "idle" /\ UNCHANGED <<default, limit>>
          /\ Applied(Tenants, file) /\ Applied(Tools, file) /\ default = file.default
      BY <2>1, <2>3 DEF Track, Idle, TypeOK, Phase, Tenanted
    <3>2. limit = file.limit
      <4>1. \A n \in Names : limit[n] = file.limit[n]
        BY <3>1, Zenon DEF Applied, Names
      <4>2. limit = [n \in Names |-> limit[n]] /\ file.limit = [n \in Names |-> file.limit[n]]
        BY ReloadAssumption, Zenon DEF TypeOK
      <4> QED
        BY <4>1, <4>2, Zenon
    <3> QED
      BY <1>1, <2>2, <3>1, <3>2, Zenon DEF BudgetCurrent, InForce, Runs
  <2>4. CASE ~ (Track(w) /\ job[w].pc = "trackTools")
    <3>1. job'[w].pc # "idle" /\ job'[w].domain = job[w].domain /\ job'[w].cfg = job[w].cfg
      <4>1. CASE SetDefaultLimit(w)
        BY <4>1, Zenon DEF SetDefaultLimit, To, TypeOK
      <4>2. CASE NextLoop(w)
        BY <4>2 DEF NextLoop, To, TypeOK
      <4>3. CASE Track(w)
        BY <2>4, <4>3 DEF Track, To, TypeOK
      <4>4. CASE \E n \in Names : ClearLimit(w, n) \/ SetLimit(w, n)
        BY <4>4 DEF ClearLimit, SetLimit, To, TypeOK
      <4>5. CASE Swap(w) \/ BuildPolicyInfo(w) \/ SwapInfo(w)
        BY <1>3, <4>5, Zenon DEF Swap, BuildPolicyInfo, SwapInfo, Fits, Runs
      <4> QED
        BY <4>1, <4>2, <4>3, <4>4, <4>5, Zenon DEF Step
    <3>2. Runs(w, "budget")' /\ Running("budget")'
      BY <1>3, <3>1, Zenon DEF Running, Runs
    <3> QED
      BY <1>1, <2>1, <2>2, <3>1, <3>2, Zenon DEF BudgetCurrent
  <2> QED
    BY <2>3, <2>4, Zenon
<1> QED
  BY <1>2, <1>3, Zenon

-----------------------------------------------------------------------------
LEMMA ReloadInvInit == Init => ReloadInv
<1> SUFFICES ASSUME Init PROVE ReloadInv
  OBVIOUS
<1>1. TypeOK
  <2>1. InitialConfig.limit \in [Names -> Limits]
    <3>1. \A n \in Names : InitialConfig.limit[n] \in Limits
      BY ReloadAssumption DEF Limits
    <3>2. InitialConfig.limit = [n \in Names |-> InitialConfig.limit[n]]
      BY ReloadAssumption, Zenon
    <3> QED
      BY <3>1, <3>2, Zenon
  <2>2. previous \in [tenants : SUBSET Tenants, tools : SUBSET Tools]
    BY Zenon DEF Init, Overridden
  <2>3. job \in [Reloaders -> Jobs]
    BY ReloadAssumption, Zenon DEF Init, Idle, Jobs, PCs
  <2>4. edits \in 0..MaxEdits /\ round \in 0..4
    BY ReloadAssumption DEF Init
  <2>5. default \in {c.default : c \in Configs}
    BY ReloadAssumption, Zenon DEF Init
  <2> QED
    BY <2>1, <2>2, <2>3, <2>4, <2>5, ReloadAssumption, Zenon DEF TypeOK, Init
<1>2. \A w \in Reloaders : job[w].pc = "idle"
  BY Zenon DEF Init, Idle
<1>3. \A d : ~ Running(d) /\ \A w \in Reloaders : ~ Runs(w, d)
  BY <1>2, Zenon DEF Running, Runs
<1>4. Left(Tenants, previous.tenants) /\ Left(Tools, previous.tools)
  BY Zenon DEF Init, Left, Overridden
<1>5. Fits
  BY <1>2, Zenon DEF Fits
<1> QED
  BY <1>1, <1>3, <1>4, <1>5, Zenon
     DEF ReloadInv, Alone, Phases, PolicyCurrent, RbacCurrent, BudgetCurrent, InForce, Init

LEMMA ReloadInvStep == ReloadInv /\ [Next]_vars => ReloadInv'
<1> SUFFICES ASSUME ReloadInv, [Next]_vars PROVE ReloadInv'
  OBVIOUS
<1>0. TypeOK /\ Fits /\ TypeOK'
  BY TypeStep, Zenon DEF ReloadInv
<1> DEFINE Rest == Alone /\ Phases /\ PolicyCurrent /\ RbacCurrent /\ BudgetCurrent
<1>1. CASE Elsewhere
  <2>1. Fits'
    BY <1>0, <1>1, Zenon DEF Elsewhere, Fits
  <2>2. ASSUME ~ overlap' PROVE Rest'
    <3>0. Rest /\ UNCHANGED <<engine, authorizer, info, default, limit, previous, job>>
      BY <1>1, <2>2, Zenon DEF Elsewhere, ReloadInv
    <3>1. Alone'
      BY <3>0, Zenon DEF Alone, Runs
    <3>2. Phases'
      BY <3>0, SamePhase, SameLeft, Zenon DEF Phases, Running, Runs
    <3>3. 1 \in 1..3 /\ 2 \in 1..3 /\ 3 \in 1..3
      OBVIOUS
    <3>4. \A k \in 1..3 : Settled(k)' => Settled(k) /\ file' = file
      BY <1>1, Zenon DEF Elsewhere
    <3>5. PolicyCurrent'
      BY <3>0, <3>3, <3>4, Zenon DEF PolicyCurrent, Running, Runs
    <3>6. RbacCurrent'
      BY <3>0, <3>3, <3>4, Zenon DEF RbacCurrent, Running, Runs
    <3>7. BudgetCurrent'
      BY <3>0, <3>3, <3>4, Zenon DEF BudgetCurrent, Running, Runs, InForce
    <3> QED
      BY <3>1, <3>2, <3>5, <3>6, <3>7, Zenon
  <2> QED
    BY <1>0, <2>1, <2>2, Zenon DEF ReloadInv
<1>2. ASSUME NEW w \in Reloaders, NEW d \in {"policy", "rbac", "budget"}, Called(w, d)
      PROVE  ReloadInv'
  <2>0. Starts(w, d) /\ UNCHANGED <<default, limit, previous>>
    BY <1>2, Zenon DEF Called
  <2>1. Fits'
    <3>1. ASSUME NEW v \in Reloaders, v # w PROVE job'[v] = job[v]
      BY <1>0, <2>0, <3>1, Loading, Zenon
    <3>2. \/ job'[w].pc = "idle"
          \/ job'[w].domain = d /\ IF d = "budget" THEN job'[w].pc = "default" ELSE job'[w].pc = "swap"
      BY <1>0, <2>0, Loading, ZenonT(30)
    <3> QED
      BY <1>0, <3>1, <3>2, Zenon DEF Fits
  <2>2. ASSUME ~ overlap' PROVE Rest'
    <3>0. Rest
      BY <2>0, <2>2, Zenon DEF Starts, ReloadInv
    <3> QED
      BY <1>0, <1>2, <2>0, <2>2, <3>0, AloneCalled, PhasesStart, CurrentCalled, Zenon
  <2> QED
    BY <1>0, <2>1, <2>2, Zenon DEF ReloadInv
<1>3. ASSUME NEW w \in Reloaders, Step(w) PROVE ReloadInv'
  <2>1. Fits' /\ overlap' = overlap
    BY <1>0, <1>3, FitsStep, Stepping, Zenon
  <2>2. ASSUME ~ overlap PROVE Rest'
    <3>0. Rest
      BY <2>2, Zenon DEF ReloadInv
    <3> QED
      BY <1>0, <1>3, <3>0, AloneStep, PhasesStep, PolicyStep, RbacStep, BudgetStep, Zenon
  <2> QED
    BY <1>0, <2>1, <2>2, Zenon DEF ReloadInv
<1> QED
  BY <1>0, <1>1, <1>2, <1>3, Kinds, Zenon

LEMMA ReloadInvHolds == Spec => []ReloadInv
BY ReloadInvInit, ReloadInvStep, PTL DEF Spec

(* What is in force always came from the files: the type invariant.        *)
THEOREM ReloadTypeCorrect == Spec => []TypeOK
BY ReloadInvHolds, PTL DEF ReloadInv

(* No edit is missed: when the closures are done and no event is queued,   *)
(* the engine, the authorizer, the limits and what the dashboard shows are *)
(* the file's, if no two calls of one closure overlapped.                  *)
THEOREM FilesInForce == Spec => []FileInForce
<1>1. ReloadInv => FileInForce
  <2> SUFFICES ASSUME ReloadInv, Quiet, file.valid, ~ overlap
               PROVE  engine = file /\ info = file /\ authorizer = file /\ InForce(file)
    BY Zenon DEF FileInForce
  <2>1. \A k \in 1..3 : Settled(k)
    BY Zenon DEF Quiet, Settled
  <2>2. Settled(1) /\ Settled(2) /\ Settled(3)
    BY <2>1
  <2>3. \A d : ~ Running(d)
    BY Zenon DEF Quiet, Running
  <2> QED
    BY <2>2, <2>3, Zenon DEF ReloadInv, PolicyCurrent, RbacCurrent, BudgetCurrent
<1> QED
  BY <1>1, ReloadInvHolds, PTL

(* newBudgetReloadFn leaves no "stale leftover": without overlapping calls *)
(* the overrides in force between reloads are those that the next one will *)
(* compare with the new config.                                            *)
THEOREM NoneOrphaned == Spec => []NoOrphans
<1>1. ReloadInv => NoOrphans
  <2> SUFFICES ASSUME ReloadInv, ~ overlap, Quiet, NEW n \in Names, limit[n] # NoLimit
               PROVE  n \in previous.tenants \union previous.tools
    BY Zenon DEF NoOrphans, OverridesTracked
  <2>1. ~ Running("budget")
    BY Zenon DEF Quiet, Running
  <2> QED
    BY <2>1, Zenon DEF ReloadInv, Phases, Left, Names
<1> QED
  BY <1>1, ReloadInvHolds, PTL

(* A reload opens no gap: without overlapping calls an override that both  *)
(* the old and the new config have stays in force throughout, whichever    *)
(* loop of the closure is under way.                                       *)
THEOREM NoGapOpens == Spec => []NoGap
<1>1. ReloadInv => NoGap
  <2> SUFFICES ASSUME ReloadInv, ~ overlap, NEW n \in previous.tenants \union previous.tools,
                      \A w \in Reloaders : Runs(w, "budget") => n \in Overridden(job[w].cfg, Names)
               PROVE  limit[n] # NoLimit
    BY Zenon DEF NoGap, Runs
  <2>1. TypeOK /\ Phases /\ Fits
    BY Zenon DEF ReloadInv
  <2>2. CASE ~ Running("budget")
    BY <2>1, <2>2, Zenon DEF Phases, Left, TypeOK
  <2>3. ASSUME NEW w \in Reloaders, Runs(w, "budget") PROVE limit[n] # NoLimit
    <3>1. Phase(w) /\ job[w].cfg.limit[n] # NoLimit
      BY <2>1, <2>3, Zenon DEF Phases, Overridden
    <3>2. job[w].pc \in PCs \ {"idle", "swap", "info", "swapInfo"}
      BY <2>1, <2>3, Zenon DEF Fits, Runs, TypeOK, Jobs
    <3>3. /\ n \in Tenants \/ n \in Tools
          /\ n \in previous.tenants => n \in Tenants
          /\ n \in previous.tools => n \in Tools
          /\ n \in Tenants => n \notin Tools
          /\ n \in previous.tenants \/ n \in previous.tools
      BY <2>1, Scopes, Zenon
    <3>4. ASSUME NEW scope, NEW old, NEW todo, n \in scope, n \in old,
                 \/ Left(scope, old)
                 \/ Clearing(scope, old, job[w].cfg, todo)
                 \/ Setting(scope, old, job[w].cfg, todo)
                 \/ Applied(scope, job[w].cfg)
          PROVE  limit[n] # NoLimit
      BY <3>1, <3>4, Zenon DEF Left, Clearing, Setting, Applied
    <3>5. /\ \/ Left(Tenants, previous.tenants)
             \/ Clearing(Tenants, previous.tenants, job[w].cfg, job[w].todo)
             \/ Setting(Tenants, previous.tenants, job[w].cfg, job[w].todo)
             \/ Applied(Tenants, job[w].cfg)
          /\ \/ Left(Tools, previous.tools)
             \/ Clearing(Tools, previous.tools, job[w].cfg, job[w].todo)
             \/ Setting(Tools, previous.tools, job[w].cfg, job[w].todo)
             \/ Applied(Tools, job[w].cfg)
      BY <3>1, <3>2, Zenon DEF Phase, Tenanted, PCs
    <3> QED
      BY <3>3, <3>4, <3>5, Zenon
  <2> QED
    BY <2>2, <2>3, Zenon DEF Running, Runs
<1> QED
  BY <1>1, ReloadInvHolds, PTL
=============================================================================
