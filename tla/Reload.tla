------------------------------- MODULE Reload -------------------------------
(***************************************************************************)
(* Hot reload of the policy, the RBAC authorizer and the budget limits:    *)
(* the closures of newPolicyReloadFn, newRBACReloadFn and                  *)
(* newBudgetReloadFn, called by the file watcher's goroutine and by the    *)
(* dashboard's handlers, with nothing that keeps two calls apart.          *)
(*                                                                         *)
(* A closure reads the file once and then applies what it read.  Policy    *)
(* and RBAC swap one pointer; the policy closure then reads the file again *)
(* for what the dashboard shows.  The budget closure updates the running   *)
(* limiter one override at a time, and clears the overrides of the config  *)
(* it applied last that the new one no longer has.                         *)
(***************************************************************************)
EXTENDS Naturals

CONSTANTS Handlers,          \* dashboard requests
          Watcher,           \* the goroutine of WatchFiles
          Tenants, Tools,    \* what an override can be for
          NoLimit,
          Configs,           \* the contents the files can have: records
                             \*   [valid, default, limit : [Names -> ...]]
          InitialConfig,     \* what the process started with
          MaxEdits           \* bound: how often the files change

Reloaders == Handlers \union {Watcher}
Names     == Tenants \union Tools
Limits    == {NoLimit} \union UNION {{c.limit[n] : n \in Names} : c \in Configs}
Overridden(c, scope) == {n \in scope : c.limit[n] # NoLimit}

ASSUME ReloadAssumption ==
  /\ InitialConfig \in Configs /\ InitialConfig.valid
  /\ Watcher \notin Handlers /\ Tenants \intersect Tools = {}
  /\ MaxEdits \in Nat
  /\ \A c \in Configs : c.valid \in BOOLEAN /\ c.limit = [n \in Names |-> c.limit[n]]

VARIABLES file,              \* the contents of the files
          edits,
          engine, authorizer,\* the swapped pointers: the config they came from
          info,              \* policyInfoHolder: likewise
          default, limit,    \* the limiter's default limit and overrides
          previous,          \* previousBudgetTenants and previousBudgetTools
          job,               \* the calls of a closure in progress
          event,             \* a filesystem event is queued
          round,             \* the watcher: waiting (0), timer set (1), closure
                             \* to call next (1..3), all called (4)
          overlap            \* history: have two calls of one closure overlapped?

vars == <<file, edits, engine, authorizer, info, default, limit, previous, job, event, round,
          overlap>>

Domains == <<"policy", "rbac", "budget">>
PCs == {"idle", "swap", "info", "swapInfo", "default", "clearTenants", "setTenants",
        "clearTools", "setTools", "trackTenants", "trackTools"}
Jobs == [domain : {"policy", "rbac", "budget"}, pc : PCs, cfg : Configs, todo : SUBSET Names]

TypeOK ==
  /\ file \in Configs /\ edits \in 0..MaxEdits
  /\ engine \in Configs /\ authorizer \in Configs /\ info \in Configs
  /\ default \in {c.default : c \in Configs}
  /\ limit \in [Names -> Limits]
  /\ previous \in [tenants : SUBSET Tenants, tools : SUBSET Tools]
  /\ job \in [Reloaders -> Jobs]
  /\ event \in BOOLEAN /\ round \in 0..4 /\ overlap \in BOOLEAN

Idle == [domain |-> "policy", pc |-> "idle", cfg |-> InitialConfig, todo |-> {}]

Init ==
  /\ file = InitialConfig /\ edits = 0
  /\ engine = InitialConfig /\ authorizer = InitialConfig /\ info = InitialConfig
  /\ default = InitialConfig.default /\ limit = InitialConfig.limit
  /\ previous = [tenants |-> Overridden(InitialConfig, Tenants),
                 tools   |-> Overridden(InitialConfig, Tools)]
  /\ job = [w \in Reloaders |-> Idle]
  /\ event = FALSE /\ round = 0 /\ overlap = FALSE

-----------------------------------------------------------------------------
To(w, pc, todo) ==
  job' = [job EXCEPT ![w] = [domain |-> job[w].domain, pc |-> pc, cfg |-> job[w].cfg, todo |-> todo]]

\* config.Load and the engine's constructor.  An error ends the call.
Load(w, domain, content) ==
  job' = [job EXCEPT ![w] =
            IF ~content.valid THEN Idle
            ELSE [domain |-> domain, pc |-> IF domain = "budget" THEN "default" ELSE "swap",
                  cfg |-> content, todo |-> {}]]

Running(domain) == \E w \in Reloaders : job[w].pc # "idle" /\ job[w].domain = domain

\* An operator edits a file; the watcher's event is queued.
Edit(v) ==
  /\ edits < MaxEdits /\ v # file
  /\ edits' = edits + 1 /\ file' = v /\ event' = TRUE
  /\ UNCHANGED <<engine, authorizer, info, default, limit, previous, job, round, overlap>>

\* handleReload: POST /dashboard/api/reload/{domain}.
HandleReload(h, domain) ==
  /\ job[h].pc = "idle"
  /\ Load(h, domain, file)
  /\ overlap' = (overlap \/ Running(domain))
  /\ UNCHANGED <<file, edits, engine, authorizer, info, default, limit, previous, event, round>>

\* WatchFiles: a queued event sets or resets the debounce timer...
Notice ==
  /\ event /\ round \in {0, 1}
  /\ event' = FALSE /\ round' = 1
  /\ UNCHANGED <<file, edits, engine, authorizer, info, default, limit, previous, job, overlap>>

\* ... and when it has fired the closures are called, one after the other.
CallClosure ==
  /\ round \in 1..3 /\ job[Watcher].pc = "idle"
  /\ Load(Watcher, Domains[round], file)
  /\ overlap' = (overlap \/ Running(Domains[round]))
  /\ round' = round + 1
  /\ UNCHANGED <<file, edits, engine, authorizer, info, default, limit, previous, event>>

\* Mutated form of EndRound: what was queued meanwhile is dropped.
DropsEvents ==
  /\ round = 4 /\ job[Watcher].pc = "idle"
  /\ round' = 0 /\ event' = FALSE
  /\ UNCHANGED <<file, edits, engine, authorizer, info, default, limit, previous, job, overlap>>

\* Mutated form of EndRound: it waits for the events to stop, which only it
\* takes from the queue.
WaitsForSilence ==
  /\ round = 4 /\ job[Watcher].pc = "idle" /\ ~event
  /\ round' = 0
  /\ UNCHANGED <<file, edits, engine, authorizer, info, default, limit, previous, job, event, overlap>>

EndRound ==
  /\ round = 4 /\ job[Watcher].pc = "idle"
  /\ round' = 0
  /\ UNCHANGED <<file, edits, engine, authorizer, info, default, limit, previous, job, event, overlap>>

-----------------------------------------------------------------------------
\* policyHolder.Swap and rbacHolder.Swap
Swap(w) ==
  /\ job[w].pc = "swap"
  /\ IF job[w].domain = "policy"
     THEN engine' = job[w].cfg /\ To(w, "info", {}) /\ UNCHANGED authorizer
     ELSE authorizer' = job[w].cfg /\ job' = [job EXCEPT ![w] = Idle] /\ UNCHANGED engine
  /\ UNCHANGED <<file, edits, info, default, limit, previous, event, round, overlap>>

\* buildPolicyInfo reads the policy file; it need not parse.
BuildPolicyInfo(w) ==
  /\ job[w].pc = "info"
  /\ job' = [job EXCEPT ![w] = [domain |-> "policy", pc |-> "swapInfo", cfg |-> file, todo |-> {}]]
  /\ UNCHANGED <<file, edits, engine, authorizer, info, default, limit, previous, event, round, overlap>>

SwapInfo(w) ==
  /\ job[w].pc = "swapInfo"
  /\ info' = job[w].cfg
  /\ job' = [job EXCEPT ![w] = Idle]
  /\ UNCHANGED <<file, edits, engine, authorizer, default, limit, previous, event, round, overlap>>

\* Mutated form of SetDefaultLimit: every old override is cleared, those the
\* new config keeps included.
ClearsAllFirst(w) ==
  /\ job[w].pc = "default"
  /\ default' = job[w].cfg.default
  /\ To(w, "clearTenants", previous.tenants)
  /\ UNCHANGED <<file, edits, engine, authorizer, info, limit, previous, event, round, overlap>>

SetDefaultLimit(w) ==
  /\ job[w].pc = "default"
  /\ default' = job[w].cfg.default
  /\ To(w, "clearTenants", previous.tenants \ Overridden(job[w].cfg, Tenants))
  /\ UNCHANGED <<file, edits, engine, authorizer, info, limit, previous, event, round, overlap>>

\* ClearTenantLimit, ClearToolLimit: one per round of the loop.
ClearLimit(w, n) ==
  /\ job[w].pc \in {"clearTenants", "clearTools"} /\ n \in job[w].todo
  /\ limit' = [limit EXCEPT ![n] = NoLimit]
  /\ To(w, job[w].pc, job[w].todo \ {n})
  /\ UNCHANGED <<file, edits, engine, authorizer, info, default, previous, event, round, overlap>>

\* SetTenantLimit, SetToolLimit
SetLimit(w, n) ==
  /\ job[w].pc \in {"setTenants", "setTools"} /\ n \in job[w].todo
  /\ limit' = [limit EXCEPT ![n] = job[w].cfg.limit[n]]
  /\ To(w, job[w].pc, job[w].todo \ {n})
  /\ UNCHANGED <<file, edits, engine, authorizer, info, default, previous, event, round, overlap>>

\* A loop is done and the next one starts: its range is evaluated here.
NextLoop(w) ==
  LET cfg == job[w].cfg
  IN  /\ job[w].todo = {}
      /\ \/ /\ job[w].pc = "clearTenants"
            /\ To(w, "setTenants", Overridden(cfg, Tenants))
         \/ /\ job[w].pc = "setTenants"
            /\ To(w, "clearTools", previous.tools \ Overridden(cfg, Tools))
         \/ /\ job[w].pc = "clearTools"
            /\ To(w, "setTools", Overridden(cfg, Tools))
         \/ /\ job[w].pc = "setTools"
            /\ To(w, "trackTenants", {})
      /\ UNCHANGED <<file, edits, engine, authorizer, info, default, limit, previous, event, round, overlap>>

\* Mutated form of Track: the tools of the config are not remembered.
TracksTenantsOnly(w) ==
  /\ \/ /\ job[w].pc = "trackTenants"
        /\ previous' = [previous EXCEPT !.tenants = Overridden(job[w].cfg, Tenants)]
        /\ To(w, "trackTools", {})
     \/ /\ job[w].pc = "trackTools"
        /\ previous' = previous
        /\ job' = [job EXCEPT ![w] = Idle]
  /\ UNCHANGED <<file, edits, engine, authorizer, info, default, limit, event, round, overlap>>

\* previousBudgetTenants and previousBudgetTools are assigned.
Track(w) ==
  /\ \/ /\ job[w].pc = "trackTenants"
        /\ previous' = [previous EXCEPT !.tenants = Overridden(job[w].cfg, Tenants)]
        /\ To(w, "trackTools", {})
     \/ /\ job[w].pc = "trackTools"
        /\ previous' = [previous EXCEPT !.tools = Overridden(job[w].cfg, Tools)]
        /\ job' = [job EXCEPT ![w] = Idle]
  /\ UNCHANGED <<file, edits, engine, authorizer, info, default, limit, event, round, overlap>>

Step(w) ==
  \/ Swap(w) \/ BuildPolicyInfo(w) \/ SwapInfo(w)
  \/ SetDefaultLimit(w) \/ NextLoop(w) \/ Track(w)
  \/ \E n \in Names : ClearLimit(w, n) \/ SetLimit(w, n)

WatchStep == Notice \/ CallClosure \/ EndRound

Next ==
  \/ \E v \in Configs : Edit(v)
  \/ \E h \in Handlers : \E d \in {"policy", "rbac", "budget"} : HandleReload(h, d)
  \/ WatchStep
  \/ \E w \in Reloaders : Step(w)

\* A goroutine that can take a step takes one: nothing here blocks for good,
\* and the timer fires.
Fairness == WF_vars(WatchStep) /\ \A w \in Reloaders : WF_vars(Step(w))

Spec == Init /\ [][Next]_vars /\ Fairness

-----------------------------------------------------------------------------
Quiet == round = 0 /\ ~event /\ \A w \in Reloaders : job[w].pc = "idle"

InForce(c) == default = c.default /\ limit = c.limit

(* Unless two calls of one closure overlapped: when no closure runs and no *)
(* event is queued, everything that is in force, and what the dashboard    *)
(* shows, is what a valid file says: no edit that arrives while the        *)
(* closures run is missed.                                                 *)
FileInForce ==
  Quiet /\ file.valid /\ ~overlap =>
    engine = file /\ info = file /\ authorizer = file /\ InForce(file)

(* main.go, newBudgetReloadFn: what is not in the new config "is           *)
(* explicitly cleared ... so a removed override doesn't survive as a stale *)
(* leftover forever".  When no closure runs, every override in force is    *)
(* one that the next reload will compare with the new config.              *)
OverridesTracked ==
  Quiet => \A n \in Names : limit[n] # NoLimit => n \in previous.tenants \union previous.tools

(* Unless two calls of the budget closure overlapped, no override is       *)
(* orphaned: between reloads the overrides in force are exactly those that *)
(* the next one will compare with the new config.                          *)
NoOrphans == ~overlap => OverridesTracked

(* A reload leaves no gap: unless two calls of the budget closure          *)
(* overlapped, an override that both the last config applied and the one   *)
(* being applied have is in force throughout.                              *)
NoGap ==
  ~overlap => \A n \in previous.tenants \union previous.tools :
    (\A w \in Reloaders : job[w].pc # "idle" /\ job[w].domain = "budget"
                            => n \in Overridden(job[w].cfg, Names))
      => limit[n] # NoLimit

(* An edit is eventually applied: when the files no longer change, a valid *)
(* file comes into force and stays, though the dashboard may reload it     *)
(* again and again, or two calls of a closure have overlapped.             *)
EventuallyInForce == <>[](overlap \/ (file.valid => InForce(file) /\ engine = file))

=============================================================================
