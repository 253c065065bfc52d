----------------------------- MODULE EgressPool -----------------------------
(***************************************************************************)
(* The egress pool: the routes (the server's own connection and the        *)
(* proxies of proxy.json) over which origin downloads leave, their health  *)
(* checks, the slots a download takes per route and origin host, and the   *)
(* queue of downloads waiting for a slot.                                  *)
(*                                                                         *)
(* A Route of the model is a Route OBJECT of the program: re-reading       *)
(* proxy.json keeps the object of an unchanged entry and replaces that of  *)
(* a changed one, so two objects may carry the same id, one after the      *)
(* other, and a download may still hold a slot of an object that has left  *)
(* the pool.                                                               *)
(***************************************************************************)
EXTENDS Naturals, Sequences, FiniteSets

CONSTANTS
  Hosts,          \* origin hosts
  Routes,         \* route objects the program may ever build
  Direct,         \* the object of the server's own connection
  IdOf,           \* the id of each object; < is the order of localeCompare
  Broken,         \* objects with a configError: no dispatcher, never checked
  Tasks,          \* downloads, each acquiring and releasing over and over
  Checkers,       \* concurrent callers of check(): startup, interval, users
  Patchers,       \* concurrent PATCH requests of the settings page
  Ips, Latencies, \* what a passed check can measure
  MaxConcurrency, \* bound: the largest concurrency a user sets
  MaxFailures,    \* MAX_CONSECUTIVE_FAILURES
  StoredAtStart,  \* possible contents of proxy-settings.json at startup
  None            \* no route, no checker, no ip, no avoided id

Ids == {IdOf[r] : r \in Routes}
Settings == [enabled : BOOLEAN, concurrency : 1..MaxConcurrency]
Outcomes == {"ok", "failed", "network-error"}

ASSUME PoolAssumption ==
  /\ Direct \in Routes
  /\ IdOf \in [Routes -> Nat]
  /\ \A r \in Routes : IdOf[r] = IdOf[Direct] => r = Direct
  /\ Broken \subseteq Routes \ {Direct}
  /\ Latencies \subseteq Nat
  /\ MaxConcurrency \in Nat \ {0}
  /\ MaxFailures \in Nat \ {0}
  /\ StoredAtStart \subseteq [Ids -> Settings]
  /\ None \notin Routes \cup Checkers \cup Ips \cup Nat

VARIABLES
  routes,    \* this.routes, the objects of the current configuration
  made,      \* every object built so far (an object is built once)
  settings,  \* route.settings
  stored,    \* this.storedSettings, by id
  health,    \* route.health
  failures,  \* route.stats.consecutiveFailures, saturating at MaxFailures
  active,    \* the routes with inactiveReason === null
  inFlight,  \* route.inFlightByHost
  waiters,   \* this.waiters: per host, the queued downloads, oldest first
  task,      \* where each download stands in acquire() or with its lease (pc),
             \* the arguments of its acquire() and the route of its slot
  checking,  \* this.checking: the check() call whose batch it is, or None
  call,      \* where each check() call stands
  ids,       \* the ids a waiting check() call was given
  pending,   \* the routes whose checkRoute() the call's batch still awaits
  waitsFor,  \* the call whose batch promise a download or call awaits
  saving,    \* the PATCH requests awaiting writeFile
  stale      \* history: a setting changed and recompute() has not run since

routeVars == <<routes, made, settings, stored, health, failures, active>>
slotVars  == <<inFlight, waiters, task>>
checkVars == <<checking, call, ids, pending, waitsFor>>
patchVars == <<saving, stale>>
vars == <<routeVars, slotVars, checkVars, patchVars>>

Unchecked == [status |-> "unchecked", checking |-> FALSE, ip |-> None, latency |-> 0]
Failed == [Unchecked EXCEPT !.status = "error"]
Passed(ip, latency) ==
  [status |-> "ok", checking |-> FALSE, ip |-> ip, latency |-> latency]
Idle == [pc |-> "idle", host |-> None, avoid |-> None, route |-> None]

TaskStates ==
  [pc : {"idle", "waitCheck", "woken", "queued", "granted", "leased", "rejected"},
   host : Hosts \cup {None}, avoid : Ids \cup {None}, route : Routes \cup {None}]

HealthStates ==
  [status : {"unchecked", "ok", "error"}, checking : BOOLEAN,
   ip : Ips \cup {None}, latency : Nat]

Loads == [Routes -> [Hosts -> Nat]]

\* The type invariant: a download inside acquire() has a host, a lease a route.
TypeOK ==
  /\ routes \subseteq made /\ made \subseteq Routes /\ Direct \in routes
  /\ settings \in [Routes -> Settings]
  /\ stored \in [Ids -> Settings]
  /\ health \in [Routes -> HealthStates]
  /\ failures \in [Routes -> 0..MaxFailures]
  /\ active \subseteq routes
  /\ inFlight \in Loads
  /\ waiters \in [Hosts -> Seq(Tasks)]
  /\ task \in [Tasks -> TaskStates]
  /\ \A t \in Tasks :
       /\ task[t].pc # "idle" => task[t].host \in Hosts
       /\ task[t].pc \in {"granted", "leased"} => task[t].route \in Routes
  /\ checking \in Checkers \cup {None}
  /\ call \in [Checkers -> {"idle", "waiting", "woken", "running"}]
  /\ ids \in [Checkers -> SUBSET Ids]
  /\ pending \in [Checkers -> SUBSET Routes]
  /\ waitsFor \in [Tasks \cup Checkers -> Checkers \cup {None}]
  /\ saving \subseteq Patchers
  /\ stale \in BOOLEAN

-----------------------------------------------------------------------------
(***************************************************************************)
(* recompute(): which routes are used.                                     *)
(***************************************************************************)
\* Mutant of Usable: direct, too, must have passed its check.
UsableNoExemption(rs, st, he) == {r \in rs : st[r].enabled /\ he[r].status = "ok"}

Usable(rs, st, he) ==
  {r \in rs : st[r].enabled /\ (r = Direct \/ he[r].status = "ok")}

\* Mutant of Precedes: equal latencies are not told apart.
PrecedesTied(he, a, b) == he[a].latency <= he[b].latency

\* The order within a group of routes with the same external IP.
Precedes(he, a, b) ==
  \/ a = Direct
  \/ /\ b # Direct
     /\ \/ he[a].latency < he[b].latency
        \/ he[a].latency = he[b].latency /\ IdOf[a] < IdOf[b]

Active(rs, st, he) ==
  LET usable == Usable(rs, st, he)
  IN  {r \in usable :
         \A q \in usable \ {r} :
           he[r].ip # None /\ he[q].ip = he[r].ip => Precedes(he, r, q)}

(***************************************************************************)
(* pickRoute(): a free active route, other than the avoided one if there   *)
(* is a choice, and among those one with the least load relative to its    *)
(* limit. The round-robin counter only chooses among equals: any of them.  *)
(***************************************************************************)
\* Mutant of Free: one download too many.
FreeAtLimit(h, act, st, load) == {r \in act : load[r][h] <= st[r].concurrency}

Free(h, act, st, load) == {r \in act : load[r][h] < st[r].concurrency}

Pick(h, av, act, st, load) ==
  LET free == Free(h, act, st, load)
      preferred == {r \in free : IdOf[r] # av}
      pool == IF preferred # {} THEN preferred ELSE free
  IN  {r \in pool : \A q \in pool :
         load[r][h] * st[q].concurrency <= load[q][h] * st[r].concurrency}

(***************************************************************************)
(* drain(): routes granted to the waiters of a host in queue order, until  *)
(* the queue or the free slots run out; with no active route every waiter  *)
(* is rejected. Grants is the set of the sequences of routes one run of    *)
(* the loop may hand out, g[i] to the i-th waiter.                         *)
(***************************************************************************)
Taken(h, g, n, load) ==
  [r \in Routes |-> [load[r] EXCEPT ![h] = @ + Cardinality({i \in 1..n : g[i] = r})]]

\* Mutant of Grants: drain() does not serve the queue.
GrantsNone(h, act, st, load) == {<<>>}

Grants(h, act, st, load) ==
  LET queue == waiters[h]
  IN  {g \in UNION {[1..n -> act] : n \in 0..Len(queue)} :
         /\ \A i \in 1..Len(g) :
              g[i] \in Pick(h, task[queue[i]].avoid, act, st, Taken(h, g, i - 1, load))
         /\ Len(g) = Len(queue) \/ Free(h, act, st, Taken(h, g, Len(g), load)) = {}}

Place(t) == CHOOSE i \in 1..Len(waiters[task[t].host]) : waiters[task[t].host][i] = t

\* load and ts: inFlight and task as the handler that drains has left them.
Queued(hs, ts) == {t \in Tasks : ts[t].pc = "queued" /\ ts[t].host \in hs}

\* Mutants of RejectAll: the queue is dropped without an answer; it is kept.
RejectSilently(hs, load, ts) ==
  /\ waiters' = [h \in Hosts |-> IF h \in hs THEN <<>> ELSE waiters[h]]
  /\ task' = ts /\ inFlight' = load

RejectNobody(hs, load, ts) == task' = ts /\ inFlight' = load /\ UNCHANGED waiters

RejectAll(hs, load, ts) ==
  /\ waiters' = [h \in Hosts |-> IF h \in hs THEN <<>> ELSE waiters[h]]
  /\ task' = [t \in Tasks |-> IF t \in Queued(hs, ts)
                              THEN [ts[t] EXCEPT !.pc = "rejected"] ELSE ts[t]]
  /\ inFlight' = load

GrantAll(hs, act, st, load, ts) ==
  \E g \in [hs -> UNION {Grants(h, act, st, load) : h \in hs}] :
    LET granted == {t \in Queued(hs, ts) : Place(t) \in DOMAIN g[ts[t].host]}
    IN  /\ \A h \in hs : g[h] \in Grants(h, act, st, load)
        /\ waiters' = [h \in Hosts |->
             IF h \in hs THEN SubSeq(waiters[h], Len(g[h]) + 1, Len(waiters[h])) ELSE waiters[h]]
        /\ inFlight' = [r \in Routes |-> [h \in Hosts |->
             IF h \in hs THEN Taken(h, g[h], Len(g[h]), load)[r][h] ELSE load[r][h]]]
        /\ task' = [t \in Tasks |->
             IF t \in granted
             THEN [ts[t] EXCEPT !.pc = "granted", !.avoid = None,
                                !.route = g[ts[t].host][Place(t)]]
             ELSE ts[t]]

Drain(hs, act, st, load, ts) ==
  IF act = {} THEN RejectAll(hs, load, ts) ELSE GrantAll(hs, act, st, load, ts)

\* Mutants of Recompute: no drainAll(); a route in use stays in use.
RecomputeOnly(rs, st, he, load, ts) ==
  /\ active' = Active(rs, st, he) /\ stale' = FALSE
  /\ task' = ts /\ inFlight' = load /\ UNCHANGED waiters

RecomputeSticky(rs, st, he, load, ts) ==
  LET act == (active \cap rs) \cup Active(rs, st, he)
  IN  active' = act /\ stale' = FALSE /\ Drain(Hosts, act, st, load, ts)

\* recompute() over the routes rs, with settings st and health he: the active
\* routes, then drainAll().
Recompute(rs, st, he, load, ts) ==
  /\ active' = Active(rs, st, he)
  /\ stale' = FALSE
  /\ Drain(Hosts, Active(rs, st, he), st, load, ts)

-----------------------------------------------------------------------------
(***************************************************************************)
(* The event loop: continuations made ready by a resolved promise run      *)
(* before the next request, answer, timer or write is handled.             *)
(***************************************************************************)
BatchReady(c) == call[c] = "running" /\ pending[c] = {}

NoContinuation ==
  /\ \A t \in Tasks : task[t].pc # "woken"
  /\ \A c \in Checkers : call[c] # "woken" /\ ~BatchReady(c)

(***************************************************************************)
(* acquire() and release().                                                *)
(***************************************************************************)
\* The promise of acquire(): a slot at once, a rejection, or a place in line.
PickOrQueue(t, h, av) ==
  LET free == Free(h, active, settings, inFlight)
  IN  \/ \E r \in Pick(h, av, active, settings, inFlight) :
           /\ inFlight' = [inFlight EXCEPT ![r][h] = @ + 1]
           /\ task' = [task EXCEPT ![t] = [Idle EXCEPT !.pc = "granted", !.host = h, !.route = r]]
           /\ UNCHANGED waiters
      \/ /\ free = {} /\ active = {}
         /\ task' = [task EXCEPT ![t] = [Idle EXCEPT !.pc = "rejected", !.host = h]]
         /\ UNCHANGED <<inFlight, waiters>>
      \/ /\ free = {} /\ active # {}
         /\ waiters' = [waiters EXCEPT ![h] = Append(@, t)]
         /\ task' = [task EXCEPT ![t] = [Idle EXCEPT !.pc = "queued", !.host = h, !.avoid = av]]
         /\ UNCHANGED inFlight

\* With no active route a running check may still produce one: wait for it.
AwaitsCheck == active = {} /\ checking # None

Acquire(t, h, av) ==
  /\ NoContinuation
  /\ task[t].pc = "idle"
  /\ IF AwaitsCheck
     THEN /\ task' = [task EXCEPT ![t].pc = "waitCheck", ![t].host = h, ![t].avoid = av]
          /\ waitsFor' = [waitsFor EXCEPT ![t] = checking]
          /\ UNCHANGED <<inFlight, waiters>>
     ELSE PickOrQueue(t, h, av) /\ UNCHANGED waitsFor
  /\ UNCHANGED <<routeVars, checking, call, ids, pending, patchVars>>

ResumeAcquire(t) ==
  /\ task[t].pc = "woken"
  /\ PickOrQueue(t, task[t].host, task[t].avoid)
  /\ UNCHANGED <<routeVars, checkVars, patchVars>>

\* throttle() has let the request start: acquire() returns the lease.
ThrottlePass(t) ==
  /\ task[t].pc = "granted"
  /\ task' = [task EXCEPT ![t].pc = "leased"]
  /\ UNCHANGED <<routeVars, inFlight, waiters, checkVars, patchVars>>

\* The caller of acquire() gets "No active download route".
Fail(t) ==
  /\ task[t].pc = "rejected"
  /\ task' = [task EXCEPT ![t] = Idle]
  /\ UNCHANGED <<routeVars, inFlight, waiters, checkVars, patchVars>>

FailuresAfter(r, outcome) ==
  IF outcome = "ok" THEN 0
  ELSE IF outcome = "network-error" /\ r # Direct /\ failures[r] < MaxFailures
       THEN failures[r] + 1
       ELSE failures[r]

\* finish(): the third connection failure in a row of a healthy proxy takes it
\* out of use (and recomputes); any other outcome only serves the host's queue.
Trips(r, outcome) ==
  /\ outcome = "network-error" /\ r # Direct
  /\ FailuresAfter(r, outcome) >= MaxFailures
  /\ health[r].status = "ok"

\* Mutant of LeaseRoute: the route is looked up again by its id.
RouteNowWithId(t) ==
  LET same == {r \in routes : r # task[t].route /\ IdOf[r] = IdOf[task[t].route]}
  IN  IF same = {} THEN task[t].route ELSE CHOOSE r \in same : TRUE

\* The lease frees the slot of the object it was granted on.
LeaseRoute(t) == task[t].route

Release(t, outcome) ==
  LET r == LeaseRoute(t)
      h == task[t].host
      load == [inFlight EXCEPT ![r][h] = IF @ > 1 THEN @ - 1 ELSE 0]
      ts == [task EXCEPT ![t] = Idle]
      tripped == [health EXCEPT ![r].status = "error"]
  IN  /\ NoContinuation
      /\ task[t].pc = "leased"
      /\ failures' = [failures EXCEPT ![r] = FailuresAfter(r, outcome)]
      /\ IF Trips(r, outcome)
         THEN health' = tripped /\ Recompute(routes, settings, tripped, load, ts)
         ELSE Drain({h}, active, settings, load, ts) /\ UNCHANGED <<health, active, stale>>
      /\ UNCHANGED <<routes, made, settings, stored, checkVars, saving>>

-----------------------------------------------------------------------------
(***************************************************************************)
(* loadConfig(), check() and checkRoute().                                 *)
(***************************************************************************)
\* The configurations proxy.json may hold: distinct ids, and objects either
\* kept from the current one (unchanged entry) or never built before.
Configs ==
  {cfg \in SUBSET Routes :
     /\ Direct \in cfg
     /\ cfg \cap made \subseteq routes
     /\ \A r, q \in cfg : IdOf[r] = IdOf[q] => r = q}

\* Mutant of SettingsIn: a fresh object starts with the default settings.
SettingsDefault(cfg) ==
  [r \in Routes |-> IF r \in cfg \ made
                    THEN [enabled |-> TRUE, concurrency |-> MaxConcurrency] ELSE settings[r]]

\* newRoute() gives a fresh object its stored settings.
SettingsIn(cfg) ==
  [r \in Routes |-> IF r \in cfg \ made THEN stored[IdOf[r]] ELSE settings[r]]

\* The part of check() after its wait, over the routes cfg with settings st.
StartBatch(c, chosen, cfg, st) ==
  LET targets == {r \in cfg \ Broken : IdOf[r] \in chosen}
      marked == [r \in Routes |-> [health[r] EXCEPT !.checking = @ \/ r \in targets]]
  IN  /\ health' = marked
      /\ pending' = [pending EXCEPT ![c] = targets]
      /\ checking' = c
      /\ call' = [call EXCEPT ![c] = "running"]
      /\ ids' = [ids EXCEPT ![c] = {}]
      /\ Recompute(cfg, st, marked, inFlight, task)
      /\ UNCHANGED waitsFor

\* check() behind a running batch: wait for that batch.
JoinBatch(c, chosen) ==
  /\ call' = [call EXCEPT ![c] = "waiting"]
  /\ ids' = [ids EXCEPT ![c] = chosen]
  /\ waitsFor' = [waitsFor EXCEPT ![c] = checking]
  /\ UNCHANGED <<health, pending, checking>>

\* check(ids), from the settings page, at startup or from the interval timer.
Check(c, chosen) ==
  /\ NoContinuation
  /\ call[c] = "idle"
  /\ IF checking = None
     THEN StartBatch(c, chosen, routes, settings)
     ELSE JoinBatch(c, chosen) /\ UNCHANGED <<active, stale, slotVars>>
  /\ UNCHANGED <<routes, made, settings, stored, failures, saving>>

\* POST /api/proxies/check without ids: loadConfig(), which recomputes, then
\* check(), whose own recompute finds nothing more to do.
Reload(c, cfg) ==
  /\ NoContinuation
  /\ call[c] = "idle"
  /\ routes' = cfg
  /\ made' = made \cup cfg
  /\ settings' = SettingsIn(cfg)
  /\ IF checking = None
     THEN StartBatch(c, Ids, cfg, SettingsIn(cfg))
     ELSE JoinBatch(c, Ids) /\ Recompute(cfg, SettingsIn(cfg), health, inFlight, task)
  /\ UNCHANGED <<stored, failures, saving>>

\* A call woken by the end of the batch it waited for looks no further for a
\* batch another woken call has started meanwhile.
ResumeCheck(c) ==
  /\ call[c] = "woken"
  /\ StartBatch(c, ids[c], routes, settings)
  /\ UNCHANGED <<routes, made, settings, stored, failures, saving>>

CheckOk(c, r, ip, latency) ==
  /\ NoContinuation
  /\ r \in pending[c]
  /\ health' = [health EXCEPT ![r] = Passed(ip, latency)]
  /\ failures' = [failures EXCEPT ![r] = 0]
  /\ pending' = [pending EXCEPT ![c] = @ \ {r}]
  /\ UNCHANGED <<routes, made, settings, stored, active, slotVars,
                 checking, call, ids, waitsFor, patchVars>>

CheckFail(c, r) ==
  /\ NoContinuation
  /\ r \in pending[c]
  /\ health' = [health EXCEPT ![r] = Failed]
  /\ pending' = [pending EXCEPT ![c] = @ \ {r}]
  /\ UNCHANGED <<routes, made, settings, stored, failures, active, slotVars,
                 checking, call, ids, waitsFor, patchVars>>

\* Mutants of Awaits: the end of a batch wakes only downloads; only calls.
AwaitsTasks(x, c) == x \in Tasks /\ waitsFor[x] = c
AwaitsCalls(x, c) == x \in Checkers /\ waitsFor[x] = c

Awaits(x, c) == waitsFor[x] = c

\* Every checkRoute() of the batch is done: its .then() runs, recompute()
\* included, and whoever awaited the batch becomes ready to go on.
BatchDone(c) ==
  /\ BatchReady(c)
  /\ checking' = None
  /\ call' = [d \in Checkers |-> IF d = c THEN "idle"
                                 ELSE IF call[d] = "waiting" /\ Awaits(d, c)
                                     THEN "woken" ELSE call[d]]
  /\ waitsFor' = [x \in Tasks \cup Checkers |-> IF Awaits(x, c) THEN None ELSE waitsFor[x]]
  /\ Recompute(routes, settings, health, inFlight,
               [t \in Tasks |-> [task[t] EXCEPT !.pc = IF @ = "waitCheck" /\ Awaits(t, c) THEN "woken" ELSE @]])
  /\ UNCHANGED <<routes, made, settings, stored, health, failures,
                 ids, pending, saving>>

-----------------------------------------------------------------------------
(***************************************************************************)
(* updateSettings(): the settings change at once, the active routes only   *)
(* after the file is written; not at all when the write fails.             *)
(***************************************************************************)
\* Mutant of Patch: the concurrency is stored one too low.
PatchOffByOne(p, r, s) ==
  /\ NoContinuation /\ p \notin saving /\ r \in routes
  /\ settings' = [settings EXCEPT ![r] = [s EXCEPT !.concurrency = @ - 1]]
  /\ stored' = [stored EXCEPT ![IdOf[r]] = s]
  /\ saving' = saving \cup {p} /\ stale' = TRUE
  /\ UNCHANGED <<routes, made, health, failures, active, slotVars, checkVars>>

Patch(p, r, s) ==
  /\ NoContinuation
  /\ p \notin saving
  /\ r \in routes
  /\ settings' = [settings EXCEPT ![r] = s]
  /\ stored' = [stored EXCEPT ![IdOf[r]] = s]
  /\ saving' = saving \cup {p}
  /\ stale' = TRUE
  /\ UNCHANGED <<routes, made, health, failures, active, slotVars, checkVars>>

SaveOk(p) ==
  /\ NoContinuation
  /\ p \in saving
  /\ saving' = saving \ {p}
  /\ Recompute(routes, settings, health, inFlight, task)
  /\ UNCHANGED <<routes, made, settings, stored, health, failures, checkVars>>

SaveFail(p) ==
  /\ NoContinuation
  /\ p \in saving
  /\ saving' = saving \ {p}
  /\ UNCHANGED <<routeVars, slotVars, checkVars, stale>>

-----------------------------------------------------------------------------
\* The constructor: settings from the file, routes from proxy.json, no check
\* result yet, so only direct can be active.
Init ==
  /\ routes \in {cfg \in SUBSET Routes :
                   Direct \in cfg /\ \A r, q \in cfg : IdOf[r] = IdOf[q] => r = q}
  /\ made = routes
  /\ stored \in StoredAtStart
  /\ settings = [r \in Routes |-> stored[IdOf[r]]]
  /\ health = [r \in Routes |-> IF r \in Broken THEN Failed ELSE Unchecked]
  /\ failures = [r \in Routes |-> 0]
  /\ active = Active(routes, settings, health)
  /\ inFlight = [r \in Routes |-> [h \in Hosts |-> 0]]
  /\ waiters = [h \in Hosts |-> <<>>]
  /\ task = [t \in Tasks |-> Idle]
  /\ checking = None
  /\ call = [c \in Checkers |-> "idle"]
  /\ ids = [c \in Checkers |-> {}]
  /\ pending = [c \in Checkers |-> {}]
  /\ waitsFor = [x \in Tasks \cup Checkers |-> None]
  /\ saving = {}
  /\ stale = FALSE

TaskStep(t) ==
  \/ \E h \in Hosts, av \in Ids \cup {None} : Acquire(t, h, av)
  \/ ResumeAcquire(t)
  \/ ThrottlePass(t)
  \/ Fail(t)
  \/ \E outcome \in Outcomes : Release(t, outcome)

CheckStep(c) ==
  \/ \E chosen \in SUBSET Ids : Check(c, chosen)
  \/ \E cfg \in Configs : Reload(c, cfg)
  \/ ResumeCheck(c)
  \/ \E r \in Routes, ip \in Ips, latency \in Latencies : CheckOk(c, r, ip, latency)
  \/ \E r \in Routes : CheckFail(c, r)
  \/ BatchDone(c)

PatchStep(p) ==
  \/ \E r \in Routes, s \in Settings : Patch(p, r, s)
  \/ SaveOk(p)
  \/ SaveFail(p)

Next ==
  \/ \E t \in Tasks : TaskStep(t)
  \/ \E c \in Checkers : CheckStep(c)
  \/ \E p \in Patchers : PatchStep(p)

Spec == Init /\ [][Next]_vars

-----------------------------------------------------------------------------
(***************************************************************************)
(* Properties.                                                             *)
(***************************************************************************)
Holds(t, r, h) ==
  task[t].pc \in {"granted", "leased"} /\ task[t].route = r /\ task[t].host = h

Waiting(h) == {t \in Tasks : task[t].pc = "queued" /\ task[t].host = h}

\* The slots a route object counts for a host are those its downloads hold: no
\* slot leaks and none is freed twice, whatever happens meanwhile to the object
\* (replaced, removed, checked, taken out of use).
SlotAccounting ==
  \A r \in Routes, h \in Hosts :
    inFlight[r][h] = Cardinality({t \in Tasks : Holds(t, r, h)})

\* Every queued download is in the queue of its host, once, and nothing else is:
\* no promise of acquire() is forgotten or settled twice.
QueueHoldsWaiting ==
  \A h \in Hosts :
    /\ {waiters[h][i] : i \in 1..Len(waiters[h])} = Waiting(h)
    /\ Len(waiters[h]) = Cardinality(Waiting(h))

\* Whoever is queued will be woken: some active route has a slot of that host in
\* use, so a release() is due and drains the queue. In particular nobody is left
\* queued when the last active route goes.
WaiterHasWaker ==
  \A h \in Hosts : waiters[h] # <<>> => \E r \in active : inFlight[r][h] > 0

\* Unless a settings change is still waiting to be applied, nobody queues for a
\* host while an active route has a free slot for it.
NoIdleSlot ==
  ~stale => \A h \in Hosts :
              waiters[h] # <<>> => Free(h, active, settings, inFlight) = {}

\* Every waiting check() call and download waits for the batch that is running,
\* so that the end of the batch wakes it; a batch nobody can join has no waiters.
WaitsForRunningBatch ==
  \A x \in Tasks \cup Checkers :
    waitsFor[x] # None => call[waitsFor[x]] = "running"

\* With no check running and no settings change to apply, the routes in use are
\* exactly those the current settings and health allow: no handler that changes
\* one of them forgets to recompute.
ActiveIsCurrent ==
  (~stale /\ \A c \in Checkers : call[c] # "running") =>
    active = Active(routes, settings, health)

\* With no check running, of the active routes with one external IP there is
\* only one, and a proxy at the failure limit is out of use.
OneRoutePerIp ==
  (\A c \in Checkers : call[c] # "running") =>
    \A r, q \in active :
      /\ health[r].ip # None /\ health[r].ip = health[q].ip => r = q
      /\ r # Direct => failures[r] < MaxFailures

\* A slot is only handed out on a route in use, below the limit in force, and
\* never on an entry without a dispatcher.
GrantWithinLimit ==
  [][\A r \in Routes, h \in Hosts :
       inFlight'[r][h] > inFlight[r][h] =>
         /\ r \in active' \ Broken
         /\ inFlight'[r][h] <= settings'[r].concurrency]_vars

\* Direct is used whatever its checks say: only a setting takes it out of use.
DirectStaysInUse ==
  [][(Direct \in active /\ Direct \notin active') => ~settings[Direct].enabled]_vars

\* A queued download is overtaken by none: when a later call for the host gets a
\* slot at once, nobody is queued there, unless a settings change is pending.
NoOvertaking ==
  [][\A t \in Tasks :
       /\ task[t].pc \in {"idle", "woken"}
       /\ task'[t].pc = "granted"
       => stale \/ waiters[task'[t].host] = <<>>]_vars

\* Re-reading proxy.json never loses a setting: the routes in the pool carry the
\* settings last stored under their id.
SettingsSurviveReload == \A r \in routes : settings[r] = stored[IdOf[r]]

(***************************************************************************)
(* Liveness. Checks end (they time out), a leased download ends and so     *)
(* does a write; what users do (acquire, check, patch) need never happen.  *)
(* The event loop comes to every event that stays ready, although          *)
(* continuations of others run first again and again: strong fairness.     *)
(***************************************************************************)
Fairness ==
  /\ \A t \in Tasks :
       /\ WF_vars(ResumeAcquire(t)) /\ WF_vars(ThrottlePass(t)) /\ WF_vars(Fail(t))
       /\ SF_vars(\E outcome \in Outcomes : Release(t, outcome))
  /\ \A c \in Checkers :
       /\ WF_vars(ResumeCheck(c)) /\ WF_vars(BatchDone(c))
       /\ \A r \in Routes :
            SF_vars(\/ \E ip \in Ips, latency \in Latencies : CheckOk(c, r, ip, latency)
                    \/ CheckFail(c, r))
  /\ \A p \in Patchers : SF_vars(SaveOk(p) \/ SaveFail(p))

FairSpec == Spec /\ Fairness

\* Every acquire() is settled: with a lease or with an error.
AcquireReturns ==
  \A t \in Tasks :
    task[t].pc \in {"waitCheck", "woken", "queued"} ~> task[t].pc \in {"leased", "idle"}

\* Every check() returns, however many overlap.
CheckReturns == \A c \in Checkers : call[c] # "idle" ~> call[c] = "idle"

(***************************************************************************)
(* What the documentation says and the program does not do.                *)
(***************************************************************************)
\* "Without raising the load any single IP puts on an origin": a slot is never
\* granted that takes two routes of one external IP together over the limit.
IpLoadBound ==
  [][\A r, q \in Routes, h \in Hosts :
       /\ r # q
       /\ health'[r].ip # None /\ health'[r].ip = health'[q].ip
       /\ inFlight'[r][h] > inFlight[r][h]
       => inFlight'[r][h] + inFlight'[q][h] <= settings'[r].concurrency]_vars
=============================================================================
