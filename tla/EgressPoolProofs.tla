-------------------------- MODULE EgressPoolProofs --------------------------
(***************************************************************************)
(* Proofs about EgressPool, for any number of hosts, routes, downloads and *)
(* callers.                                                                *)
(***************************************************************************)
EXTENDS EgressPool, FiniteSetTheorems, WellFoundedInduction, TLAPS

\* What pickRoute() returns is a route with a free slot.
LEMMA PickFree ==
  ASSUME NEW h, NEW av, NEW act, NEW st, NEW load
  PROVE  Pick(h, av, act, st, load) \subseteq Free(h, act, st, load)
BY DEF Pick

\* Taking a slot keeps the slot counts typed.
LEMMA TakenType ==
  ASSUME NEW h \in Hosts, NEW g, NEW n \in Nat, NEW load \in Loads
  PROVE  Taken(h, g, n, load) \in Loads
<1>1. ASSUME NEW r \in Routes PROVE Cardinality({i \in 1..n : g[i] = r}) \in Nat
  <2>1. IsFiniteSet(1..n)
    BY FS_Interval
  <2>2. IsFiniteSet({i \in 1..n : g[i] = r})
    BY <2>1, FS_Subset
  <2> QED BY <2>2, FS_CardinalityType
<1> QED BY <1>1 DEF Taken, Loads

\* What drain() may hand out: at most one route per waiter, and less only when
\* no active route is free any more.
LEMMA GrantsFacts ==
  ASSUME NEW h \in Hosts, NEW act, NEW st, NEW load,
         waiters[h] \in Seq(Tasks),
         NEW g \in Grants(h, act, st, load)
  PROVE  /\ Len(g) \in Nat /\ Len(g) <= Len(waiters[h])
         /\ DOMAIN g = 1..Len(g)
         /\ \A i \in DOMAIN g : g[i] \in act
         /\ Len(g) = Len(waiters[h]) \/ Free(h, act, st, Taken(h, g, Len(g), load)) = {}
<1>1. PICK n \in 0..Len(waiters[h]) : g \in [1..n -> act]
  BY DEF Grants
<1>2. Len(g) = n
  BY <1>1
<1> QED BY <1>1, <1>2 DEF Grants

TasksTyped(ts) ==
  /\ ts \in [Tasks -> TaskStates]
  /\ \A t \in Tasks :
       /\ ts[t].pc # "idle" => ts[t].host \in Hosts
       /\ ts[t].pc \in {"granted", "leased"} => ts[t].route \in Routes

\* The end of a batch wakes downloads and changes nothing else of them.
LEMMA WokenTyped ==
  ASSUME TasksTyped(task), NEW c
  PROVE  TasksTyped([t \in Tasks |-> [task[t] EXCEPT
                       !.pc = IF @ = "waitCheck" /\ Awaits(t, c) THEN "woken" ELSE @]])
<1> DEFINE ts == [t \in Tasks |-> [task[t] EXCEPT
                    !.pc = IF @ = "waitCheck" /\ Awaits(t, c) THEN "woken" ELSE @]]
<1>1. ASSUME NEW t \in Tasks
      PROVE  /\ ts[t] \in TaskStates /\ ts[t].host = task[t].host /\ ts[t].route = task[t].route
             /\ ts[t].pc = task[t].pc \/ (task[t].pc = "waitCheck" /\ ts[t].pc = "woken")
  <2>1. task[t] \in TaskStates
    BY DEF TasksTyped
  <2>2. CASE task[t].pc = "waitCheck" /\ Awaits(t, c)
    BY <2>1, <2>2 DEF TaskStates
  <2>3. CASE ~(task[t].pc = "waitCheck" /\ Awaits(t, c))
    BY <2>1, <2>3 DEF TaskStates
  <2> QED BY <2>2, <2>3
<1>2. ts \in [Tasks -> TaskStates]
  BY <1>1
<1> HIDE DEF ts
<1>3. TasksTyped(ts)
  BY <1>1, <1>2 DEF TasksTyped
<1> QED BY <1>3 DEF ts

\* drain() keeps the types.
LEMMA DrainType ==
  ASSUME NEW hs, hs \subseteq Hosts, NEW act, act \subseteq Routes, NEW st,
         NEW load \in Loads, NEW ts, TasksTyped(ts),
         waiters \in [Hosts -> Seq(Tasks)],
         Drain(hs, act, st, load, ts)
  PROVE  /\ waiters' \in [Hosts -> Seq(Tasks)]
         /\ inFlight' \in Loads
         /\ TasksTyped(task')
<1>1. CASE act = {}
  <2>1. /\ waiters' = [h \in Hosts |-> IF h \in hs THEN <<>> ELSE waiters[h]]
        /\ task' = [t \in Tasks |-> IF t \in Queued(hs, ts)
                                    THEN [ts[t] EXCEPT !.pc = "rejected"] ELSE ts[t]]
        /\ inFlight' = load
    BY <1>1 DEF Drain, RejectAll
  <2>2. waiters' \in [Hosts -> Seq(Tasks)]
    BY <2>1
  <2>3. TasksTyped(task')
    BY <2>1 DEF TasksTyped, TaskStates, Queued
  <2> QED BY <2>1, <2>2, <2>3
<1>2. CASE act # {}
  <2>1. PICK g \in [hs -> UNION {Grants(h, act, st, load) : h \in hs}] :
          LET granted == {t \in Queued(hs, ts) : Place(t) \in DOMAIN g[ts[t].host]}
          IN  /\ \A h \in hs : g[h] \in Grants(h, act, st, load)
              /\ waiters' = [h \in Hosts |->
                   IF h \in hs THEN SubSeq(waiters[h], Len(g[h]) + 1, Len(waiters[h]))
                   ELSE waiters[h]]
              /\ inFlight' = [r \in Routes |-> [h \in Hosts |->
                   IF h \in hs THEN Taken(h, g[h], Len(g[h]), load)[r][h] ELSE load[r][h]]]
              /\ task' = [t \in Tasks |->
                   IF t \in granted
                   THEN [ts[t] EXCEPT !.pc = "granted", !.avoid = None,
                                      !.route = g[ts[t].host][Place(t)]]
                   ELSE ts[t]]
    BY <1>2 DEF Drain, GrantAll
  <2>2. \A h \in hs : /\ Len(g[h]) \in Nat /\ Len(g[h]) <= Len(waiters[h])
                      /\ \A i \in DOMAIN g[h] : g[h][i] \in act
    BY <2>1, GrantsFacts
  <2>3. waiters' \in [Hosts -> Seq(Tasks)]
    <3>1. ASSUME NEW h \in hs
          PROVE  SubSeq(waiters[h], Len(g[h]) + 1, Len(waiters[h])) \in Seq(Tasks)
      BY <2>2
    <3> QED BY <2>1, <3>1
  <2>4. inFlight' \in Loads
    <3>1. ASSUME NEW h \in hs, NEW r \in Routes
          PROVE  Taken(h, g[h], Len(g[h]), load)[r][h] \in Nat
      <4>1. Taken(h, g[h], Len(g[h]), load) \in Loads
        BY <2>2, TakenType
      <4> QED BY <4>1 DEF Loads
    <3>2. ASSUME NEW h \in Hosts, NEW r \in Routes
          PROVE  load[r][h] \in Nat
      BY DEF Loads
    <3>3. inFlight' = [r \in Routes |-> [h \in Hosts |->
             IF h \in hs THEN Taken(h, g[h], Len(g[h]), load)[r][h] ELSE load[r][h]]]
      BY <2>1
    <3> QED BY <3>1, <3>2, <3>3 DEF Loads
  <2>5. TasksTyped(task')
    <3> DEFINE granted == {t \in Queued(hs, ts) : Place(t) \in DOMAIN g[ts[t].host]}
    <3>1. ASSUME NEW t \in granted
          PROVE  /\ t \in Tasks /\ ts[t].pc = "queued" /\ ts[t].host \in hs
                 /\ g[ts[t].host][Place(t)] \in Routes
      <4>1. t \in Tasks /\ ts[t].pc = "queued" /\ ts[t].host \in hs
        BY DEF Queued
      <4>2. g[ts[t].host][Place(t)] \in act
        BY <2>2, <4>1, Zenon
      <4> QED BY <4>1, <4>2
    <3>2. task' = [t \in Tasks |->
             IF t \in granted
             THEN [ts[t] EXCEPT !.pc = "granted", !.avoid = None,
                                !.route = g[ts[t].host][Place(t)]]
             ELSE ts[t]]
      BY <2>1, Zenon
    <3> HIDE DEF granted
    <3>3. ASSUME NEW t \in Tasks
          PROVE  /\ task'[t] \in TaskStates
                 /\ task'[t].pc # "idle" => task'[t].host \in Hosts
                 /\ task'[t].pc \in {"granted", "leased"} => task'[t].route \in Routes
      <4>1. ts[t] \in TaskStates
        BY DEF TasksTyped
      <4>2. CASE t \in granted
        <5> DEFINE r == g[ts[t].host][Place(t)]
        <5>1. task'[t] = [ts[t] EXCEPT !.pc = "granted", !.avoid = None, !.route = r]
          BY <3>2, <4>2
        <5>2. r \in Routes /\ ts[t].host \in Hosts
          BY <3>1, <4>2
        <5> HIDE DEF r
        <5> QED BY <4>1, <5>1, <5>2 DEF TaskStates
      <4>3. CASE t \notin granted
        BY <3>2, <4>1, <4>3 DEF TasksTyped
      <4> QED BY <4>2, <4>3
    <3> QED BY <3>2, <3>3 DEF TasksTyped
  <2> QED BY <2>1, <2>3, <2>4, <2>5
<1> QED BY <1>1, <1>2

\* drain() leaves the queues and slots of other hosts alone.
LEMMA DrainFrame ==
  ASSUME NEW hs, NEW act, NEW st, NEW load \in Loads, NEW ts,
         Drain(hs, act, st, load, ts),
         NEW h \in Hosts, h \notin hs
  PROVE  waiters'[h] = waiters[h] /\ \A r \in Routes : inFlight'[r][h] = load[r][h]
<1>1. waiters'[h] = waiters[h]
  BY DEF Drain, RejectAll, GrantAll
<1>2. ASSUME NEW r \in Routes PROVE inFlight'[r][h] = load[r][h]
  <2>1. CASE act = {}
    BY <2>1 DEF Drain, RejectAll
  <2>2. CASE act # {}
    <3>1. PICK g \in [hs -> UNION {Grants(x, act, st, load) : x \in hs}] :
            inFlight' = [q \in Routes |-> [x \in Hosts |->
             IF x \in hs THEN Taken(x, g[x], Len(g[x]), load)[q][x] ELSE load[q][x]]]
      BY <2>2 DEF Drain, GrantAll
    <3> QED BY <3>1
  <2> QED BY <2>1, <2>2
<1> QED BY <1>1, <1>2

\* After drain() somebody is left in a queue only if there are active routes and
\* none of them has a free slot for the host.
LEMMA DrainLeavesNoRoom ==
  ASSUME NEW hs, hs \subseteq Hosts, NEW act, act \subseteq Routes,
         NEW st, NEW load \in Loads, NEW ts,
         waiters \in [Hosts -> Seq(Tasks)],
         Drain(hs, act, st, load, ts),
         NEW h \in hs, waiters'[h] # <<>>
  PROVE  act # {} /\ Free(h, act, st, inFlight') = {}
<1>1. act # {}
  BY DEF Drain, RejectAll
<1>2. PICK g : /\ g \in Grants(h, act, st, load)
               /\ waiters'[h] = SubSeq(waiters[h], Len(g) + 1, Len(waiters[h]))
               /\ \A r \in Routes : inFlight'[r][h] = Taken(h, g, Len(g), load)[r][h]
  <2>1. PICK f \in [hs -> UNION {Grants(x, act, st, load) : x \in hs}] :
          /\ \A x \in hs : f[x] \in Grants(x, act, st, load)
          /\ waiters' = [x \in Hosts |->
               IF x \in hs THEN SubSeq(waiters[x], Len(f[x]) + 1, Len(waiters[x]))
               ELSE waiters[x]]
          /\ inFlight' = [r \in Routes |-> [x \in Hosts |->
               IF x \in hs THEN Taken(x, f[x], Len(f[x]), load)[r][x] ELSE load[r][x]]]
    BY <1>1 DEF Drain, GrantAll
  <2>2. h \in Hosts
    OBVIOUS
  <2>3. f[h] \in Grants(h, act, st, load)
    BY <2>1
  <2>4. waiters'[h] = SubSeq(waiters[h], Len(f[h]) + 1, Len(waiters[h]))
    BY <2>1, <2>2
  <2>5. \A r \in Routes : inFlight'[r][h] = Taken(h, f[h], Len(f[h]), load)[r][h]
    BY <2>1, <2>2
  <2> QED BY <2>3, <2>4, <2>5
<1>3. /\ Len(g) \in Nat /\ Len(g) <= Len(waiters[h])
      /\ Len(g) = Len(waiters[h]) \/ Free(h, act, st, Taken(h, g, Len(g), load)) = {}
  BY <1>2, GrantsFacts
<1>4. Len(g) # Len(waiters[h])
  <2>1. SUFFICES ASSUME Len(g) = Len(waiters[h]) PROVE FALSE
    OBVIOUS
  <2> QED BY <1>2, <1>3, <2>1
<1> QED BY <1>1, <1>2, <1>3, <1>4 DEF Free

\* Where nothing is free something is in use: limits are at least one.
LEMMA NoRoomIsBusy ==
  ASSUME NEW h \in Hosts, NEW act, act \subseteq Routes, act # {},
         NEW st \in [Routes -> Settings], NEW load \in Loads,
         Free(h, act, st, load) = {}
  PROVE  \E r \in act : load[r][h] > 0
<1>1. PICK r \in act : ~(load[r][h] < st[r].concurrency)
  BY DEF Free
<1>2. load[r][h] \in Nat
  BY DEF Loads
<1>3. st[r].concurrency \in Nat \ {0}
  BY PoolAssumption DEF Settings
<1>4. load[r][h] > 0
  BY <1>1, <1>2, <1>3
<1> QED BY <1>4

\* recompute() keeps the types, whatever the routes and settings it is given,
\* and leaves nobody queued while an active route is free.
LEMMA RecomputeFacts ==
  ASSUME NEW rs, rs \subseteq Routes, NEW st \in [Routes -> Settings], NEW he,
         NEW load \in Loads, NEW ts, TasksTyped(ts),
         waiters \in [Hosts -> Seq(Tasks)],
         Recompute(rs, st, he, load, ts)
  PROVE  /\ active' \subseteq rs
         /\ stale' = FALSE
         /\ waiters' \in [Hosts -> Seq(Tasks)]
         /\ inFlight' \in Loads
         /\ TasksTyped(task')
         /\ active' = Active(rs, st, he)
         /\ \A h \in Hosts :
              waiters'[h] # <<>> => /\ Free(h, active', st, inFlight') = {}
                                    /\ \E r \in active' : inFlight'[r][h] > 0
<1> DEFINE act == Active(rs, st, he)
<1>1. act \subseteq rs
  BY DEF Active, Usable
<1>2. active' = act /\ stale' = FALSE /\ Drain(Hosts, act, st, load, ts)
  BY DEF Recompute
<1>6. active' = Active(rs, st, he)
  BY DEF Recompute
<1> HIDE DEF act
<1>3. act \subseteq Routes
  BY <1>1
<1>4. /\ waiters' \in [Hosts -> Seq(Tasks)] /\ inFlight' \in Loads /\ TasksTyped(task')
  BY <1>2, <1>3, DrainType
<1>5. \A h \in Hosts : waiters'[h] # <<>> => act # {} /\ Free(h, act, st, inFlight') = {}
  BY <1>2, <1>3, DrainLeavesNoRoom
<1>7. \A h \in Hosts : waiters'[h] # <<>> => \E r \in act : inFlight'[r][h] > 0
  BY <1>3, <1>4, <1>5, NoRoomIsBusy
<1> QED BY <1>1, <1>2, <1>4, <1>5, <1>6, <1>7

\* The type invariant types the downloads.
LEMMA TypeGivesTasks == TypeOK => TasksTyped(task)
BY DEF TypeOK, TasksTyped

\* An idle download is typed.
LEMMA IdleTyped == Idle \in TaskStates /\ Idle.pc = "idle"
BY DEF Idle, TaskStates

-----------------------------------------------------------------------------
\* A new process is typed.
LEMMA InitType == Init => TypeOK
<1> SUFFICES ASSUME Init PROVE TypeOK
  OBVIOUS
<1> USE PoolAssumption DEF Init
<1>1. routes \subseteq made /\ made \subseteq Routes /\ Direct \in routes
  OBVIOUS
<1>2. stored \in [Ids -> Settings]
  OBVIOUS
<1>3. settings \in [Routes -> Settings]
  BY <1>2 DEF Ids
<1>4. health \in [Routes -> HealthStates]
  BY DEF Failed, Unchecked, HealthStates
<1>5. failures \in [Routes -> 0..MaxFailures]
  OBVIOUS
<1>6. active \subseteq routes
  BY DEF Active, Usable
<1>7. inFlight \in Loads
  BY DEF Loads
<1>8. TasksTyped(task)
  BY IdleTyped DEF TasksTyped
<1>9. waiters \in [Hosts -> Seq(Tasks)]
  OBVIOUS
<1> QED BY <1>1, <1>2, <1>3, <1>4, <1>5, <1>6, <1>7, <1>8, <1>9 DEF TypeOK, TasksTyped

\* The part of the types a change of queues and slots can touch.
LEMMA SlotTypes ==
  ASSUME TypeOK, waiters' \in [Hosts -> Seq(Tasks)], inFlight' \in Loads, TasksTyped(task'),
         UNCHANGED <<routeVars, checkVars, patchVars>>
  PROVE  TypeOK'
BY DEF TypeOK, TasksTyped, routeVars, checkVars, patchVars, TaskStates, Loads, HealthStates

\* Setting one download keeps the downloads typed.
LEMMA TaskUpdate ==
  ASSUME TasksTyped(task), NEW t \in Tasks, NEW new \in TaskStates,
         new.pc # "idle" => new.host \in Hosts,
         new.pc \in {"granted", "leased"} => new.route \in Routes
  PROVE  TasksTyped([task EXCEPT ![t] = new])
BY DEF TasksTyped

\* pickRoute() or the queue keep the types.
LEMMA PickOrQueueType ==
  ASSUME TypeOK, NEW t \in Tasks, NEW h \in Hosts, NEW av \in Ids \cup {None},
         PickOrQueue(t, h, av)
  PROVE  waiters' \in [Hosts -> Seq(Tasks)] /\ inFlight' \in Loads /\ TasksTyped(task')
<1>0. /\ waiters \in [Hosts -> Seq(Tasks)] /\ inFlight \in Loads /\ TasksTyped(task)
      /\ active \subseteq Routes
  BY DEF TypeOK, TasksTyped
<1>1. ASSUME NEW r \in Pick(h, av, active, settings, inFlight),
             inFlight' = [inFlight EXCEPT ![r][h] = @ + 1],
             task' = [task EXCEPT ![t] = [Idle EXCEPT !.pc = "granted", !.host = h, !.route = r]],
             UNCHANGED waiters
      PROVE  waiters' \in [Hosts -> Seq(Tasks)] /\ inFlight' \in Loads /\ TasksTyped(task')
  <2>1. r \in Routes
    BY <1>0, PickFree DEF Free
  <2>2. inFlight' \in Loads
    BY <1>0, <1>1, <2>1 DEF Loads
  <2>3. [Idle EXCEPT !.pc = "granted", !.host = h, !.route = r] \in TaskStates
    BY <2>1 DEF Idle, TaskStates
  <2>4. TasksTyped(task')
    BY <1>0, <1>1, <2>1, <2>3, TaskUpdate DEF Idle
  <2> QED BY <1>0, <1>1, <2>2, <2>4
<1>2. ASSUME task' = [task EXCEPT ![t] = [Idle EXCEPT !.pc = "rejected", !.host = h]],
             UNCHANGED <<inFlight, waiters>>
      PROVE  waiters' \in [Hosts -> Seq(Tasks)] /\ inFlight' \in Loads /\ TasksTyped(task')
  <2>1. [Idle EXCEPT !.pc = "rejected", !.host = h] \in TaskStates
    BY DEF Idle, TaskStates
  <2>2. TasksTyped(task')
    BY <1>0, <1>2, <2>1, TaskUpdate DEF Idle
  <2> QED BY <1>0, <1>2, <2>2
<1>3. ASSUME waiters' = [waiters EXCEPT ![h] = Append(@, t)],
             task' = [task EXCEPT ![t] = [Idle EXCEPT !.pc = "queued", !.host = h, !.avoid = av]],
             UNCHANGED inFlight
      PROVE  waiters' \in [Hosts -> Seq(Tasks)] /\ inFlight' \in Loads /\ TasksTyped(task')
  <2>1. [Idle EXCEPT !.pc = "queued", !.host = h, !.avoid = av] \in TaskStates
    BY DEF Idle, TaskStates
  <2>2. TasksTyped(task')
    BY <1>0, <1>3, <2>1, TaskUpdate DEF Idle
  <2> QED BY <1>0, <1>3, <2>2
<1> QED BY <1>1, <1>2, <1>3 DEF PickOrQueue

\* The handlers of a download.
LEMMA TaskStepType ==
  ASSUME TypeOK, NEW t \in Tasks, TaskStep(t)
  PROVE  TypeOK'
<1>0. TasksTyped(task)
  BY TypeGivesTasks
<1>1. ASSUME NEW h \in Hosts, NEW av \in Ids \cup {None}, Acquire(t, h, av) PROVE TypeOK'
  <2>1. CASE AwaitsCheck
    <3>1. task' = [task EXCEPT ![t].pc = "waitCheck", ![t].host = h, ![t].avoid = av]
      BY <1>1, <2>1 DEF Acquire
    <3>2. TasksTyped(task')
      <4> DEFINE new == [task[t] EXCEPT !.pc = "waitCheck", !.host = h, !.avoid = av]
      <4>1. task[t] \in TaskStates /\ task[t].route \in Routes \cup {None}
        BY <1>0 DEF TasksTyped, TaskStates
      <4>2. new \in TaskStates /\ new.host = h /\ new.pc = "waitCheck"
        BY <4>1 DEF TaskStates
      <4>3. task' = [task EXCEPT ![t] = new]
        BY <3>1, <4>1 DEF TaskStates
      <4> HIDE DEF new
      <4> QED BY <1>0, <4>2, <4>3, TaskUpdate
    <3>3. waitsFor' \in [Tasks \cup Checkers -> Checkers \cup {None}]
      BY <1>1, <2>1 DEF Acquire, TypeOK
    <3> QED BY <1>1, <2>1, <3>2, <3>3
        DEF Acquire, TypeOK, TasksTyped, routeVars, patchVars
  <2>2. CASE ~AwaitsCheck
    <3>1. PickOrQueue(t, h, av) /\ UNCHANGED <<routeVars, checkVars, patchVars>>
      BY <1>1, <2>2 DEF Acquire, checkVars
    <3> QED BY <3>1, PickOrQueueType, SlotTypes
  <2> QED BY <2>1, <2>2
<1>2. CASE ResumeAcquire(t)
  <2>1. task[t].host \in Hosts /\ task[t].avoid \in Ids \cup {None}
    BY <1>0, <1>2 DEF ResumeAcquire, TasksTyped, TaskStates
  <2> QED BY <1>2, <2>1, PickOrQueueType, SlotTypes DEF ResumeAcquire
<1>3. CASE ThrottlePass(t)
  <2>1. TasksTyped(task')
    BY <1>0, <1>3 DEF ThrottlePass, TasksTyped, TaskStates
  <2> QED BY <1>3, <2>1, SlotTypes DEF ThrottlePass, TypeOK
<1>4. CASE Fail(t)
  <2>1. TasksTyped(task')
    BY <1>0, <1>4, IdleTyped, TaskUpdate DEF Fail
  <2> QED BY <1>4, <2>1, SlotTypes DEF Fail, TypeOK
<1>5. ASSUME NEW outcome \in Outcomes, Release(t, outcome) PROVE TypeOK'
  <2> DEFINE r == LeaseRoute(t)
             h == task[t].host
             load == [inFlight EXCEPT ![r][h] = IF @ > 1 THEN @ - 1 ELSE 0]
             ts == [task EXCEPT ![t] = Idle]
             tripped == [health EXCEPT ![r].status = "error"]
  <2>1. r \in Routes /\ h \in Hosts
    BY <1>5 DEF Release, TypeOK, LeaseRoute
  <2>2. load \in Loads
    BY <2>1 DEF TypeOK, Loads
  <2>3. TasksTyped(ts)
    BY <1>0, IdleTyped, TaskUpdate
  <2>4. tripped \in [Routes -> HealthStates]
    <3>1. health \in [Routes -> HealthStates] /\ health[r] \in HealthStates
      BY <2>1 DEF TypeOK
    <3>2. [health[r] EXCEPT !.status = "error"] \in HealthStates
      BY <3>1 DEF HealthStates
    <3> HIDE DEF r
    <3> QED BY <2>1, <3>1, <3>2
  <2>5. failures' \in [Routes -> 0..MaxFailures]
    <3>1. FailuresAfter(r, outcome) \in 0..MaxFailures
      BY <2>1, PoolAssumption DEF FailuresAfter, TypeOK
    <3> QED BY <1>5, <3>1 DEF Release, TypeOK
  <2>6. UNCHANGED <<routes, made, settings, stored, checkVars, saving>>
    BY <1>5 DEF Release
  <2>7. CASE Trips(r, outcome)
    <3>1. health' = tripped /\ Recompute(routes, settings, tripped, load, ts)
      BY <1>5, <2>7 DEF Release
    <3> HIDE DEF load, ts, tripped
    <3>2. routes \subseteq Routes /\ settings \in [Routes -> Settings]
            /\ waiters \in [Hosts -> Seq(Tasks)]
      BY DEF TypeOK
    <3>3. /\ active' \subseteq routes /\ stale' = FALSE
          /\ waiters' \in [Hosts -> Seq(Tasks)] /\ inFlight' \in Loads /\ TasksTyped(task')
      BY <2>2, <2>3, <3>1, <3>2, RecomputeFacts
    <3> QED BY <2>4, <2>5, <2>6, <3>1, <3>3 DEF TypeOK, TasksTyped, checkVars
  <2>8. CASE ~Trips(r, outcome)
    <3>1. Drain({h}, active, settings, load, ts) /\ UNCHANGED <<health, active, stale>>
      BY <1>5, <2>8 DEF Release
    <3> HIDE DEF load, ts, tripped
    <3>2. {h} \subseteq Hosts /\ active \subseteq Routes /\ waiters \in [Hosts -> Seq(Tasks)]
      BY <2>1 DEF TypeOK
    <3>3. /\ waiters' \in [Hosts -> Seq(Tasks)] /\ inFlight' \in Loads /\ TasksTyped(task')
      BY <2>2, <2>3, <3>1, <3>2, DrainType
    <3> QED BY <2>5, <2>6, <3>1, <3>3 DEF TypeOK, TasksTyped, checkVars
  <2> QED BY <2>7, <2>8
<1> QED BY <1>1, <1>2, <1>3, <1>4, <1>5 DEF TaskStep

\* A batch of checks that starts keeps the types.
LEMMA StartBatchType ==
  ASSUME TypeOK, NEW c \in Checkers, NEW chosen, NEW cfg, cfg \subseteq Routes,
         NEW st \in [Routes -> Settings], StartBatch(c, chosen, cfg, st)
  PROVE  /\ active' \subseteq cfg /\ stale' \in BOOLEAN
         /\ waiters' \in [Hosts -> Seq(Tasks)] /\ inFlight' \in Loads /\ TasksTyped(task')
         /\ health' \in [Routes -> HealthStates]
         /\ checking' \in Checkers \cup {None}
         /\ call' \in [Checkers -> {"idle", "waiting", "woken", "running"}]
         /\ ids' \in [Checkers -> SUBSET Ids]
         /\ pending' \in [Checkers -> SUBSET Routes]
         /\ waitsFor' \in [Tasks \cup Checkers -> Checkers \cup {None}]
<1> DEFINE targets == {r \in cfg \ Broken : IdOf[r] \in chosen}
           marked == [r \in Routes |-> [health[r] EXCEPT !.checking = @ \/ r \in targets]]
<1>1. health' = marked /\ Recompute(cfg, st, marked, inFlight, task)
  BY DEF StartBatch
<1>2. marked \in [Routes -> HealthStates]
  <2>1. ASSUME NEW r \in Routes
        PROVE  [health[r] EXCEPT !.checking = @ \/ r \in targets] \in HealthStates
    <3>1. health[r] \in HealthStates
      BY DEF TypeOK
    <3>2. (health[r].checking \/ r \in targets) \in BOOLEAN
      OBVIOUS
    <3> HIDE DEF targets
    <3> QED BY <3>1, <3>2 DEF HealthStates
  <2> QED BY <2>1
<1>3. /\ pending' = [pending EXCEPT ![c] = targets] /\ checking' = c
      /\ call' = [call EXCEPT ![c] = "running"] /\ ids' = [ids EXCEPT ![c] = {}]
      /\ waitsFor' = waitsFor
  BY DEF StartBatch
<1>4. targets \subseteq Routes
  OBVIOUS
<1> HIDE DEF marked, targets
<1>5. waiters \in [Hosts -> Seq(Tasks)] /\ inFlight \in Loads /\ TasksTyped(task)
  BY DEF TypeOK, TasksTyped
<1>6. /\ active' \subseteq cfg /\ stale' \in BOOLEAN
      /\ waiters' \in [Hosts -> Seq(Tasks)] /\ inFlight' \in Loads /\ TasksTyped(task')
  BY <1>1, <1>5, RecomputeFacts
<1>7. /\ checking' \in Checkers \cup {None}
      /\ call' \in [Checkers -> {"idle", "waiting", "woken", "running"}]
      /\ ids' \in [Checkers -> SUBSET Ids] /\ pending' \in [Checkers -> SUBSET Routes]
      /\ waitsFor' \in [Tasks \cup Checkers -> Checkers \cup {None}]
  BY <1>3, <1>4 DEF TypeOK
<1> QED BY <1>1, <1>2, <1>6, <1>7

\* A check() that finds a running batch keeps the types.
LEMMA JoinBatchType ==
  ASSUME TypeOK, NEW c \in Checkers, NEW chosen \in SUBSET Ids, JoinBatch(c, chosen)
  PROVE  /\ health' \in [Routes -> HealthStates]
         /\ checking' \in Checkers \cup {None}
         /\ call' \in [Checkers -> {"idle", "waiting", "woken", "running"}]
         /\ ids' \in [Checkers -> SUBSET Ids]
         /\ pending' \in [Checkers -> SUBSET Routes]
         /\ waitsFor' \in [Tasks \cup Checkers -> Checkers \cup {None}]
BY DEF TypeOK, JoinBatch

\* The handlers of the checks.
LEMMA CheckStepType ==
  ASSUME TypeOK, NEW c \in Checkers, CheckStep(c)
  PROVE  TypeOK'
<1>0. /\ TasksTyped(task) /\ routes \subseteq Routes /\ settings \in [Routes -> Settings]
      /\ waiters \in [Hosts -> Seq(Tasks)] /\ inFlight \in Loads
  BY DEF TypeOK, TasksTyped
<1>1. ASSUME NEW chosen \in SUBSET Ids, Check(c, chosen) PROVE TypeOK'
  <2>1. UNCHANGED <<routes, made, settings, stored, failures, saving>>
    BY <1>1 DEF Check
  <2>2. CASE checking = None
    <3>1. StartBatch(c, chosen, routes, settings)
      BY <1>1, <2>2 DEF Check
    <3> QED BY <1>0, <2>1, <3>1, StartBatchType DEF TypeOK, TasksTyped
  <2>3. CASE checking # None
    <3>1. JoinBatch(c, chosen) /\ UNCHANGED <<active, stale, slotVars>>
      BY <1>1, <2>3 DEF Check
    <3> QED BY <1>0, <2>1, <3>1, JoinBatchType DEF TypeOK, TasksTyped, slotVars
  <2> QED BY <2>2, <2>3
<1>2. ASSUME NEW cfg \in Configs, Reload(c, cfg) PROVE TypeOK'
  <2>1. /\ routes' = cfg /\ made' = made \cup cfg /\ settings' = SettingsIn(cfg)
        /\ UNCHANGED <<stored, failures, saving>>
    BY <1>2 DEF Reload
  <2>2. cfg \subseteq Routes /\ Direct \in cfg
    BY DEF Configs
  <2>3. SettingsIn(cfg) \in [Routes -> Settings]
    BY DEF SettingsIn, TypeOK, Ids
  <2>4. Ids \in SUBSET Ids
    OBVIOUS
  <2>5. CASE checking = None
    <3>1. StartBatch(c, Ids, cfg, SettingsIn(cfg))
      BY <1>2, <2>5 DEF Reload
    <3> QED BY <1>0, <2>1, <2>2, <2>3, <3>1, StartBatchType DEF TypeOK, TasksTyped
  <2>6. CASE checking # None
    <3>1. JoinBatch(c, Ids) /\ Recompute(cfg, SettingsIn(cfg), health, inFlight, task)
      BY <1>2, <2>6 DEF Reload
    <3>2. /\ active' \subseteq cfg /\ stale' \in BOOLEAN
          /\ waiters' \in [Hosts -> Seq(Tasks)] /\ inFlight' \in Loads /\ TasksTyped(task')
      BY <1>0, <2>2, <2>3, <3>1, RecomputeFacts
    <3> QED BY <2>1, <2>2, <2>3, <2>4, <3>1, <3>2, JoinBatchType DEF TypeOK, TasksTyped
  <2> QED BY <2>5, <2>6
<1>3. CASE ResumeCheck(c)
  <2>1. /\ StartBatch(c, ids[c], routes, settings)
        /\ UNCHANGED <<routes, made, settings, stored, failures, saving>>
    BY <1>3 DEF ResumeCheck
  <2> QED BY <1>0, <2>1, StartBatchType DEF TypeOK, TasksTyped
<1>4. ASSUME NEW r \in Routes, NEW ip \in Ips, NEW latency \in Latencies,
             CheckOk(c, r, ip, latency)
      PROVE  TypeOK'
  <2>1. Passed(ip, latency) \in HealthStates
    BY PoolAssumption DEF Passed, HealthStates
  <2>2. /\ health' \in [Routes -> HealthStates] /\ failures' \in [Routes -> 0..MaxFailures]
        /\ pending' \in [Checkers -> SUBSET Routes]
    BY <1>4, <2>1, PoolAssumption DEF CheckOk, TypeOK
  <2> QED BY <1>4, <2>2 DEF CheckOk, TypeOK, slotVars, patchVars
<1>5. ASSUME NEW r \in Routes, CheckFail(c, r) PROVE TypeOK'
  <2>1. Failed \in HealthStates
    BY PoolAssumption DEF Failed, Unchecked, HealthStates
  <2>2. health' \in [Routes -> HealthStates] /\ pending' \in [Checkers -> SUBSET Routes]
    BY <1>5, <2>1 DEF CheckFail, TypeOK
  <2> QED BY <1>5, <2>2 DEF CheckFail, TypeOK, slotVars, patchVars
<1>6. CASE BatchDone(c)
  <2> DEFINE ts == [t \in Tasks |-> [task[t] EXCEPT !.pc = IF @ = "waitCheck" /\ Awaits(t, c) THEN "woken" ELSE @]]
  <2>1. /\ Recompute(routes, settings, health, inFlight, ts) /\ checking' = None
        /\ UNCHANGED <<routes, made, settings, stored, health, failures, ids, pending, saving>>
    BY <1>6 DEF BatchDone
  <2>2. call' \in [Checkers -> {"idle", "waiting", "woken", "running"}]
    BY <1>6 DEF BatchDone, TypeOK
  <2>3. waitsFor' \in [Tasks \cup Checkers -> Checkers \cup {None}]
    BY <1>6 DEF BatchDone, TypeOK
  <2>4. TasksTyped(ts)
    BY <1>0, WokenTyped
  <2> HIDE DEF ts
  <2>5. /\ active' \subseteq routes /\ stale' \in BOOLEAN
        /\ waiters' \in [Hosts -> Seq(Tasks)] /\ inFlight' \in Loads /\ TasksTyped(task')
    BY <1>0, <2>1, <2>4, RecomputeFacts
  <2> QED BY <2>1, <2>2, <2>3, <2>5 DEF TypeOK, TasksTyped
<1> QED BY <1>1, <1>2, <1>3, <1>4, <1>5, <1>6 DEF CheckStep

\* The handlers of the settings page.
LEMMA PatchStepType ==
  ASSUME TypeOK, NEW p \in Patchers, PatchStep(p)
  PROVE  TypeOK'
<1>0. /\ TasksTyped(task) /\ routes \subseteq Routes /\ settings \in [Routes -> Settings]
      /\ waiters \in [Hosts -> Seq(Tasks)] /\ inFlight \in Loads
  BY DEF TypeOK, TasksTyped
<1>1. ASSUME NEW r \in Routes, NEW s \in Settings, Patch(p, r, s) PROVE TypeOK'
  BY <1>1 DEF Patch, TypeOK, slotVars, checkVars
<1>2. CASE SaveOk(p)
  <2>1. /\ Recompute(routes, settings, health, inFlight, task) /\ saving' = saving \ {p}
        /\ UNCHANGED <<routes, made, settings, stored, health, failures, checkVars>>
    BY <1>2 DEF SaveOk
  <2>2. /\ active' \subseteq routes /\ stale' \in BOOLEAN
        /\ waiters' \in [Hosts -> Seq(Tasks)] /\ inFlight' \in Loads /\ TasksTyped(task')
    BY <1>0, <2>1, RecomputeFacts
  <2> QED BY <2>1, <2>2 DEF TypeOK, TasksTyped, checkVars
<1>3. CASE SaveFail(p)
  BY <1>3 DEF SaveFail, TypeOK, routeVars, slotVars, checkVars
<1> QED BY <1>1, <1>2, <1>3 DEF PatchStep

\* Every reachable state is well typed.
THEOREM TypeCorrect == Spec => []TypeOK
<1>1. Init => TypeOK
  BY InitType
<1>2. TypeOK /\ [Next]_vars => TypeOK'
  <2>1. ASSUME TypeOK, Next PROVE TypeOK'
    BY <2>1, TaskStepType, CheckStepType, PatchStepType DEF Next
  <2>2. ASSUME TypeOK, UNCHANGED vars PROVE TypeOK'
    BY <2>2 DEF TypeOK, vars, routeVars, slotVars, checkVars, patchVars
  <2> QED BY <2>1, <2>2
<1> QED BY <1>1, <1>2, PTL DEF Spec

-----------------------------------------------------------------------------
(***************************************************************************)
(* The queues and the active set. The three invariants are established     *)
(* together by every handler that recomputes; the others leave their parts *)
(* alone, except acquire(), which queues only where nothing is free, and   *)
(* release(), which serves the queue of the host it frees.                 *)
(***************************************************************************)
QueueInv == WaiterHasWaker /\ NoIdleSlot /\ ActiveIsCurrent

\* A batch still waits for a route only while its call is running.
PendingRuns == \A c \in Checkers : pending[c] # {} => call[c] = "running"

\* recompute() strands nobody and leaves no slot idle.
LEMMA RecomputeQueueInv ==
  ASSUME active' = Active(routes', settings', health'),
         \A h \in Hosts :
           waiters'[h] # <<>> => /\ Free(h, active', settings', inFlight') = {}
                                 /\ \E r \in active' : inFlight'[r][h] > 0
  PROVE  QueueInv'
<1>1. WaiterHasWaker'
  BY DEF WaiterHasWaker
<1>2. NoIdleSlot'
  BY DEF NoIdleSlot
<1>3. ActiveIsCurrent'
  BY DEF ActiveIsCurrent
<1> QED BY <1>1, <1>2, <1>3 DEF QueueInv

\* acquire() outside a wait: a slot more, or a place in a queue with nothing free.
LEMMA PickOrQueueInv ==
  ASSUME TypeOK, QueueInv, NEW t \in Tasks, NEW h \in Hosts, NEW av \in Ids \cup {None},
         PickOrQueue(t, h, av), UNCHANGED <<routes, settings, health, active, stale, call>>
  PROVE  QueueInv'
<1>0. /\ waiters \in [Hosts -> Seq(Tasks)] /\ inFlight \in Loads
      /\ active \subseteq Routes /\ settings \in [Routes -> Settings]
  BY DEF TypeOK
<1>1. ActiveIsCurrent'
  BY DEF QueueInv, ActiveIsCurrent
<1>2. ASSUME NEW r \in Pick(h, av, active, settings, inFlight),
             inFlight' = [inFlight EXCEPT ![r][h] = @ + 1], UNCHANGED waiters
      PROVE  WaiterHasWaker' /\ NoIdleSlot'
  <2>1. \A q \in Routes, x \in Hosts :
          inFlight'[q][x] \in Nat /\ inFlight[q][x] \in Nat /\ inFlight'[q][x] >= inFlight[q][x]
    BY <1>0, <1>2 DEF Loads
  <2>2. WaiterHasWaker'
    <3>1. SUFFICES ASSUME NEW x \in Hosts, waiters'[x] # <<>>
                   PROVE  \E q \in active : inFlight'[q][x] > 0
      BY DEF WaiterHasWaker
    <3>2. PICK q \in active : inFlight[q][x] > 0
      BY <1>2, <3>1 DEF QueueInv, WaiterHasWaker
    <3>3. inFlight'[q][x] > 0
      BY <1>0, <2>1, <3>2
    <3> QED BY <3>3
  <2>3. NoIdleSlot'
    <3>1. SUFFICES ASSUME ~stale, NEW x \in Hosts, waiters'[x] # <<>>
                   PROVE  Free(x, active, settings, inFlight') = {}
      BY DEF NoIdleSlot
    <3>2. \A q \in active : ~(inFlight[q][x] < settings[q].concurrency)
      BY <1>2, <3>1 DEF QueueInv, NoIdleSlot, Free
    <3>3. \A q \in active : ~(inFlight'[q][x] < settings[q].concurrency)
      <4>1. ASSUME NEW q \in active PROVE ~(inFlight'[q][x] < settings[q].concurrency)
        <5>1. settings[q].concurrency \in Nat
          BY <1>0, PoolAssumption DEF Settings
        <5> QED BY <1>0, <2>1, <3>2, <5>1
      <4> QED BY <4>1
    <3> QED BY <3>3 DEF Free
  <2> QED BY <2>2, <2>3
<1>3. ASSUME UNCHANGED <<inFlight, waiters>> PROVE WaiterHasWaker' /\ NoIdleSlot'
  BY <1>3 DEF QueueInv, WaiterHasWaker, NoIdleSlot
<1>4. ASSUME Free(h, active, settings, inFlight) = {}, active # {},
             waiters' = [waiters EXCEPT ![h] = Append(@, t)], UNCHANGED inFlight
      PROVE  WaiterHasWaker' /\ NoIdleSlot'
  <2>1. \E q \in active : inFlight[q][h] > 0
    BY <1>0, <1>4, NoRoomIsBusy
  <2>2. \A x \in Hosts \ {h} : waiters'[x] = waiters[x]
    BY <1>0, <1>4
  <2>3. WaiterHasWaker'
    BY <1>4, <2>1, <2>2 DEF QueueInv, WaiterHasWaker
  <2>4. NoIdleSlot'
    BY <1>4, <2>2 DEF QueueInv, NoIdleSlot
  <2> QED BY <2>3, <2>4
<1> QED BY <1>1, <1>2, <1>3, <1>4 DEF PickOrQueue, QueueInv

\* The steps of a download strand nobody.
LEMMA TaskStepQueueInv ==
  ASSUME TypeOK, QueueInv, NEW t \in Tasks, TaskStep(t)
  PROVE  QueueInv'
<1>0. /\ TasksTyped(task) /\ waiters \in [Hosts -> Seq(Tasks)] /\ inFlight \in Loads
      /\ routes \subseteq Routes /\ active \subseteq Routes /\ settings \in [Routes -> Settings]
  BY DEF TypeOK, TasksTyped
<1>1. ASSUME UNCHANGED <<routes, settings, health, active, stale, call, inFlight, waiters>>
      PROVE  QueueInv'
  BY <1>1 DEF QueueInv, WaiterHasWaker, NoIdleSlot, ActiveIsCurrent
<1>2. ASSUME NEW h \in Hosts, NEW av \in Ids \cup {None}, Acquire(t, h, av) PROVE QueueInv'
  <2>1. CASE AwaitsCheck
    BY <1>1, <1>2, <2>1 DEF Acquire, routeVars, patchVars
  <2>2. CASE ~AwaitsCheck
    BY <1>2, <2>2, PickOrQueueInv DEF Acquire, routeVars, patchVars
  <2> QED BY <2>1, <2>2
<1>3. CASE ResumeAcquire(t)
  <2>1. task[t].host \in Hosts /\ task[t].avoid \in Ids \cup {None}
    BY <1>0, <1>3 DEF ResumeAcquire, TasksTyped, TaskStates
  <2> QED BY <1>3, <2>1, PickOrQueueInv DEF ResumeAcquire, routeVars, checkVars, patchVars
<1>4. CASE ThrottlePass(t)
  BY <1>1, <1>4 DEF ThrottlePass, routeVars, checkVars, patchVars
<1>5. CASE Fail(t)
  BY <1>1, <1>5 DEF Fail, routeVars, checkVars, patchVars
<1>6. ASSUME NEW outcome \in Outcomes, Release(t, outcome) PROVE QueueInv'
  <2> DEFINE r == LeaseRoute(t)
             h == task[t].host
             load == [inFlight EXCEPT ![r][h] = IF @ > 1 THEN @ - 1 ELSE 0]
             ts == [task EXCEPT ![t] = Idle]
             tripped == [health EXCEPT ![r].status = "error"]
  <2>1. r \in Routes /\ h \in Hosts
    BY <1>6 DEF Release, TypeOK, LeaseRoute
  <2>2. load \in Loads
    BY <1>0, <2>1 DEF Loads
  <2>3. TasksTyped(ts)
    BY <1>0, IdleTyped, TaskUpdate
  <2>4. CASE Trips(r, outcome)
    <3>1. /\ health' = tripped /\ Recompute(routes, settings, tripped, load, ts)
          /\ UNCHANGED <<routes, settings>>
      BY <1>6, <2>4 DEF Release
    <3> HIDE DEF load, ts, tripped
    <3>2. /\ active' = Active(routes, settings, tripped)
          /\ \A x \in Hosts :
               waiters'[x] # <<>> => /\ Free(x, active', settings, inFlight') = {}
                                     /\ \E q \in active' : inFlight'[q][x] > 0
      BY <1>0, <2>2, <2>3, <3>1, RecomputeFacts
    <3> QED BY <3>1, <3>2, RecomputeQueueInv
  <2>5. CASE ~Trips(r, outcome)
    <3>1. /\ Drain({h}, active, settings, load, ts)
          /\ UNCHANGED <<routes, settings, health, active, stale, call>>
      BY <1>6, <2>5 DEF Release, checkVars
    <3>2. \A x \in Hosts \ {h}, q \in Routes : load[q][x] = inFlight[q][x]
      BY <1>0, <2>1 DEF Loads
    <3> HIDE DEF load, ts, tripped, h
    <3>3. {h} \subseteq Hosts
      BY <2>1
    <3>4. /\ inFlight' \in Loads
          /\ \A x \in Hosts \ {h} :
               waiters'[x] = waiters[x] /\ \A q \in Routes : inFlight'[q][x] = load[q][x]
      <4>1. inFlight' \in Loads
        BY <1>0, <2>2, <2>3, <3>1, <3>3, DrainType
      <4>2. ASSUME NEW x \in Hosts \ {h}
            PROVE  waiters'[x] = waiters[x] /\ \A q \in Routes : inFlight'[q][x] = load[q][x]
        <5>1. x \notin {h}
          OBVIOUS
        <5> QED BY <2>2, <3>1, <5>1, DrainFrame
      <4> QED BY <4>1, <4>2
    <3>5. waiters'[h] # <<>> => active # {} /\ Free(h, active, settings, inFlight') = {}
      BY <1>0, <2>2, <3>1, <3>3, DrainLeavesNoRoom
    <3>6. waiters'[h] # <<>> => \E q \in active : inFlight'[q][h] > 0
      BY <1>0, <2>1, <3>4, <3>5, NoRoomIsBusy
    <3>7. \A x \in Hosts \ {h} :
            /\ waiters'[x] = waiters[x]
            /\ \A q \in Routes : inFlight'[q][x] = inFlight[q][x]
      BY <3>2, <3>4
    <3>8. WaiterHasWaker'
      <4>1. SUFFICES ASSUME NEW x \in Hosts, waiters'[x] # <<>>
                     PROVE  \E q \in active : inFlight'[q][x] > 0
        BY <3>1 DEF WaiterHasWaker
      <4>2. CASE x = h
        BY <3>6, <4>1, <4>2
      <4>3. CASE x # h
        BY <1>0, <3>7, <4>1, <4>3 DEF QueueInv, WaiterHasWaker
      <4> QED BY <4>2, <4>3
    <3>9. NoIdleSlot'
      <4>1. SUFFICES ASSUME ~stale, NEW x \in Hosts, waiters'[x] # <<>>
                     PROVE  Free(x, active, settings, inFlight') = {}
        BY <3>1 DEF NoIdleSlot
      <4>2. CASE x = h
        BY <3>5, <4>1, <4>2
      <4>3. CASE x # h
        BY <1>0, <3>7, <4>1, <4>3 DEF QueueInv, NoIdleSlot, Free
      <4> QED BY <4>2, <4>3
    <3>10. ActiveIsCurrent'
      BY <3>1 DEF QueueInv, ActiveIsCurrent
    <3> QED BY <3>8, <3>9, <3>10 DEF QueueInv
  <2> QED BY <2>4, <2>5
<1> QED BY <1>2, <1>3, <1>4, <1>5, <1>6 DEF TaskStep

\* The steps of checks and reloads strand nobody.
LEMMA CheckStepQueueInv ==
  ASSUME TypeOK, PendingRuns, QueueInv, NEW c \in Checkers, CheckStep(c)
  PROVE  QueueInv'
<1>0. /\ TasksTyped(task) /\ waiters \in [Hosts -> Seq(Tasks)] /\ inFlight \in Loads
      /\ routes \subseteq Routes /\ active \subseteq Routes /\ settings \in [Routes -> Settings]
  BY DEF TypeOK, TasksTyped
\* Whoever recomputes over what the routes, settings and health now are.
<1>1. ASSUME NEW rs, rs \subseteq Routes, NEW st \in [Routes -> Settings], NEW he,
             NEW ts, TasksTyped(ts), Recompute(rs, st, he, inFlight, ts),
             routes' = rs, settings' = st, health' = he
      PROVE  QueueInv'
  <2>1. /\ active' = Active(rs, st, he)
        /\ \A x \in Hosts :
             waiters'[x] # <<>> => /\ Free(x, active', st, inFlight') = {}
                                   /\ \E q \in active' : inFlight'[q][x] > 0
    BY <1>0, <1>1, RecomputeFacts
  <2> QED BY <1>1, <2>1, RecomputeQueueInv
<1>2. ASSUME NEW cfg, cfg \subseteq Routes, NEW st \in [Routes -> Settings], NEW chosen,
             StartBatch(c, chosen, cfg, st), routes' = cfg, settings' = st
      PROVE  QueueInv'
  BY <1>0, <1>1, <1>2 DEF StartBatch
<1>3. ASSUME NEW chosen \in SUBSET Ids, Check(c, chosen) PROVE QueueInv'
  <2>1. CASE checking = None
    BY <1>0, <1>2, <1>3, <2>1 DEF Check
  <2>2. CASE checking # None
    <3>1. UNCHANGED <<routes, settings, health, active, stale, inFlight, waiters>>
      BY <1>3, <2>2 DEF Check, JoinBatch, slotVars
    <3>2. \A d \in Checkers : call[d] = "running" => call'[d] = "running"
      BY <1>3, <2>2 DEF Check, JoinBatch, TypeOK
    <3> QED BY <3>1, <3>2 DEF QueueInv, WaiterHasWaker, NoIdleSlot, ActiveIsCurrent
  <2> QED BY <2>1, <2>2
<1>4. ASSUME NEW cfg \in Configs, Reload(c, cfg) PROVE QueueInv'
  <2>1. routes' = cfg /\ settings' = SettingsIn(cfg)
    BY <1>4 DEF Reload
  <2>2. cfg \subseteq Routes /\ SettingsIn(cfg) \in [Routes -> Settings]
    BY DEF Configs, SettingsIn, TypeOK, Ids
  <2>3. CASE checking = None
    BY <1>2, <1>4, <2>1, <2>2, <2>3 DEF Reload
  <2>4. CASE checking # None
    <3>1. Recompute(cfg, SettingsIn(cfg), health, inFlight, task) /\ health' = health
      BY <1>4, <2>4 DEF Reload, JoinBatch
    <3> QED BY <1>0, <1>1, <2>1, <2>2, <3>1
  <2> QED BY <2>3, <2>4
<1>5. CASE ResumeCheck(c)
  BY <1>0, <1>2, <1>5 DEF ResumeCheck
\* A result of a check leaves the active routes behind, but only while it runs.
<1>6. ASSUME NEW r \in pending[c],
             UNCHANGED <<routes, settings, active, stale, inFlight, waiters, call>>
      PROVE  QueueInv'
  BY <1>6 DEF PendingRuns, QueueInv, WaiterHasWaker, NoIdleSlot, ActiveIsCurrent
<1>7. ASSUME NEW r \in Routes, NEW ip \in Ips, NEW latency \in Latencies,
             CheckOk(c, r, ip, latency)
      PROVE  QueueInv'
  BY <1>6, <1>7 DEF CheckOk, slotVars, patchVars
<1>8. ASSUME NEW r \in Routes, CheckFail(c, r) PROVE QueueInv'
  BY <1>6, <1>8 DEF CheckFail, slotVars, patchVars
<1>9. CASE BatchDone(c)
  <2> DEFINE ts == [t \in Tasks |-> [task[t] EXCEPT
                      !.pc = IF @ = "waitCheck" /\ Awaits(t, c) THEN "woken" ELSE @]]
  <2>1. /\ Recompute(routes, settings, health, inFlight, ts)
        /\ UNCHANGED <<routes, settings, health>>
    BY <1>9 DEF BatchDone
  <2>2. TasksTyped(ts)
    BY <1>0, WokenTyped
  <2> HIDE DEF ts
  <2> QED BY <1>0, <1>1, <2>1, <2>2
<1> QED BY <1>3, <1>4, <1>5, <1>7, <1>8, <1>9 DEF CheckStep

\* A change of settings strands nobody once it is saved.
LEMMA PatchStepQueueInv ==
  ASSUME TypeOK, QueueInv, NEW p \in Patchers, PatchStep(p)
  PROVE  QueueInv'
<1>0. /\ TasksTyped(task) /\ waiters \in [Hosts -> Seq(Tasks)] /\ inFlight \in Loads
      /\ routes \subseteq Routes /\ settings \in [Routes -> Settings]
  BY DEF TypeOK, TasksTyped
<1>1. ASSUME NEW r \in Routes, NEW s \in Settings, Patch(p, r, s) PROVE QueueInv'
  BY <1>1 DEF Patch, QueueInv, WaiterHasWaker, NoIdleSlot, ActiveIsCurrent, slotVars
<1>2. CASE SaveOk(p)
  <2>1. Recompute(routes, settings, health, inFlight, task) /\ UNCHANGED <<routes, settings, health>>
    BY <1>2 DEF SaveOk
  <2>2. /\ active' = Active(routes, settings, health)
        /\ \A x \in Hosts :
             waiters'[x] # <<>> => /\ Free(x, active', settings, inFlight') = {}
                                   /\ \E q \in active' : inFlight'[q][x] > 0
    BY <1>0, <2>1, RecomputeFacts
  <2> QED BY <2>1, <2>2, RecomputeQueueInv
<1>3. CASE SaveFail(p)
  BY <1>3 DEF SaveFail, QueueInv, WaiterHasWaker, NoIdleSlot, ActiveIsCurrent,
              routeVars, slotVars, checkVars
<1> QED BY <1>1, <1>2, <1>3 DEF PatchStep

\* Every step keeps the link between a running batch and the check() that ends it.
LEMMA PendingRunsStep ==
  ASSUME TypeOK, PendingRuns, Next
  PROVE  PendingRuns'
<1>1. ASSUME NEW c \in Checkers, NEW chosen, NEW cfg, NEW st, StartBatch(c, chosen, cfg, st)
      PROVE  PendingRuns'
  BY <1>1 DEF StartBatch, PendingRuns, TypeOK
<1>2. ASSUME NEW c \in Checkers, NEW chosen, JoinBatch(c, chosen), call[c] = "idle"
      PROVE  PendingRuns'
  BY <1>2 DEF JoinBatch, PendingRuns, TypeOK
<1>3. ASSUME UNCHANGED <<call, pending>> PROVE PendingRuns'
  BY <1>3 DEF PendingRuns
<1>4. ASSUME NEW t \in Tasks, TaskStep(t) PROVE PendingRuns'
  BY <1>3, <1>4 DEF TaskStep, Acquire, ResumeAcquire, ThrottlePass, Fail, Release, checkVars
<1>5. ASSUME NEW p \in Patchers, PatchStep(p) PROVE PendingRuns'
  BY <1>3, <1>5 DEF PatchStep, Patch, SaveOk, SaveFail, checkVars
<1>6. ASSUME NEW c \in Checkers, CheckStep(c) PROVE PendingRuns'
  <2>1. ASSUME NEW chosen, Check(c, chosen) PROVE PendingRuns'
    BY <1>1, <1>2, <2>1 DEF Check
  <2>2. ASSUME NEW cfg, Reload(c, cfg) PROVE PendingRuns'
    BY <1>1, <1>2, <2>2 DEF Reload
  <2>3. CASE ResumeCheck(c)
    BY <1>1, <2>3 DEF ResumeCheck
  <2>4. ASSUME NEW r, NEW ip, NEW latency, CheckOk(c, r, ip, latency) PROVE PendingRuns'
    BY <2>4 DEF CheckOk, PendingRuns, TypeOK
  <2>5. ASSUME NEW r, CheckFail(c, r) PROVE PendingRuns'
    BY <2>5 DEF CheckFail, PendingRuns, TypeOK
  <2>6. CASE BatchDone(c)
    BY <2>6 DEF BatchDone, BatchReady, Awaits, PendingRuns, TypeOK
  <2> QED BY <1>6, <2>1, <2>2, <2>3, <2>4, <2>5, <2>6 DEF CheckStep
<1> QED BY <1>4, <1>5, <1>6 DEF Next

\* The three queue invariants, with what makes them inductive, in every state.
LEMMA QueueInvariance == Spec => [](TypeOK /\ PendingRuns /\ QueueInv)
<1> DEFINE IInv == TypeOK /\ PendingRuns /\ QueueInv
<1>1. Init => IInv
  <2>1. SUFFICES ASSUME Init PROVE PendingRuns /\ QueueInv
    BY InitType
  <2>2. \A h \in Hosts : waiters[h] = <<>>
    BY <2>1 DEF Init
  <2> QED BY <2>1, <2>2
      DEF Init, PendingRuns, QueueInv, WaiterHasWaker, NoIdleSlot, ActiveIsCurrent
<1>2. IInv /\ [Next]_vars => IInv'
  <2>1. ASSUME IInv, Next PROVE QueueInv'
    BY <2>1, TaskStepQueueInv, CheckStepQueueInv, PatchStepQueueInv DEF Next
  <2>2. ASSUME IInv, Next PROVE PendingRuns'
    BY <2>2, PendingRunsStep
  <2>3. ASSUME IInv, Next PROVE TypeOK'
    BY <2>3, TaskStepType, CheckStepType, PatchStepType DEF Next
  <2>4. ASSUME IInv, UNCHANGED vars PROVE IInv'
    <3>1. UNCHANGED <<routes, made, settings, stored, health, failures, active, inFlight,
                      waiters, task, checking, call, ids, pending, waitsFor, saving, stale>>
      BY <2>4 DEF vars, routeVars, slotVars, checkVars, patchVars
    <3>2. TypeOK'
      BY <2>4, <3>1 DEF TypeOK
    <3>3. PendingRuns' /\ QueueInv'
      BY <2>4, <3>1 DEF PendingRuns, QueueInv, WaiterHasWaker, NoIdleSlot, ActiveIsCurrent
    <3> QED BY <3>2, <3>3
  <2> QED BY <2>1, <2>2, <2>3, <2>4
<1> QED BY <1>1, <1>2, PTL DEF Spec

\* Nobody is stranded in a queue, no slot is idle beside one, and the routes in
\* use follow settings and health: drain() and recompute() in every handler.
THEOREM QueuesAndRoutes == Spec => [](WaiterHasWaker /\ NoIdleSlot /\ ActiveIsCurrent)
<1>1. QueueInv => WaiterHasWaker /\ NoIdleSlot /\ ActiveIsCurrent
  BY DEF QueueInv
<1> QED BY <1>1, QueueInvariance, PTL

-----------------------------------------------------------------------------
(***************************************************************************)
(* What a later acquire() and a switched-off proxy cannot do.              *)
(***************************************************************************)
\* drain() gives slots only to downloads that were queued.
LEMMA DrainGrantsQueued ==
  ASSUME NEW hs, NEW act, NEW st, NEW load, NEW ts, Drain(hs, act, st, load, ts),
         NEW t \in Tasks, ts[t].pc # "queued"
  PROVE  task'[t] = ts[t]
<1>1. t \notin Queued(hs, ts) BY DEF Queued
<1>2. CASE act = {} BY <1>1, <1>2 DEF Drain, RejectAll
<1>3. CASE act # {}
  <2>1. PICK granted : /\ granted \subseteq Queued(hs, ts)
                       /\ \E f : task' = [u \in Tasks |-> IF u \in granted THEN f[u] ELSE ts[u]]
    <3>1. PICK g : task' = [u \in Tasks |->
             IF u \in {v \in Queued(hs, ts) : Place(v) \in DOMAIN g[ts[v].host]}
             THEN [ts[u] EXCEPT !.pc = "granted", !.avoid = None, !.route = g[ts[u].host][Place(u)]]
             ELSE ts[u]]
      BY <1>3, Zenon DEF Drain, GrantAll
    <3> DEFINE granted == {v \in Queued(hs, ts) : Place(v) \in DOMAIN g[ts[v].host]}
               f == [u \in Tasks |->
                 [ts[u] EXCEPT !.pc = "granted", !.avoid = None, !.route = g[ts[u].host][Place(u)]]]
    <3>2. task' = [u \in Tasks |-> IF u \in granted THEN f[u] ELSE ts[u]]
      BY <3>1
    <3>3. granted \subseteq Queued(hs, ts)
      OBVIOUS
    <3> HIDE DEF granted, f
    <3> QED BY <3>2, <3>3
  <2> QED BY <1>1, <2>1
<1> QED BY <1>2, <1>3

\* Whoever gets a slot without having queued gets it in acquire() itself.
LEMMA GrantedAtOnce ==
  ASSUME TypeOK, Next, NEW t \in Tasks, task[t].pc \in {"idle", "woken"}, task'[t].pc = "granted"
  PROVE  /\ UNCHANGED <<waiters, active, settings, stale>>
         /\ task'[t].host \in Hosts
         /\ Free(task'[t].host, active, settings, inFlight) # {}
<1>0. task \in [Tasks -> TaskStates]
  BY DEF TypeOK
<1>1. ASSUME NEW rs, NEW st, NEW he, NEW load, Recompute(rs, st, he, load, task) PROVE FALSE
  BY <1>1, DrainGrantsQueued DEF Recompute
<1>2. ASSUME NEW u \in Tasks, NEW h \in Hosts, NEW av, PickOrQueue(u, h, av)
      PROVE  u = t /\ task'[t].host = h /\ Free(h, active, settings, inFlight) # {} /\ UNCHANGED waiters
  <2>1. CASE Free(h, active, settings, inFlight) = {}
    <3>1. Pick(h, av, active, settings, inFlight) = {}
      BY <2>1, PickFree
    <3> QED BY <1>0, <1>2, <3>1 DEF PickOrQueue, Idle
  <2>2. CASE Free(h, active, settings, inFlight) # {}
    BY <1>0, <1>2, <2>2 DEF PickOrQueue, Idle
  <2> QED BY <2>1, <2>2
<1>3. ASSUME NEW u \in Tasks, NEW h \in Hosts, NEW av, Acquire(u, h, av)
      PROVE  PickOrQueue(u, h, av) /\ UNCHANGED <<active, settings, stale>>
  <2>1. ~AwaitsCheck
    BY <1>0, <1>3 DEF Acquire, TaskStates
  <2> QED BY <1>3, <2>1 DEF Acquire, routeVars, patchVars
<1>4. ASSUME NEW u \in Tasks, ResumeAcquire(u)
      PROVE  /\ PickOrQueue(u, task[u].host, task[u].avoid) /\ task[u].host \in Hosts
             /\ UNCHANGED <<active, settings, stale>>
  BY <1>4 DEF ResumeAcquire, TypeOK, routeVars, patchVars
<1>5. ASSUME NEW u \in Tasks, TaskStep(u)
      PROVE  (\E h \in Hosts, av \in Ids \cup {None} : Acquire(u, h, av)) \/ ResumeAcquire(u)
  <2>1. CASE ThrottlePass(u) BY <1>0, <2>1 DEF ThrottlePass
  <2>2. CASE Fail(u) BY <1>0, <2>2 DEF Fail, Idle
  <2>3. ASSUME NEW outcome, Release(u, outcome) PROVE FALSE
    <3> DEFINE ts == [task EXCEPT ![u] = Idle]
    <3>1. ts[t].pc # "queued" /\ ts[t].pc # "granted" BY <1>0 DEF Idle
    <3>2. PICK hs, act, st, load : Drain(hs, act, st, load, ts)
      BY <2>3, Zenon DEF Release, Recompute
    <3> HIDE DEF ts
    <3>3. task'[t] = ts[t] BY <3>1, <3>2, DrainGrantsQueued
    <3> QED BY <3>1, <3>3
  <2> QED BY <1>5, <2>1, <2>2, <2>3 DEF TaskStep
<1>6. ASSUME NEW c \in Checkers, CheckStep(c) PROVE FALSE
  <2>1. ASSUME NEW chosen, NEW cfg, NEW st, StartBatch(c, chosen, cfg, st) PROVE FALSE
    BY <1>1, <2>1 DEF StartBatch
  <2>2. CASE BatchDone(c)
    <3> DEFINE ts == [u \in Tasks |-> [task[u] EXCEPT
                        !.pc = IF @ = "waitCheck" /\ Awaits(u, c) THEN "woken" ELSE @]]
    <3>1. ts[t].pc # "queued" /\ ts[t].pc # "granted" BY <1>0 DEF TaskStates
    <3>2. Recompute(routes, settings, health, inFlight, ts) BY <2>2 DEF BatchDone
    <3> HIDE DEF ts
    <3>3. task'[t] = ts[t] BY <3>1, <3>2, DrainGrantsQueued DEF Recompute
    <3> QED BY <3>1, <3>3
  <2>3. CASE task' = task BY <2>3
  <2>4. ASSUME NEW chosen, Check(c, chosen) PROVE FALSE
    BY <2>1, <2>3, <2>4 DEF Check, slotVars
  <2>5. ASSUME NEW cfg, Reload(c, cfg) PROVE FALSE
    BY <1>1, <2>1, <2>5 DEF Reload
  <2> QED BY <1>6, <2>1, <2>2, <2>3, <2>4, <2>5 DEF CheckStep, ResumeCheck, CheckOk, CheckFail, slotVars
<1>7. ASSUME NEW p \in Patchers, PatchStep(p) PROVE FALSE
  BY <1>1, <1>7 DEF PatchStep, Patch, SaveOk, SaveFail, slotVars
<1> QED BY <1>2, <1>3, <1>4, <1>5, <1>6, <1>7 DEF Next

\* Nobody overtakes a queued download: acquire() gives a slot at once only where
\* drain() has left nobody waiting.
THEOREM QueueIsNotOvertaken == Spec => NoOvertaking
<1>1. ASSUME TypeOK, QueueInv, Next, NEW t \in Tasks,
             task[t].pc \in {"idle", "woken"}, task'[t].pc = "granted"
      PROVE  stale \/ waiters[task'[t].host] = <<>>
  BY <1>1, GrantedAtOnce DEF QueueInv, NoIdleSlot
<1>2. TypeOK /\ QueueInv /\ [Next]_vars =>
        [\A t \in Tasks :
           /\ task[t].pc \in {"idle", "woken"}
           /\ task'[t].pc = "granted"
           => stale \/ waiters[task'[t].host] = <<>>]_vars
  BY <1>1
<1> QED BY <1>2, QueueInvariance, PTL DEF Spec, NoOvertaking

-----------------------------------------------------------------------------
(***************************************************************************)
(* Settings and the calls of check().                                      *)
(***************************************************************************)
\* The configuration never has two routes of one id.
IdsDistinct == \A r, q \in routes : IdOf[r] = IdOf[q] => r = q

\* The stored settings are those of the routes, in every step.
LEMMA SettingsStep ==
  ASSUME TypeOK, IdsDistinct, SettingsSurviveReload, Next
  PROVE  (IdsDistinct /\ SettingsSurviveReload)'
<1>1. ASSUME UNCHANGED <<routes, settings, stored>>
      PROVE  (IdsDistinct /\ SettingsSurviveReload)'
  BY <1>1 DEF IdsDistinct, SettingsSurviveReload
<1>2. ASSUME NEW t \in Tasks, TaskStep(t) PROVE (IdsDistinct /\ SettingsSurviveReload)'
  BY <1>1, <1>2 DEF TaskStep, Acquire, ResumeAcquire, ThrottlePass, Fail, Release, routeVars
<1>3. ASSUME NEW c \in Checkers, CheckStep(c) PROVE (IdsDistinct /\ SettingsSurviveReload)'
  <2>1. ASSUME NEW cfg \in Configs, Reload(c, cfg)
        PROVE  (IdsDistinct /\ SettingsSurviveReload)'
    <3>1. /\ cfg \subseteq Routes /\ cfg \cap made \subseteq routes
          /\ \A r, q \in cfg : IdOf[r] = IdOf[q] => r = q
      BY DEF Configs
    <3>2. routes' = cfg /\ settings' = SettingsIn(cfg) /\ stored' = stored
      BY <2>1 DEF Reload
    <3>3. \A r \in cfg : settings'[r] = stored[IdOf[r]]
      BY <3>1, <3>2 DEF SettingsIn, SettingsSurviveReload, TypeOK
    <3> QED BY <3>1, <3>2, <3>3 DEF IdsDistinct, SettingsSurviveReload
  <2> QED BY <1>1, <1>3, <2>1 DEF CheckStep, Check, ResumeCheck, CheckOk, CheckFail, BatchDone
<1>4. ASSUME NEW p \in Patchers, PatchStep(p) PROVE (IdsDistinct /\ SettingsSurviveReload)'
  <2>1. ASSUME NEW r \in Routes, NEW s \in Settings, Patch(p, r, s)
        PROVE  (IdsDistinct /\ SettingsSurviveReload)'
    <3>1. \A q \in Routes : IdOf[q] \in Ids
      BY DEF Ids
    <3> QED BY <2>1, <3>1 DEF Patch, IdsDistinct, SettingsSurviveReload, TypeOK
  <2> QED BY <1>1, <1>4, <2>1 DEF PatchStep, SaveOk, SaveFail, routeVars
<1> QED BY <1>2, <1>3, <1>4 DEF Next

\* loadConfig() and updateSettings(): a reload never loses a stored setting.
THEOREM SettingsAreKept == Spec => []SettingsSurviveReload
<1>1. Init => IdsDistinct /\ SettingsSurviveReload
  BY DEF Init, IdsDistinct, SettingsSurviveReload
<1>2. TypeOK /\ IdsDistinct /\ SettingsSurviveReload /\ [Next]_vars
        => (IdsDistinct /\ SettingsSurviveReload)'
  <2>1. UNCHANGED vars /\ IdsDistinct /\ SettingsSurviveReload
          => (IdsDistinct /\ SettingsSurviveReload)'
    BY DEF vars, routeVars, IdsDistinct, SettingsSurviveReload
  <2> QED BY <2>1, SettingsStep
<1> QED BY <1>1, <1>2, TypeCorrect, PTL DEF Spec

\* this.checking is the batch of a call that is still running.
CheckingRuns == checking # None => call[checking] = "running"

\* Whoever waits, in every step, waits for a batch that runs on.
LEMMA WaitStep ==
  ASSUME TypeOK, CheckingRuns, WaitsForRunningBatch, Next
  PROVE  (CheckingRuns /\ WaitsForRunningBatch)'
<1>0. None \notin Checkers
  BY PoolAssumption
<1>1. ASSUME UNCHANGED <<checking, call, waitsFor>> PROVE (CheckingRuns /\ WaitsForRunningBatch)'
  BY <1>1 DEF CheckingRuns, WaitsForRunningBatch
<1>2. ASSUME NEW x \in Tasks \cup Checkers, waitsFor' = [waitsFor EXCEPT ![x] = checking],
             checking # None, checking' = checking, NEW c \in Checkers,
             call' = call \/ (call[c] = "idle" /\ call' = [call EXCEPT ![c] = "waiting"])
      PROVE  (CheckingRuns /\ WaitsForRunningBatch)'
  <2>1. \A d \in Checkers : call[d] = "running" => call'[d] = "running"
    BY <1>2 DEF TypeOK
  <2>2. checking \in Checkers
    BY <1>2 DEF TypeOK
  <2> QED BY <1>2, <2>1, <2>2 DEF CheckingRuns, WaitsForRunningBatch, TypeOK
<1>3. ASSUME NEW c \in Checkers, NEW chosen, NEW cfg, NEW st, StartBatch(c, chosen, cfg, st)
      PROVE  (CheckingRuns /\ WaitsForRunningBatch)'
  BY <1>0, <1>3 DEF StartBatch, CheckingRuns, WaitsForRunningBatch, TypeOK
<1>4. ASSUME NEW t \in Tasks, TaskStep(t) PROVE (CheckingRuns /\ WaitsForRunningBatch)'
  <2>1. ASSUME NEW h \in Hosts, NEW av, Acquire(t, h, av)
        PROVE  (CheckingRuns /\ WaitsForRunningBatch)'
    <3>1. CASE AwaitsCheck
      <4>1. /\ waitsFor' = [waitsFor EXCEPT ![t] = checking] /\ UNCHANGED <<checking, call>>
            /\ checking # None /\ checking \in Checkers
        BY <2>1, <3>1 DEF Acquire, AwaitsCheck, TypeOK
      <4> QED BY <1>2, <4>1
    <3>2. CASE ~AwaitsCheck
      BY <1>1, <2>1, <3>2 DEF Acquire
    <3> QED BY <3>1, <3>2
  <2> QED BY <1>1, <1>4, <2>1 DEF TaskStep, ResumeAcquire, ThrottlePass, Fail, Release, checkVars
<1>5. ASSUME NEW c \in Checkers, CheckStep(c) PROVE (CheckingRuns /\ WaitsForRunningBatch)'
  <2>1. ASSUME NEW chosen, JoinBatch(c, chosen), checking # None, call[c] = "idle"
        PROVE  (CheckingRuns /\ WaitsForRunningBatch)'
    BY <1>2, <2>1 DEF JoinBatch
  <2>2. ASSUME NEW chosen, Check(c, chosen) PROVE (CheckingRuns /\ WaitsForRunningBatch)'
    BY <1>3, <2>1, <2>2 DEF Check
  <2>3. ASSUME NEW cfg, Reload(c, cfg) PROVE (CheckingRuns /\ WaitsForRunningBatch)'
    BY <1>3, <2>1, <2>3 DEF Reload
  <2>4. CASE ResumeCheck(c)
    BY <1>3, <2>4 DEF ResumeCheck
  <2>5. CASE BatchDone(c)
    <3>1. /\ checking' = None
          /\ \A d \in Checkers : d # c /\ call[d] = "running" => call'[d] = "running"
          /\ \A x \in Tasks \cup Checkers :
               waitsFor'[x] = IF waitsFor[x] = c THEN None ELSE waitsFor[x]
      BY <2>5 DEF BatchDone, Awaits
    <3> QED BY <3>1 DEF CheckingRuns, WaitsForRunningBatch, TypeOK
  <2> QED BY <1>1, <1>5, <2>2, <2>3, <2>4, <2>5 DEF CheckStep, CheckOk, CheckFail
<1>6. ASSUME NEW p \in Patchers, PatchStep(p) PROVE (CheckingRuns /\ WaitsForRunningBatch)'
  BY <1>1, <1>6 DEF PatchStep, Patch, SaveOk, SaveFail, checkVars
<1> QED BY <1>4, <1>5, <1>6 DEF Next

\* check() and acquire(): whoever waits for a batch waits for one whose end is
\* still to come, however many calls of check() overlap.
THEOREM WaitersAreWoken == Spec => []WaitsForRunningBatch
<1>1. Init => CheckingRuns /\ WaitsForRunningBatch
  BY DEF Init, CheckingRuns, WaitsForRunningBatch
<1>2. TypeOK /\ CheckingRuns /\ WaitsForRunningBatch /\ [Next]_vars
        => (CheckingRuns /\ WaitsForRunningBatch)'
  <2>1. UNCHANGED vars /\ CheckingRuns /\ WaitsForRunningBatch
          => (CheckingRuns /\ WaitsForRunningBatch)'
    BY DEF vars, checkVars, CheckingRuns, WaitsForRunningBatch
  <2> QED BY <2>1, WaitStep
<1> QED BY <1>1, <1>2, TypeCorrect, PTL DEF Spec

-----------------------------------------------------------------------------
(***************************************************************************)
(* Which routes are in use.                                                *)
(***************************************************************************)
\* Of two routes with one external IP, at most one precedes the other.
LEMMA ActiveGroups ==
  ASSUME NEW rs, rs \subseteq Routes, NEW st, NEW he \in [Routes -> HealthStates],
         NEW r \in Active(rs, st, he), NEW q \in Active(rs, st, he),
         he[r].ip # None, he[r].ip = he[q].ip
  PROVE  r = q
<1> SUFFICES ASSUME r # q PROVE FALSE
  OBVIOUS
<1>1. r \in Routes /\ q \in Routes
  BY DEF Active, Usable
<1>2. Precedes(he, r, q) /\ Precedes(he, q, r)
  BY DEF Active
<1>3. /\ he[r].latency \in Nat /\ he[q].latency \in Nat
      /\ IdOf[r] \in Nat /\ IdOf[q] \in Nat
  BY <1>1, PoolAssumption DEF HealthStates
<1> QED BY <1>2, <1>3 DEF Precedes

\* direct needs no check, and nothing outranks it.
LEMMA DirectIsActive ==
  ASSUME NEW rs, NEW st, NEW he, Direct \in rs, st[Direct].enabled
  PROVE  Direct \in Active(rs, st, he)
BY DEF Active, Usable, Precedes

\* A proxy at the failure limit has lost its passed check.
HealthyBelow ==
  \A r \in Routes : r # Direct /\ health[r].status = "ok" => failures[r] < MaxFailures

\* With no check running the routes in use are those of some settings.
Selected ==
  (\A c \in Checkers : call[c] # "running") =>
    \E st \in [Routes -> Settings] : active = Active(routes, st, health)

\* Starting a batch changes no result of a check.
LEMMA MarkedStatus ==
  ASSUME TypeOK, NEW c, NEW chosen, NEW cfg, NEW st, StartBatch(c, chosen, cfg, st)
  PROVE  \A r \in Routes : health'[r].status = health[r].status
<1> DEFINE b == [r \in Routes |-> health[r].checking
                   \/ r \in {x \in cfg \ Broken : IdOf[x] \in chosen}]
<1>1. health' = [r \in Routes |-> [health[r] EXCEPT !.checking = b[r]]]
  BY Zenon DEF StartBatch
<1>2. b \in [Routes -> BOOLEAN]
  BY DEF TypeOK, HealthStates
<1> HIDE DEF b
<1> QED BY <1>1, <1>2 DEF TypeOK, HealthStates

LEMMA HealthyStep ==
  ASSUME TypeOK, HealthyBelow, Next
  PROVE  HealthyBelow'
<1>1. ASSUME UNCHANGED <<health, failures>> PROVE HealthyBelow'
  BY <1>1 DEF HealthyBelow
<1>2. ASSUME NEW c, NEW chosen, NEW cfg, NEW st, StartBatch(c, chosen, cfg, st),
             failures' = failures
      PROVE  HealthyBelow'
  <2>1. \A r \in Routes : health'[r].status = health[r].status
    BY <1>2, MarkedStatus
  <2> QED BY <1>2, <2>1 DEF HealthyBelow
<1>3. ASSUME NEW t \in Tasks, TaskStep(t) PROVE HealthyBelow'
  <2>1. ASSUME NEW outcome \in Outcomes, Release(t, outcome) PROVE HealthyBelow'
    <3> DEFINE r == LeaseRoute(t)
    <3>1. r \in Routes
      BY <2>1 DEF Release, LeaseRoute, TypeOK
    <3>2. failures' = [failures EXCEPT ![r] = FailuresAfter(r, outcome)]
      BY <2>1 DEF Release
    <3>3. CASE Trips(r, outcome)
      <4>1. health' = [health EXCEPT ![r].status = "error"]
        BY <2>1, <3>3 DEF Release
      <4> QED BY <3>1, <3>2, <4>1 DEF HealthyBelow, TypeOK, HealthStates
    <3>4. CASE ~Trips(r, outcome)
      <4>1. health' = health
        BY <2>1, <3>4 DEF Release
      <4>2. failures[r] \in Nat /\ MaxFailures \in Nat \ {0}
        BY <3>1, PoolAssumption DEF TypeOK
      <4>3. r # Direct /\ health[r].status = "ok" => FailuresAfter(r, outcome) < MaxFailures
        BY <3>1, <3>4, <4>2 DEF Trips, FailuresAfter, HealthyBelow
      <4> HIDE DEF r
      <4> QED BY <3>1, <3>2, <4>1, <4>3 DEF HealthyBelow, TypeOK
    <3> QED BY <3>3, <3>4
  <2> QED BY <1>1, <1>3, <2>1 DEF TaskStep, Acquire, ResumeAcquire, ThrottlePass, Fail, routeVars
<1>4. ASSUME NEW c \in Checkers, CheckStep(c) PROVE HealthyBelow'
  <2>1. ASSUME NEW chosen, Check(c, chosen) PROVE HealthyBelow'
    BY <1>1, <1>2, <2>1 DEF Check, JoinBatch
  <2>2. ASSUME NEW cfg, Reload(c, cfg) PROVE HealthyBelow'
    BY <1>1, <1>2, <2>2 DEF Reload, JoinBatch
  <2>3. CASE ResumeCheck(c)
    BY <1>2, <2>3 DEF ResumeCheck
  <2>4. ASSUME NEW r, NEW ip, NEW latency, CheckOk(c, r, ip, latency) PROVE HealthyBelow'
    BY <2>4, PoolAssumption DEF CheckOk, HealthyBelow, TypeOK
  <2>5. ASSUME NEW r, CheckFail(c, r) PROVE HealthyBelow'
    BY <2>5 DEF CheckFail, Failed, Unchecked, HealthyBelow, TypeOK
  <2> QED BY <1>1, <1>4, <2>1, <2>2, <2>3, <2>4, <2>5 DEF CheckStep, BatchDone
<1>5. ASSUME NEW p \in Patchers, PatchStep(p) PROVE HealthyBelow'
  BY <1>1, <1>5 DEF PatchStep, Patch, SaveOk, SaveFail, routeVars
<1> QED BY <1>3, <1>4, <1>5 DEF Next

LEMMA SelectedStep ==
  ASSUME TypeOK, PendingRuns, Selected, Next
  PROVE  Selected'
<1>0. settings \in [Routes -> Settings]
  BY DEF TypeOK
<1>1. ASSUME UNCHANGED <<routes, health, active>>,
             \A c \in Checkers : call[c] = "running" => call'[c] = "running"
      PROVE  Selected'
  BY <1>1 DEF Selected
<1>2. ASSUME NEW rs, NEW st \in [Routes -> Settings], NEW he, NEW load, NEW ts,
             Recompute(rs, st, he, load, ts), routes' = rs, health' = he
      PROVE  Selected'
  BY <1>2 DEF Recompute, Selected
<1>3. ASSUME NEW c, NEW chosen, NEW st \in [Routes -> Settings],
             NEW cfg, StartBatch(c, chosen, cfg, st), routes' = cfg
      PROVE  Selected'
  BY <1>2, <1>3 DEF StartBatch
<1>4. ASSUME NEW t \in Tasks, TaskStep(t) PROVE Selected'
  <2>1. ASSUME NEW outcome \in Outcomes, Release(t, outcome) PROVE Selected'
    <3>1. CASE Trips(LeaseRoute(t), outcome)
      BY <1>0, <1>2, <2>1, <3>1 DEF Release
    <3>2. CASE ~Trips(LeaseRoute(t), outcome)
      BY <1>1, <2>1, <3>2 DEF Release, checkVars
    <3> QED BY <3>1, <3>2
  <2> QED BY <1>1, <1>4, <2>1
      DEF TaskStep, Acquire, ResumeAcquire, ThrottlePass, Fail, routeVars, checkVars
<1>5. ASSUME NEW c \in Checkers, CheckStep(c) PROVE Selected'
  <2>1. ASSUME NEW chosen, Check(c, chosen) PROVE Selected'
    <3>1. CASE checking = None
      BY <1>0, <1>3, <2>1, <3>1 DEF Check
    <3>2. CASE checking # None
      BY <1>1, <2>1, <3>2 DEF Check, JoinBatch, TypeOK
    <3> QED BY <3>1, <3>2
  <2>2. ASSUME NEW cfg, Reload(c, cfg) PROVE Selected'
    <3>1. SettingsIn(cfg) \in [Routes -> Settings]
      BY DEF SettingsIn, TypeOK, Ids
    <3>2. routes' = cfg /\ (checking # None => health' = health)
      BY <2>2 DEF Reload, JoinBatch
    <3> QED BY <1>2, <1>3, <2>2, <3>1, <3>2 DEF Reload
  <2>3. CASE ResumeCheck(c)
    BY <1>0, <1>3, <2>3 DEF ResumeCheck
  <2>4. ASSUME NEW r, r \in pending[c], call' = call PROVE Selected'
    BY <2>4 DEF PendingRuns, Selected
  <2>5. CASE BatchDone(c)
    BY <1>0, <1>2, <2>5 DEF BatchDone
  <2> QED BY <1>5, <2>1, <2>2, <2>3, <2>4, <2>5 DEF CheckStep, CheckOk, CheckFail
<1>6. ASSUME NEW p \in Patchers, PatchStep(p) PROVE Selected'
  BY <1>0, <1>1, <1>2, <1>6 DEF PatchStep, Patch, SaveOk, SaveFail, checkVars, routeVars
<1> QED BY <1>4, <1>5, <1>6 DEF Next

\* recompute() and finish(): with no check running, one route per external IP is
\* in use, and no proxy that has failed too often.
THEOREM OneRouteOfAnIp == Spec => []OneRoutePerIp
<1> DEFINE IInv == HealthyBelow /\ Selected
<1>1. Init => IInv
  <2>1. SUFFICES ASSUME Init PROVE IInv
    OBVIOUS
  <2>2. HealthyBelow
    BY <2>1, PoolAssumption DEF Init, HealthyBelow
  <2>3. settings \in [Routes -> Settings]
    BY <2>1, InitType DEF TypeOK
  <2> QED BY <2>1, <2>2, <2>3 DEF Init, Selected
<1>2. TypeOK /\ PendingRuns /\ IInv /\ [Next]_vars => IInv'
  <2>1. UNCHANGED vars /\ IInv => IInv'
    BY DEF vars, routeVars, checkVars, HealthyBelow, Selected
  <2> QED BY <2>1, HealthyStep, SelectedStep
<1>3. TypeOK /\ IInv => OneRoutePerIp
  <2>1. SUFFICES ASSUME TypeOK, IInv, \A c \in Checkers : call[c] # "running",
                        NEW r \in active, NEW q \in active
                 PROVE  /\ health[r].ip # None /\ health[r].ip = health[q].ip => r = q
                        /\ r # Direct => failures[r] < MaxFailures
    BY DEF OneRoutePerIp
  <2>2. PICK st \in [Routes -> Settings] : active = Active(routes, st, health)
    BY <2>1 DEF Selected
  <2>3. routes \subseteq Routes /\ health \in [Routes -> HealthStates]
    BY <2>1 DEF TypeOK
  <2>4. r \in Routes /\ (r = Direct \/ health[r].status = "ok")
    BY <2>2, <2>3 DEF Active, Usable
  <2> QED BY <2>1, <2>2, <2>3, <2>4, ActiveGroups DEF HealthyBelow
<1> QED BY <1>1, <1>2, <1>3, QueueInvariance, PTL DEF Spec

\* Every step either leaves the routes in use alone or selects them anew, over
\* routes that include direct and settings that are direct's.
LEMMA ActiveStep ==
  ASSUME TypeOK, Next, Direct \in active, Direct \notin active'
  PROVE  ~settings[Direct].enabled
<1>0. Direct \in routes /\ routes \subseteq made
  BY DEF TypeOK
<1>1. ASSUME NEW rs, NEW st, NEW he, NEW load, NEW ts, Recompute(rs, st, he, load, ts),
             Direct \in rs, st[Direct] = settings[Direct]
      PROVE  ~settings[Direct].enabled
  BY <1>1, DirectIsActive DEF Recompute
<1>2. ASSUME NEW t \in Tasks, TaskStep(t) PROVE ~settings[Direct].enabled
  <2>1. ASSUME NEW outcome, Release(t, outcome) PROVE ~settings[Direct].enabled
    BY <1>0, <1>1, <2>1 DEF Release
  <2> QED BY <1>2, <2>1 DEF TaskStep, Acquire, ResumeAcquire, ThrottlePass, Fail, routeVars
<1>3. ASSUME NEW c \in Checkers, CheckStep(c) PROVE ~settings[Direct].enabled
  <2>1. ASSUME NEW chosen, Check(c, chosen) PROVE ~settings[Direct].enabled
    BY <1>0, <1>1, <2>1 DEF Check, StartBatch
  <2>2. ASSUME NEW cfg \in Configs, Reload(c, cfg) PROVE ~settings[Direct].enabled
    <3>1. Direct \in cfg /\ Direct \in Routes /\ Direct \notin cfg \ made
      BY <1>0, PoolAssumption DEF Configs
    <3>2. SettingsIn(cfg)[Direct] = settings[Direct]
      BY <3>1 DEF SettingsIn
    <3> QED BY <1>1, <2>2, <3>1, <3>2 DEF Reload, StartBatch
  <2>3. CASE ResumeCheck(c)
    BY <1>0, <1>1, <2>3 DEF ResumeCheck, StartBatch
  <2>4. CASE BatchDone(c)
    BY <1>0, <1>1, <2>4 DEF BatchDone
  <2> QED BY <1>3, <2>1, <2>2, <2>3, <2>4 DEF CheckStep, CheckOk, CheckFail
<1>4. ASSUME NEW p \in Patchers, PatchStep(p) PROVE ~settings[Direct].enabled
  BY <1>0, <1>1, <1>4 DEF PatchStep, Patch, SaveOk, SaveFail, routeVars
<1> QED BY <1>2, <1>3, <1>4 DEF Next

\* recompute(): no check and no failed download takes direct out of use.
THEOREM DirectIsKept == Spec => DirectStaysInUse
<1>1. TypeOK /\ [Next]_vars =>
        [(Direct \in active /\ Direct \notin active') => ~settings[Direct].enabled]_vars
  BY ActiveStep
<1> QED BY <1>1, TypeCorrect, PTL DEF Spec, DirectStaysInUse

-----------------------------------------------------------------------------
(***************************************************************************)
(* The limits of the slots.                                                *)
(***************************************************************************)
\* A nonempty set of places in a sequence has a last one.
LEMMA LastPlace ==
  ASSUME NEW n \in Nat, NEW S, S \subseteq 1..n, S # {}
  PROVE  \E m \in S : \A i \in S : i <= m
<1> DEFINE T == {n - i : i \in S}
<1>1. \A i \in S : i \in Nat /\ n - i \in Nat /\ i <= n
  OBVIOUS
<1>2. T \subseteq Nat
  BY <1>1
<1>3. T # {}
  OBVIOUS
<1> HIDE DEF T
<1>4. PICK x \in T : \A y \in T : <<y, x>> \notin OpToRel(<, Nat)
  BY <1>2, <1>3, NatLessThanWellFounded, WFMin, Zenon
<1>5. \A y \in T : ~(y < x)
  BY <1>2, <1>4 DEF OpToRel
<1>6. PICK m \in S : x = n - m
  BY <1>4 DEF T
<1>7. ASSUME NEW i \in S PROVE i <= m
  <2>1. ~(n - i < n - m)
    BY <1>5, <1>6 DEF T
  <2> QED BY <1>1, <2>1
<1> QED BY <1>7

\* drain() takes a route only below its limit: the last waiter it was given to
\* found it free, with the grants before it already counted.
LEMMA GrantsBelowLimit ==
  ASSUME NEW h \in Hosts, NEW act, NEW st \in [Routes -> Settings], NEW load \in Loads,
         waiters[h] \in Seq(Tasks), NEW g \in Grants(h, act, st, load), NEW r \in Routes,
         Taken(h, g, Len(g), load)[r][h] > load[r][h]
  PROVE  /\ r \in act
         /\ Taken(h, g, Len(g), load)[r][h] <= st[r].concurrency
<1> DEFINE C(n) == {i \in 1..n : g[i] = r}
<1>1. Len(g) \in Nat /\ DOMAIN g = 1..Len(g)
  BY GrantsFacts
<1>2. ASSUME NEW n \in Nat
      PROVE  /\ IsFiniteSet(C(n)) /\ Cardinality(C(n)) \in Nat
             /\ Taken(h, g, n, load)[r][h] = load[r][h] + Cardinality(C(n))
  <2>1. IsFiniteSet(C(n))
    <3>1. IsFiniteSet(1..n) BY FS_Interval
    <3> QED BY <3>1, FS_Subset
  <2> QED BY <2>1, FS_CardinalityType DEF Taken, Loads
<1>3. C(Len(g)) # {}
  <2>1. load[r][h] \in Nat
    BY DEF Loads
  <2>2. Cardinality(C(Len(g))) # 0
    <3>1. Taken(h, g, Len(g), load)[r][h] = load[r][h] + Cardinality(C(Len(g)))
      BY <1>1, <1>2
    <3> HIDE DEF C
    <3> QED BY <2>1, <3>1
  <2> QED BY <2>2, FS_EmptySet
<1>4. PICK m \in C(Len(g)) : \A i \in C(Len(g)) : i <= m
  BY <1>1, <1>3, LastPlace
<1>5. m \in 1..Len(g) /\ g[m] = r /\ m - 1 \in Nat
  BY <1>1, <1>4
<1>6. g[m] \in Free(h, act, st, Taken(h, g, m - 1, load))
  <2>1. g[m] \in Pick(h, task[waiters[h][m]].avoid, act, st, Taken(h, g, m - 1, load))
    BY <1>5 DEF Grants
  <2> QED BY <2>1, PickFree
<1>7. r \in act /\ Taken(h, g, m - 1, load)[r][h] < st[r].concurrency
  BY <1>5, <1>6 DEF Free
<1>8. C(Len(g)) = C(m - 1) \cup {m} /\ m \notin C(m - 1)
  BY <1>1, <1>4, <1>5
<1>9. Cardinality(C(Len(g))) = Cardinality(C(m - 1)) + 1
  BY <1>2, <1>5, <1>8, FS_AddElement
<1>10. load[r][h] \in Nat /\ st[r].concurrency \in Nat
  BY DEF Loads, Settings
<1>11. /\ Taken(h, g, Len(g), load)[r][h] = load[r][h] + Cardinality(C(Len(g)))
       /\ Taken(h, g, m - 1, load)[r][h] = load[r][h] + Cardinality(C(m - 1))
       /\ Cardinality(C(m - 1)) \in Nat
  BY <1>1, <1>2, <1>5
<1> HIDE DEF C
<1> QED BY <1>7, <1>9, <1>10, <1>11

\* The same of a whole drain().
LEMMA DrainBelowLimit ==
  ASSUME NEW hs, hs \subseteq Hosts, NEW act, NEW st \in [Routes -> Settings],
         NEW load \in Loads, NEW ts, waiters \in [Hosts -> Seq(Tasks)],
         Drain(hs, act, st, load, ts), NEW r \in Routes, NEW h \in Hosts,
         inFlight'[r][h] > load[r][h]
  PROVE  r \in act /\ inFlight'[r][h] <= st[r].concurrency
<1>0. ~(load[r][h] > load[r][h])
  BY DEF Loads
<1>1. CASE act = {}
  BY <1>0, <1>1 DEF Drain, RejectAll
<1>2. CASE act # {}
  <2>1. PICK g \in [hs -> UNION {Grants(x, act, st, load) : x \in hs}] :
          /\ \A x \in hs : g[x] \in Grants(x, act, st, load)
          /\ inFlight' = [q \in Routes |-> [x \in Hosts |->
               IF x \in hs THEN Taken(x, g[x], Len(g[x]), load)[q][x] ELSE load[q][x]]]
    BY <1>2 DEF Drain, GrantAll
  <2>2. h \in hs
    BY <1>0, <2>1
  <2>3. inFlight'[r][h] = Taken(h, g[h], Len(g[h]), load)[r][h]
    BY <2>1, <2>2
  <2> QED BY <2>1, <2>2, <2>3, GrantsBelowLimit
<1> QED BY <1>1, <1>2

\* An entry without a dispatcher is never checked, never passes and is never used.
BrokenUnused ==
  \A r \in Broken :
    /\ health[r].status # "ok" /\ r \notin active
    /\ \A c \in Checkers : r \notin pending[c]

LEMMA BrokenNotActive ==
  ASSUME NEW rs, NEW st, NEW he, NEW r \in Broken, he[r].status # "ok"
  PROVE  r \notin Active(rs, st, he)
BY PoolAssumption DEF Active, Usable

LEMMA BrokenStep ==
  ASSUME TypeOK, BrokenUnused, Next
  PROVE  BrokenUnused'
<1>0. Broken \subseteq Routes
  BY PoolAssumption
<1>1. ASSUME UNCHANGED <<health, active, pending>> PROVE BrokenUnused'
  BY <1>1 DEF BrokenUnused
<1>2. ASSUME NEW rs, NEW st, NEW he, NEW load, NEW ts, Recompute(rs, st, he, load, ts),
             health' = he, \A r \in Broken : he[r].status # "ok",
             \A r \in Broken, c \in Checkers : r \notin pending'[c]
      PROVE  BrokenUnused'
  BY <1>2, BrokenNotActive DEF Recompute, BrokenUnused
<1>3. ASSUME NEW c \in Checkers, NEW chosen, NEW cfg, NEW st, StartBatch(c, chosen, cfg, st)
      PROVE  BrokenUnused'
  <2>1. PICK he : health' = he /\ Recompute(cfg, st, he, inFlight, task)
    BY <1>3, Zenon DEF StartBatch
  <2>2. \A r \in Broken, d \in Checkers : r \notin pending'[d]
    BY <1>3 DEF StartBatch, BrokenUnused, TypeOK
  <2>3. \A r \in Broken : he[r].status # "ok"
    BY <1>0, <1>3, <2>1, MarkedStatus DEF BrokenUnused
  <2> QED BY <1>2, <2>1, <2>2, <2>3
<1>4. ASSUME NEW t \in Tasks, TaskStep(t) PROVE BrokenUnused'
  <2>1. ASSUME NEW outcome \in Outcomes, Release(t, outcome) PROVE BrokenUnused'
    <3>1. CASE Trips(LeaseRoute(t), outcome)
      <4> DEFINE he == [health EXCEPT ![LeaseRoute(t)].status = "error"]
      <4>1. PICK load, ts : Recompute(routes, settings, he, load, ts)
        BY <2>1, <3>1, Zenon DEF Release
      <4>2. health' = he /\ pending' = pending
        BY <2>1, <3>1 DEF Release, checkVars
      <4>3. \A r \in Broken : he[r].status # "ok"
        BY <1>0 DEF BrokenUnused, TypeOK, HealthStates
      <4> HIDE DEF he
      <4> QED BY <1>2, <4>1, <4>2, <4>3 DEF BrokenUnused
    <3>2. CASE ~Trips(LeaseRoute(t), outcome)
      BY <1>1, <2>1, <3>2 DEF Release, checkVars
    <3> QED BY <3>1, <3>2
  <2> QED BY <1>1, <1>4, <2>1
      DEF TaskStep, Acquire, ResumeAcquire, ThrottlePass, Fail, routeVars, checkVars
<1>5. ASSUME NEW c \in Checkers, CheckStep(c) PROVE BrokenUnused'
  <2>1. ASSUME NEW chosen, Check(c, chosen) PROVE BrokenUnused'
    BY <1>1, <1>3, <2>1 DEF Check, JoinBatch
  <2>2. ASSUME NEW cfg, Reload(c, cfg) PROVE BrokenUnused'
    <3>1. CASE checking = None
      BY <1>3, <2>2, <3>1 DEF Reload
    <3>2. CASE checking # None
      <4>1. /\ Recompute(cfg, SettingsIn(cfg), health, inFlight, task)
            /\ UNCHANGED <<health, pending>>
        BY <2>2, <3>2 DEF Reload, JoinBatch
      <4> QED BY <1>2, <4>1 DEF BrokenUnused
    <3> QED BY <3>1, <3>2
  <2>3. CASE ResumeCheck(c)
    BY <1>3, <2>3 DEF ResumeCheck
  <2>4. ASSUME NEW r, NEW new, r \in pending[c], r \in Routes,
               health' = [health EXCEPT ![r] = new], active' = active,
               pending' = [pending EXCEPT ![c] = @ \ {r}]
        PROVE  BrokenUnused'
    BY <1>0, <2>4 DEF BrokenUnused, TypeOK
  <2>5. CASE BatchDone(c)
    <3>1. UNCHANGED <<health, pending>>
      BY <2>5 DEF BatchDone
    <3>2. PICK ts : Recompute(routes, settings, health, inFlight, ts)
      BY <2>5, Zenon DEF BatchDone
    <3> QED BY <1>2, <3>1, <3>2 DEF BrokenUnused
  <2> QED BY <1>5, <2>1, <2>2, <2>3, <2>4, <2>5 DEF CheckStep, CheckOk, CheckFail
<1>6. ASSUME NEW p \in Patchers, PatchStep(p) PROVE BrokenUnused'
  <2>1. CASE SaveOk(p)
    <3>1. UNCHANGED <<health, pending>> /\ Recompute(routes, settings, health, inFlight, task)
      BY <2>1 DEF SaveOk, checkVars
    <3> QED BY <1>2, <3>1 DEF BrokenUnused
  <2> QED BY <1>1, <1>6, <2>1 DEF PatchStep, Patch, SaveFail, checkVars, routeVars
<1> QED BY <1>4, <1>5, <1>6 DEF Next

\* A slot, whoever hands it out, is taken below the limit in force.
LEMMA SlotTakenBelowLimit ==
  ASSUME TypeOK, TypeOK', Next, NEW r \in Routes, NEW h \in Hosts,
         inFlight'[r][h] > inFlight[r][h]
  PROVE  r \in active' /\ inFlight'[r][h] <= settings'[r].concurrency
<1> DEFINE Goal == r \in active' /\ inFlight'[r][h] <= settings'[r].concurrency
<1>0. /\ inFlight \in Loads /\ waiters \in [Hosts -> Seq(Tasks)]
      /\ settings \in [Routes -> Settings] /\ inFlight[r][h] \in Nat /\ inFlight'[r][h] \in Nat
  BY DEF TypeOK, Loads
<1>1. inFlight' # inFlight
  BY <1>0
\* Whoever drains.
<1>2. ASSUME NEW hs, hs \subseteq Hosts, NEW st \in [Routes -> Settings], NEW load \in Loads,
             NEW ts, load[r][h] <= inFlight[r][h], Drain(hs, active', st, load, ts), settings' = st
      PROVE  Goal
  <2>1. load[r][h] \in Nat
    BY DEF Loads
  <2>2. inFlight'[r][h] > load[r][h]
    BY <1>0, <1>2, <2>1
  <2> QED BY <1>0, <1>2, <2>2, DrainBelowLimit
<1>3. ASSUME NEW rs, NEW st \in [Routes -> Settings], NEW he, NEW ts,
             Recompute(rs, st, he, inFlight, ts), settings' = st
      PROVE  Goal
  <2>1. Drain(Hosts, active', st, inFlight, ts)
    BY <1>3 DEF Recompute
  <2> QED BY <1>0, <1>2, <1>3, <2>1
<1>4. ASSUME NEW c, NEW chosen, NEW cfg, NEW st \in [Routes -> Settings],
             StartBatch(c, chosen, cfg, st), settings' = st
      PROVE  Goal
  <2>1. PICK he : Recompute(cfg, st, he, inFlight, task)
    BY <1>4, Zenon DEF StartBatch
  <2> HIDE DEF Goal
  <2> QED BY <1>3, <1>4, <2>1
\* acquire() takes a slot of a free route.
<1>5. ASSUME NEW t \in Tasks, NEW x \in Hosts, NEW av, PickOrQueue(t, x, av),
             active' = active, settings' = settings
      PROVE  Goal
  <2>1. PICK q \in Pick(x, av, active, settings, inFlight) :
          inFlight' = [inFlight EXCEPT ![q][x] = @ + 1]
    BY <1>1, <1>5 DEF PickOrQueue
  <2>2. q \in active /\ q \in Routes /\ inFlight[q][x] < settings[q].concurrency
    BY <2>1, PickFree DEF Free, TypeOK
  <2>3. q = r /\ x = h /\ inFlight'[r][h] = inFlight[r][h] + 1
    BY <1>0, <1>5, <2>1, <2>2 DEF Loads
  <2>4. settings[r].concurrency \in Nat
    BY <1>0 DEF Settings
  <2> QED BY <1>0, <1>5, <2>2, <2>3, <2>4
<1>6. ASSUME NEW t \in Tasks, TaskStep(t) PROVE Goal
  <2>1. ASSUME NEW x \in Hosts, NEW av, Acquire(t, x, av) PROVE Goal
    <3>1. PickOrQueue(t, x, av) /\ active' = active /\ settings' = settings
      BY <1>1, <2>1 DEF Acquire, routeVars
    <3> QED BY <1>5, <3>1
  <2>2. CASE ResumeAcquire(t)
    <3>1. /\ PickOrQueue(t, task[t].host, task[t].avoid) /\ active' = active /\ settings' = settings
          /\ task[t].host \in Hosts
      BY <2>2 DEF ResumeAcquire, routeVars, TypeOK
    <3> QED BY <1>5, <3>1
  <2>3. ASSUME NEW outcome \in Outcomes, Release(t, outcome) PROVE Goal
    <3>0. task[t].route \in Routes /\ task[t].host \in Hosts /\ settings' = settings
      BY <2>3 DEF Release, TypeOK
    <3> DEFINE load == [inFlight EXCEPT ![task[t].route][task[t].host] = IF @ > 1 THEN @ - 1 ELSE 0]
               ts == [task EXCEPT ![t] = Idle]
    <3>1. load \in Loads /\ load[r][h] <= inFlight[r][h]
      BY <1>0, <3>0 DEF Loads
    <3>2. \E hs : hs \subseteq Hosts /\ Drain(hs, active', settings, load, ts)
      <4>1. CASE Trips(task[t].route, outcome)
        <5>1. PICK he : Recompute(routes, settings, he, load, ts)
          BY <2>3, <4>1, Zenon DEF Release, LeaseRoute
        <5> HIDE DEF load, ts
        <5> QED BY <5>1 DEF Recompute
      <4>2. CASE ~Trips(task[t].route, outcome)
        <5>1. Drain({task[t].host}, active, settings, load, ts) /\ active' = active
          BY <2>3, <4>2, Zenon DEF Release, LeaseRoute
        <5> HIDE DEF load, ts
        <5> QED BY <3>0, <5>1
      <4> QED BY <4>1, <4>2
    <3> HIDE DEF load, ts
    <3> QED BY <1>0, <1>2, <3>0, <3>1, <3>2
  <2> QED BY <1>1, <1>6, <2>1, <2>2, <2>3 DEF TaskStep, ThrottlePass, Fail
<1>7. ASSUME NEW c \in Checkers, CheckStep(c) PROVE Goal
  <2> HIDE DEF Goal
  <2>1. ASSUME NEW chosen, Check(c, chosen) PROVE Goal
    BY <1>0, <1>1, <1>4, <2>1 DEF Check, slotVars
  <2>2. ASSUME NEW cfg, Reload(c, cfg) PROVE Goal
    <3>1. SettingsIn(cfg) \in [Routes -> Settings]
      BY DEF SettingsIn, TypeOK, Ids
    <3> QED BY <1>3, <1>4, <2>2, <3>1 DEF Reload
  <2>3. CASE ResumeCheck(c)
    BY <1>0, <1>4, <2>3 DEF ResumeCheck
  <2>4. CASE BatchDone(c)
    <3>1. PICK ts : Recompute(routes, settings, health, inFlight, ts)
      BY <2>4, Zenon DEF BatchDone
    <3> QED BY <1>0, <1>3, <2>4, <3>1 DEF BatchDone
  <2> QED BY <1>1, <1>7, <2>1, <2>2, <2>3, <2>4 DEF CheckStep, CheckOk, CheckFail, slotVars
<1>8. ASSUME NEW p \in Patchers, PatchStep(p) PROVE Goal
  <2>1. CASE SaveOk(p)
    BY <1>0, <1>3, <2>1 DEF SaveOk
  <2> QED BY <1>1, <1>8, <2>1 DEF PatchStep, Patch, SaveFail, slotVars
<1> QED BY <1>6, <1>7, <1>8 DEF Next

\* pickRoute() and drain(): no handler hands out a slot beyond the limit in
\* force, or on a route not in use or without a dispatcher.
THEOREM GrantsAreWithinLimit == Spec => GrantWithinLimit
<1>1. Init => BrokenUnused
  <2>1. SUFFICES ASSUME Init, NEW r \in Broken
                 PROVE  health[r].status # "ok" /\ r \notin active /\ \A c \in Checkers : r \notin pending[c]
    BY DEF BrokenUnused
  <2>2. health[r].status # "ok" /\ \A c \in Checkers : r \notin pending[c]
    BY <2>1, PoolAssumption DEF Init, Failed, Unchecked
  <2> QED BY <2>1, <2>2, BrokenNotActive DEF Init
<1>2. TypeOK /\ BrokenUnused /\ [Next]_vars => BrokenUnused'
  <2>1. BrokenUnused /\ UNCHANGED vars => BrokenUnused'
    BY DEF vars, routeVars, checkVars, BrokenUnused
  <2> QED BY <2>1, BrokenStep
<1>3. TypeOK /\ TypeOK' /\ BrokenUnused' /\ [Next]_vars =>
        [\A r \in Routes, h \in Hosts :
           inFlight'[r][h] > inFlight[r][h] =>
             /\ r \in active' \ Broken
             /\ inFlight'[r][h] <= settings'[r].concurrency]_vars
  BY SlotTakenBelowLimit DEF BrokenUnused
<1> QED BY <1>1, <1>2, <1>3, TypeCorrect, PTL DEF Spec, GrantWithinLimit

\* What holds of the load on one external IP, which IpLoadBound denies: with no
\* check running, a route that shares the IP of one in use is granted nothing,
\* so that beyond its limit the IP only carries what that route still held.
SupersededGetsNothing ==
  [][\A r, q \in Routes, h \in Hosts :
       /\ \A c \in Checkers : call'[c] # "running"
       /\ r # q /\ r \in active'
       /\ health'[r].ip # None /\ health'[r].ip = health'[q].ip
       => inFlight'[q][h] <= inFlight[q][h]]_vars

\* recompute() and drain(): among routes of one external IP only the one in use
\* is granted slots, whatever downloads the others still carry.
THEOREM SupersededOnlyDrains == Spec => SupersededGetsNothing
<1>1. ASSUME TypeOK, TypeOK', OneRoutePerIp',
             [\A r \in Routes, h \in Hosts :
                inFlight'[r][h] > inFlight[r][h] =>
                  /\ r \in active' \ Broken
                  /\ inFlight'[r][h] <= settings'[r].concurrency]_vars
      PROVE  [\A r, q \in Routes, h \in Hosts :
                /\ \A c \in Checkers : call'[c] # "running"
                /\ r # q /\ r \in active'
                /\ health'[r].ip # None /\ health'[r].ip = health'[q].ip
                => inFlight'[q][h] <= inFlight[q][h]]_vars
  <2> SUFFICES ASSUME NEW r \in Routes, NEW q \in Routes, NEW h \in Hosts,
                      \A c \in Checkers : call'[c] # "running",
                      r # q, r \in active', health'[r].ip # None, health'[r].ip = health'[q].ip,
                      vars' # vars
               PROVE  inFlight'[q][h] <= inFlight[q][h]
    OBVIOUS
  <2>1. q \notin active'
    BY <1>1 DEF OneRoutePerIp
  <2>2. ~(inFlight'[q][h] > inFlight[q][h])
    BY <1>1, <2>1
  <2>3. inFlight[q][h] \in Nat /\ inFlight'[q][h] \in Nat
    BY <1>1 DEF TypeOK, Loads
  <2> QED BY <2>2, <2>3
<1> QED BY <1>1, TypeCorrect, OneRouteOfAnIp, GrantsAreWithinLimit, PTL
        DEF SupersededGetsNothing, GrantWithinLimit

-----------------------------------------------------------------------------
(***************************************************************************)
(* The queues hold who waits, and the slots count who holds one. Both are  *)
(* kept by drain(), for any queues, loads and downloads it may find.       *)
(***************************************************************************)
\* The queue of each host: its queued downloads, each once.
QueueOK(w, ts) ==
  /\ \A h \in Hosts : \A i \in 1..Len(w[h]) :
       ts[w[h][i]].pc = "queued" /\ ts[w[h][i]].host = h
  /\ \A h \in Hosts : \A i, j \in 1..Len(w[h]) : w[h][i] = w[h][j] => i = j
  /\ \A t \in Tasks : ts[t].pc = "queued" =>
       \E i \in 1..Len(w[ts[t].host]) : w[ts[t].host][i] = t

Holders(r, h, ts) ==
  {t \in Tasks : ts[t].pc \in {"granted", "leased"} /\ ts[t].route = r /\ ts[t].host = h}

Counted(load, ts) ==
  \A r \in Routes, h \in Hosts :
    IsFiniteSet(Holders(r, h, ts)) /\ load[r][h] = Cardinality(Holders(r, h, ts))

\* Place() finds a queued download where it stands in line.
LEMMA PlaceFound ==
  ASSUME NEW ts, QueueOK(waiters, ts), waiters \in [Hosts -> Seq(Tasks)], TasksTyped(ts),
         NEW t \in Tasks, ts[t].pc = "queued", task[t].host = ts[t].host
  PROVE  /\ ts[t].host \in Hosts
         /\ Place(t) \in 1..Len(waiters[ts[t].host])
         /\ waiters[ts[t].host][Place(t)] = t
<1>1. ts[t].host \in Hosts
  BY DEF TasksTyped
<1>2. \E i \in 1..Len(waiters[ts[t].host]) : waiters[ts[t].host][i] = t
  BY DEF QueueOK
<1> QED BY <1>1, <1>2 DEF Place

\* A drain that rejects keeps both.
LEMMA RejectKeeps ==
  ASSUME NEW hs, hs \subseteq Hosts, NEW load, NEW ts, TasksTyped(ts),
         waiters \in [Hosts -> Seq(Tasks)], QueueOK(waiters, ts), Counted(load, ts),
         RejectAll(hs, load, ts)
  PROVE  QueueOK(waiters', task') /\ Counted(inFlight', task')
<1>1. /\ waiters' = [h \in Hosts |-> IF h \in hs THEN <<>> ELSE waiters[h]]
      /\ inFlight' = load
      /\ \A t \in Tasks : /\ task'[t].host = ts[t].host /\ task'[t].route = ts[t].route
                          /\ task'[t].pc = IF ts[t].pc = "queued" /\ ts[t].host \in hs
                                           THEN "rejected" ELSE ts[t].pc
  BY DEF RejectAll, Queued, TasksTyped, TaskStates
<1>2. ASSUME NEW h \in Hosts, NEW i \in 1..Len(waiters'[h])
      PROVE  h \notin hs /\ waiters'[h] = waiters[h] /\ waiters[h][i] \in Tasks
  BY <1>1
<1>3. QueueOK(waiters', task')
  <2>1. ASSUME NEW h \in Hosts, NEW i \in 1..Len(waiters'[h])
        PROVE  task'[waiters'[h][i]].pc = "queued" /\ task'[waiters'[h][i]].host = h
    <3>1. ts[waiters[h][i]].pc = "queued" /\ ts[waiters[h][i]].host = h
      BY <1>2, <2>1 DEF QueueOK
    <3> QED BY <1>1, <1>2, <2>1, <3>1
  <2>2. ASSUME NEW h \in Hosts, NEW i \in 1..Len(waiters'[h]), NEW j \in 1..Len(waiters'[h]),
               waiters'[h][i] = waiters'[h][j]
        PROVE  i = j
    BY <1>2, <2>2 DEF QueueOK
  <2>3. ASSUME NEW t \in Tasks, task'[t].pc = "queued"
        PROVE  \E i \in 1..Len(waiters'[task'[t].host]) : waiters'[task'[t].host][i] = t
    <3>1. ts[t].pc = "queued" /\ ts[t].host \notin hs /\ ts[t].host \in Hosts
      BY <1>1, <2>3 DEF TasksTyped
    <3> QED BY <1>1, <3>1 DEF QueueOK
  <2> QED BY <2>1, <2>2, <2>3 DEF QueueOK
<1>4. Counted(inFlight', task')
  <2>1. ASSUME NEW r, NEW h PROVE Holders(r, h, task') = Holders(r, h, ts)
    BY <1>1 DEF Holders
  <2> QED BY <1>1, <2>1 DEF Counted
<1> QED BY <1>3, <1>4

\* What is left of a queue without its first k.
LEMMA DropFirst ==
  ASSUME NEW w \in Seq(Tasks), NEW k \in Nat, k <= Len(w)
  PROVE  /\ Len(SubSeq(w, k + 1, Len(w))) = Len(w) - k
         /\ \A i \in 1..Len(SubSeq(w, k + 1, Len(w))) :
              k + i \in 1..Len(w) /\ SubSeq(w, k + 1, Len(w))[i] = w[k + i]
OBVIOUS

\* The place, in what is left, of one who stood behind the first k of n.
LEMMA PlaceMoves ==
  ASSUME NEW a \in Nat, NEW k \in Nat, NEW n \in Nat, a <= n, ~(a <= k)
  PROVE  a - k \in 1..(n - k)
OBVIOUS

\* A drain that grants keeps both: the first in each queue leave it,
\* and each counts on the route it was given.
LEMMA GrantKeeps ==
  ASSUME NEW hs, hs \subseteq Hosts, NEW act, act \subseteq Routes, NEW st,
         NEW load \in Loads, NEW ts, TasksTyped(ts),
         waiters \in [Hosts -> Seq(Tasks)], QueueOK(waiters, ts), Counted(load, ts),
         \A t \in Tasks : ts[t].pc = "queued" => task[t].host = ts[t].host,
         GrantAll(hs, act, st, load, ts)
  PROVE  QueueOK(waiters', task') /\ Counted(inFlight', task')
<1>1. PICK g \in [hs -> UNION {Grants(h, act, st, load) : h \in hs}] :
        LET granted == {t \in Queued(hs, ts) : Place(t) \in DOMAIN g[ts[t].host]}
        IN  /\ \A h \in hs : g[h] \in Grants(h, act, st, load)
            /\ waiters' = [h \in Hosts |->
                 IF h \in hs THEN SubSeq(waiters[h], Len(g[h]) + 1, Len(waiters[h]))
                 ELSE waiters[h]]
            /\ inFlight' = [r \in Routes |-> [h \in Hosts |->
                 IF h \in hs THEN Taken(h, g[h], Len(g[h]), load)[r][h] ELSE load[r][h]]]
            /\ task' = [t \in Tasks |->
                 IF t \in granted
                 THEN [ts[t] EXCEPT !.pc = "granted", !.avoid = None,
                                    !.route = g[ts[t].host][Place(t)]]
                 ELSE ts[t]]
  BY DEF GrantAll
<1> DEFINE granted == {t \in Queued(hs, ts) : Place(t) \in DOMAIN g[ts[t].host]}
<1>2. ASSUME NEW h \in hs
      PROVE  /\ Len(g[h]) \in Nat /\ Len(g[h]) <= Len(waiters[h])
             /\ DOMAIN g[h] = 1..Len(g[h]) /\ Len(waiters[h]) \in Nat
  <2>1. g[h] \in Grants(h, act, st, load)
    BY <1>1, Zenon
  <2>2. h \in Hosts /\ waiters[h] \in Seq(Tasks)
    OBVIOUS
  <2> QED BY <2>1, <2>2, GrantsFacts
<1>3. \A t \in Tasks : ts[t].pc = "queued" =>
        /\ ts[t].host \in Hosts
        /\ Place(t) \in 1..Len(waiters[ts[t].host])
        /\ waiters[ts[t].host][Place(t)] = t
  BY PlaceFound
<1>4. ASSUME NEW t \in Tasks
      PROVE  /\ t \in granted <=> /\ ts[t].pc = "queued" /\ ts[t].host \in hs
                                  /\ Place(t) <= Len(g[ts[t].host])
             /\ task'[t].host = ts[t].host
             /\ t \in granted => /\ task'[t].pc = "granted"
                                 /\ task'[t].route = g[ts[t].host][Place(t)]
             /\ t \notin granted => task'[t] = ts[t]
  <2>1. t \in granted <=> /\ ts[t].pc = "queued" /\ ts[t].host \in hs
                          /\ Place(t) <= Len(g[ts[t].host])
    BY <1>2, <1>3 DEF Queued
  <2>2. task' = [u \in Tasks |->
                 IF u \in granted
                 THEN [ts[u] EXCEPT !.pc = "granted", !.avoid = None,
                                    !.route = g[ts[u].host][Place(u)]]
                 ELSE ts[u]]
    BY <1>1, Zenon
  <2> HIDE DEF granted
  <2>3. ts[t] \in TaskStates
    BY DEF TasksTyped
  <2> QED BY <2>1, <2>2, <2>3 DEF TaskStates
<1> HIDE DEF granted
<1>5. ASSUME NEW h \in Hosts
      PROVE  /\ h \in hs => /\ Len(waiters'[h]) = Len(waiters[h]) - Len(g[h])
                            /\ \A i \in 1..Len(waiters'[h]) :
                                 /\ Len(g[h]) + i \in 1..Len(waiters[h])
                                 /\ waiters'[h][i] = waiters[h][Len(g[h]) + i]
             /\ h \notin hs => waiters'[h] = waiters[h]
  <2>1. CASE h \in hs
    <3>1. waiters'[h] = SubSeq(waiters[h], Len(g[h]) + 1, Len(waiters[h]))
      BY <1>1, <2>1
    <3>2. waiters[h] \in Seq(Tasks) /\ Len(g[h]) \in Nat /\ Len(g[h]) <= Len(waiters[h])
      BY <1>2, <2>1
    <3> QED BY <2>1, <3>1, <3>2, DropFirst
  <2>2. CASE h \notin hs
    BY <1>1, <2>2
  <2> QED BY <2>1, <2>2
\* Who stands in a queue has its place there.
<1>6. ASSUME NEW h \in Hosts, NEW i \in 1..Len(waiters[h])
      PROVE  /\ waiters[h][i] \in Tasks /\ ts[waiters[h][i]].pc = "queued"
             /\ ts[waiters[h][i]].host = h /\ Place(waiters[h][i]) = i
  <2>1. waiters[h][i] \in Tasks /\ ts[waiters[h][i]].pc = "queued" /\ ts[waiters[h][i]].host = h
    BY DEF QueueOK
  <2>2. /\ Place(waiters[h][i]) \in 1..Len(waiters[h])
        /\ waiters[h][Place(waiters[h][i])] = waiters[h][i]
    BY <1>3, <2>1
  <2> QED BY <2>1, <2>2 DEF QueueOK
<1>7. QueueOK(waiters', task')
  <2>1. ASSUME NEW h \in Hosts, NEW i \in 1..Len(waiters'[h])
        PROVE  task'[waiters'[h][i]].pc = "queued" /\ task'[waiters'[h][i]].host = h
    <3>1. CASE h \in hs
      <4>1. Len(g[h]) + i \in 1..Len(waiters[h]) /\ waiters'[h][i] = waiters[h][Len(g[h]) + i]
        BY <1>5, <3>1
      <4>2. waiters'[h][i] \notin granted
        <5> DEFINE t == waiters[h][Len(g[h]) + i]
        <5>1. t \in Tasks /\ ts[t].host = h /\ Place(t) = Len(g[h]) + i
          BY <1>6, <4>1
        <5>2. ~(Len(g[h]) + i <= Len(g[h]))
          BY <1>2, <3>1
        <5> HIDE DEF t
        <5>3. t \notin granted
          BY <1>4, <5>1, <5>2
        <5> QED BY <4>1, <5>3 DEF t
      <4> QED BY <1>4, <1>6, <4>1, <4>2
    <3>2. CASE h \notin hs
      <4>1. waiters'[h] = waiters[h]
        BY <1>5, <3>2
      <4>2. waiters[h][i] \notin granted
        BY <1>4, <1>6, <3>2, <4>1
      <4> QED BY <1>4, <1>6, <4>1, <4>2
    <3> QED BY <3>1, <3>2
  <2>2. ASSUME NEW h \in Hosts, NEW i \in 1..Len(waiters'[h]), NEW j \in 1..Len(waiters'[h]),
               waiters'[h][i] = waiters'[h][j]
        PROVE  i = j
    <3>0. \A a, b \in 1..Len(waiters[h]) : waiters[h][a] = waiters[h][b] => a = b
      BY DEF QueueOK
    <3>1. CASE h \in hs
      <4>1. /\ Len(g[h]) + i \in 1..Len(waiters[h]) /\ waiters'[h][i] = waiters[h][Len(g[h]) + i]
            /\ Len(g[h]) + j \in 1..Len(waiters[h]) /\ waiters'[h][j] = waiters[h][Len(g[h]) + j]
        BY <1>5, <2>2, <3>1
      <4>2. Len(g[h]) + i = Len(g[h]) + j
        BY <2>2, <3>0, <4>1
      <4> QED BY <1>2, <2>2, <3>1, <4>2
    <3>2. CASE h \notin hs
      <4>1. waiters'[h] = waiters[h]
        BY <1>5, <3>2
      <4> QED BY <2>2, <3>0, <4>1
    <3> QED BY <3>1, <3>2
  <2>3. ASSUME NEW t \in Tasks, task'[t].pc = "queued"
        PROVE  \E i \in 1..Len(waiters'[task'[t].host]) : waiters'[task'[t].host][i] = t
    <3> DEFINE h == ts[t].host
    <3>1. t \notin granted /\ ts[t].pc = "queued" /\ task'[t].host = h /\ h \in Hosts
      BY <1>3, <1>4, <2>3
    <3>2. Place(t) \in 1..Len(waiters[h]) /\ waiters[h][Place(t)] = t
      BY <1>3, <3>1
    <3>3. CASE h \in hs
      <4>1. Place(t) - Len(g[h]) \in 1..Len(waiters'[h])
        <5>1. ~(Place(t) <= Len(g[h]))
          BY <1>4, <3>1, <3>3
        <5>2. /\ Len(waiters'[h]) = Len(waiters[h]) - Len(g[h])
              /\ Len(g[h]) \in Nat /\ Len(waiters[h]) \in Nat
          BY <1>2, <1>5, <3>1, <3>3
        <5>3. Place(t) \in Nat /\ Place(t) <= Len(waiters[h])
          BY <3>2, <5>2
        <5>4. Place(t) - Len(g[h]) \in 1..(Len(waiters[h]) - Len(g[h]))
          BY <5>1, <5>2, <5>3, PlaceMoves
        <5> QED BY <5>2, <5>4
      <4>2. waiters'[h][Place(t) - Len(g[h])] = waiters[h][Len(g[h]) + (Place(t) - Len(g[h]))]
        BY <1>5, <3>1, <3>3, <4>1
      <4>3. Len(g[h]) + (Place(t) - Len(g[h])) = Place(t)
        BY <1>2, <3>2, <3>3
      <4> QED BY <3>1, <3>2, <4>1, <4>2, <4>3
    <3>4. CASE h \notin hs
      BY <1>5, <3>1, <3>2, <3>4
    <3> QED BY <3>3, <3>4
  <2> QED BY <2>1, <2>2, <2>3 DEF QueueOK
<1>8. Counted(inFlight', task')
  <2>1. SUFFICES ASSUME NEW r \in Routes, NEW h \in Hosts
                 PROVE  /\ IsFiniteSet(Holders(r, h, task'))
                        /\ inFlight'[r][h] = Cardinality(Holders(r, h, task'))
    BY DEF Counted
  <2>2. IsFiniteSet(Holders(r, h, ts)) /\ load[r][h] = Cardinality(Holders(r, h, ts))
    BY DEF Counted
  <2>3. CASE h \notin hs
    <3>1. Holders(r, h, task') = Holders(r, h, ts)
      BY <1>4, <2>3 DEF Holders
    <3> QED BY <1>1, <2>2, <2>3, <3>1
  <2>4. CASE h \in hs
    <3> DEFINE C == {i \in 1..Len(g[h]) : g[h][i] = r}
               new == {waiters[h][i] : i \in C}
               f == [i \in C |-> waiters[h][i]]
    <3>1. C \subseteq 1..Len(waiters[h])
      BY <1>2, <2>4
    <3>2. IsFiniteSet(C)
      <4>1. IsFiniteSet(1..Len(g[h])) BY <1>2, <2>4, FS_Interval
      <4> QED BY <4>1, FS_Subset
    <3>3. ExistsBijection(C, new)
      <4>1. \A i, j \in C : waiters[h][i] = waiters[h][j] => i = j
        BY <3>1 DEF QueueOK
      <4>2. f \in Bijection(C, new)
        BY <4>1 DEF Bijection, Injection, Surjection, IsInjective
      <4> QED BY <4>2 DEF ExistsBijection
    <3>4. IsFiniteSet(new) /\ Cardinality(new) = Cardinality(C)
      <4> HIDE DEF C, new
      <4> QED BY <3>2, <3>3, FS_Bijection
    <3>5. Holders(r, h, task') = Holders(r, h, ts) \cup new
      <4>1. ASSUME NEW t \in Holders(r, h, task') PROVE t \in Holders(r, h, ts) \cup new
        <5>1. CASE t \in granted
          <6>1. /\ ts[t].pc = "queued" /\ ts[t].host = h /\ g[h][Place(t)] = r
                /\ Place(t) <= Len(g[h])
            BY <1>4, <4>1, <5>1 DEF Holders
          <6>2. /\ Place(t) \in 1..Len(waiters[h]) /\ waiters[h][Place(t)] = t
                /\ Len(g[h]) \in Nat
            BY <1>2, <1>3, <2>4, <6>1 DEF Holders
          <6>3. Place(t) \in C
            BY <6>1, <6>2
          <6> QED BY <6>2, <6>3
        <5>2. CASE t \notin granted
          BY <1>4, <4>1, <5>2 DEF Holders
        <5> QED BY <5>1, <5>2
      <4>2. ASSUME NEW t \in Holders(r, h, ts) PROVE t \in Holders(r, h, task')
        BY <1>4, <4>2 DEF Holders
      <4>3. ASSUME NEW i \in C PROVE waiters[h][i] \in Holders(r, h, task')
        <5> DEFINE t == waiters[h][i]
        <5>1. /\ t \in Tasks /\ ts[t].pc = "queued" /\ ts[t].host = h /\ Place(t) = i
              /\ i <= Len(g[h]) /\ g[h][i] = r
          <6>1. i \in 1..Len(g[h]) /\ g[h][i] = r
            BY <4>3
          <6>2. i \in 1..Len(waiters[h])
            BY <3>1, <4>3
          <6>3. Len(g[h]) \in Nat
            BY <1>2, <2>4
          <6>4. i <= Len(g[h])
            BY <6>1, <6>3
          <6>5. t \in Tasks /\ ts[t].pc = "queued" /\ ts[t].host = h /\ Place(t) = i
            BY <1>6, <6>2
          <6> QED BY <6>1, <6>4, <6>5
        <5> HIDE DEF t
        <5>2. t \in granted
          BY <1>4, <2>4, <5>1
        <5>3. task'[t].pc = "granted" /\ task'[t].route = r /\ task'[t].host = h
          BY <1>4, <5>1, <5>2
        <5>4. t \in Holders(r, h, task')
          BY <5>1, <5>3 DEF Holders
        <5> QED BY <5>4 DEF t
      <4> QED BY <4>1, <4>2, <4>3
    <3>6. Holders(r, h, ts) \cap new = {}
      <4>1. ASSUME NEW t \in new PROVE ts[t].pc = "queued"
        <5>1. PICK i \in C : t = waiters[h][i]
          OBVIOUS
        <5>2. i \in 1..Len(waiters[h])
          BY <3>1, <5>1
        <5> QED BY <1>6, <5>1, <5>2
      <4>2. \A t \in Holders(r, h, ts) : ts[t].pc # "queued"
        BY DEF Holders
      <4> QED BY <4>1, <4>2
    <3>7. inFlight'[r][h] = load[r][h] + Cardinality(C)
      <4>1. inFlight'[r][h] = Taken(h, g[h], Len(g[h]), load)[r][h]
        BY <1>1, <2>4
      <4>2. Taken(h, g[h], Len(g[h]), load)[r][h] = load[r][h] + Cardinality(C)
        BY DEF Taken, Loads
      <4> QED BY <4>1, <4>2
    <3> HIDE DEF C, new
    <3>8. /\ IsFiniteSet(Holders(r, h, task'))
          /\ Cardinality(Holders(r, h, task')) =
               Cardinality(Holders(r, h, ts)) + Cardinality(new)
               - Cardinality(Holders(r, h, ts) \cap new)
      BY <2>2, <3>4, <3>5, FS_Union
    <3>9. /\ Cardinality(Holders(r, h, ts) \cap new) = 0
          /\ Cardinality(Holders(r, h, ts)) \in Nat /\ Cardinality(new) \in Nat
      BY <2>2, <3>4, <3>6, FS_EmptySet, FS_CardinalityType
    <3> QED BY <2>2, <3>4, <3>7, <3>8, <3>9
  <2> QED BY <2>3, <2>4
<1> QED BY <1>7, <1>8

\* So a drain keeps both.
LEMMA DrainKeeps ==
  ASSUME NEW hs, hs \subseteq Hosts, NEW act, act \subseteq Routes, NEW st,
         NEW load \in Loads, NEW ts, TasksTyped(ts),
         waiters \in [Hosts -> Seq(Tasks)], QueueOK(waiters, ts), Counted(load, ts),
         \A t \in Tasks : ts[t].pc = "queued" => task[t].host = ts[t].host,
         Drain(hs, act, st, load, ts)
  PROVE  QueueOK(waiters', task') /\ Counted(inFlight', task')
BY RejectKeeps, GrantKeeps DEF Drain

\* Both depend only on who is queued and who holds a slot, and where.
SameStanding(ts, new) ==
  \A t \in Tasks :
    /\ new[t].pc = "queued" <=> ts[t].pc = "queued"
    /\ new[t].pc \in {"granted", "leased"} <=> ts[t].pc \in {"granted", "leased"}
    /\ ts[t].pc \in {"queued", "granted", "leased"} =>
         new[t].host = ts[t].host /\ new[t].route = ts[t].route

LEMMA StandingKeeps ==
  ASSUME NEW w \in [Hosts -> Seq(Tasks)], NEW load, NEW ts, NEW new,
         QueueOK(w, ts), Counted(load, ts), SameStanding(ts, new)
  PROVE  QueueOK(w, new) /\ Counted(load, new)
<1>1. QueueOK(w, new)
  <2>1. ASSUME NEW h \in Hosts, NEW i \in 1..Len(w[h])
        PROVE  new[w[h][i]].pc = "queued" /\ new[w[h][i]].host = h
    <3>1. w[h][i] \in Tasks /\ ts[w[h][i]].pc = "queued" /\ ts[w[h][i]].host = h
      BY DEF QueueOK
    <3> QED BY <3>1 DEF SameStanding
  <2>2. ASSUME NEW t \in Tasks, new[t].pc = "queued"
        PROVE  \E i \in 1..Len(w[new[t].host]) : w[new[t].host][i] = t
    <3>1. ts[t].pc = "queued" /\ new[t].host = ts[t].host
      BY <2>2 DEF SameStanding
    <3> QED BY <3>1 DEF QueueOK
  <2> QED BY <2>1, <2>2 DEF QueueOK
<1>2. \A r, h : Holders(r, h, new) = Holders(r, h, ts)
  BY DEF Holders, SameStanding
<1> QED BY <1>1, <1>2 DEF Counted

\* acquire() counts the slot it takes, and queues at the end.
LEMMA PickOrQueueKeeps ==
  ASSUME TypeOK, QueueOK(waiters, task), Counted(inFlight, task),
         NEW t \in Tasks, task[t].pc \in {"idle", "woken"}, NEW h \in Hosts, NEW av,
         PickOrQueue(t, h, av)
  PROVE  QueueOK(waiters', task') /\ Counted(inFlight', task')
<1>0. /\ waiters \in [Hosts -> Seq(Tasks)] /\ inFlight \in Loads
      /\ task \in [Tasks -> TaskStates] /\ active \subseteq Routes
  BY DEF TypeOK
<1>1. ASSUME NEW r \in Pick(h, av, active, settings, inFlight),
             inFlight' = [inFlight EXCEPT ![r][h] = @ + 1], UNCHANGED waiters,
             task' = [task EXCEPT ![t] = [Idle EXCEPT !.pc = "granted", !.host = h, !.route = r]]
      PROVE  QueueOK(waiters', task') /\ Counted(inFlight', task')
  <2>1. r \in Routes
    BY <1>0, <1>1, PickFree DEF Free
  <2>2. /\ task'[t].pc = "granted" /\ task'[t].host = h /\ task'[t].route = r
        /\ \A u \in Tasks \ {t} : task'[u] = task[u]
    BY <1>0, <1>1 DEF Idle
  <2>3. QueueOK(waiters', task')
    <3>1. ASSUME NEW x \in Hosts, NEW i \in 1..Len(waiters[x])
          PROVE  task'[waiters[x][i]].pc = "queued" /\ task'[waiters[x][i]].host = x
      <4>1. /\ waiters[x][i] \in Tasks /\ task[waiters[x][i]].pc = "queued"
            /\ task[waiters[x][i]].host = x
        BY <1>0 DEF QueueOK
      <4> QED BY <2>2, <4>1
    <3>2. ASSUME NEW u \in Tasks, task'[u].pc = "queued"
          PROVE  \E i \in 1..Len(waiters[task'[u].host]) : waiters[task'[u].host][i] = u
      <4>1. u # t /\ task'[u] = task[u]
        BY <2>2, <3>2
      <4> QED BY <3>2, <4>1 DEF QueueOK
    <3>3. waiters' = waiters
      BY <1>1
    <3> QED BY <3>1, <3>2, <3>3 DEF QueueOK
  <2>4. ASSUME NEW q \in Routes, NEW x \in Hosts
        PROVE  /\ IsFiniteSet(Holders(q, x, task'))
               /\ inFlight'[q][x] = Cardinality(Holders(q, x, task'))
    <3>1. IsFiniteSet(Holders(q, x, task)) /\ inFlight[q][x] = Cardinality(Holders(q, x, task))
      BY DEF Counted
    <3>2. CASE q = r /\ x = h
      <4>1. Holders(q, x, task') = Holders(q, x, task) \cup {t} /\ t \notin Holders(q, x, task)
        BY <2>2, <3>2 DEF Holders
      <4>2. inFlight'[q][x] = inFlight[q][x] + 1
        BY <1>0, <1>1, <2>1, <3>2 DEF Loads
      <4> QED BY <3>1, <4>1, <4>2, FS_AddElement
    <3>3. CASE ~(q = r /\ x = h)
      <4>1. Holders(q, x, task') = Holders(q, x, task)
        BY <2>2, <3>3 DEF Holders
      <4>2. inFlight'[q][x] = inFlight[q][x]
        BY <1>0, <1>1, <2>1, <3>3 DEF Loads
      <4> QED BY <3>1, <4>1, <4>2
    <3> QED BY <3>2, <3>3
  <2> QED BY <2>3, <2>4 DEF Counted
<1>2. ASSUME task' = [task EXCEPT ![t] = [Idle EXCEPT !.pc = "rejected", !.host = h]],
             UNCHANGED <<inFlight, waiters>>
      PROVE  QueueOK(waiters', task') /\ Counted(inFlight', task')
  <2>1. SameStanding(task, task')
    BY <1>0, <1>2 DEF SameStanding, Idle
  <2> QED BY <1>0, <1>2, <2>1, StandingKeeps
<1>3. ASSUME waiters' = [waiters EXCEPT ![h] = Append(@, t)],
             task' = [task EXCEPT ![t] = [Idle EXCEPT !.pc = "queued", !.host = h, !.avoid = av]],
             UNCHANGED inFlight
      PROVE  QueueOK(waiters', task') /\ Counted(inFlight', task')
  <2>1. /\ task'[t].pc = "queued" /\ task'[t].host = h
        /\ \A u \in Tasks \ {t} : task'[u] = task[u]
    BY <1>0, <1>3 DEF Idle
  <2>2. /\ Len(waiters'[h]) = Len(waiters[h]) + 1 /\ waiters'[h][Len(waiters[h]) + 1] = t
        /\ \A i \in 1..Len(waiters[h]) : waiters'[h][i] = waiters[h][i]
        /\ \A x \in Hosts \ {h} : waiters'[x] = waiters[x]
        /\ Len(waiters[h]) \in Nat
    BY <1>0, <1>3
  <2>3. \A x \in Hosts : \A i \in 1..Len(waiters[x]) :
          /\ waiters[x][i] \in Tasks \ {t} /\ task[waiters[x][i]].pc = "queued"
          /\ task[waiters[x][i]].host = x
    BY <1>0 DEF QueueOK
  <2>4. QueueOK(waiters', task')
    <3>1. ASSUME NEW x \in Hosts, NEW i \in 1..Len(waiters'[x])
          PROVE  task'[waiters'[x][i]].pc = "queued" /\ task'[waiters'[x][i]].host = x
      <4>1. CASE x = h
        <5>1. CASE i = Len(waiters[h]) + 1 BY <2>1, <2>2, <4>1, <5>1
        <5>2. CASE i # Len(waiters[h]) + 1
          <6>1. i \in 1..Len(waiters[h]) BY <2>2, <3>1, <4>1, <5>2
          <6>2. waiters'[x][i] = waiters[x][i] BY <2>2, <4>1, <6>1
          <6> QED BY <2>1, <2>3, <4>1, <6>1, <6>2
        <5> QED BY <5>1, <5>2
      <4>2. CASE x # h
        <5>1. waiters'[x] = waiters[x] BY <2>2, <4>2
        <5> QED BY <2>1, <2>3, <5>1
      <4> QED BY <4>1, <4>2
    <3>2. ASSUME NEW x \in Hosts, NEW i \in 1..Len(waiters'[x]), NEW j \in 1..Len(waiters'[x]),
                 waiters'[x][i] = waiters'[x][j]
          PROVE  i = j
      <4>0. \A a, b \in 1..Len(waiters[x]) : waiters[x][a] = waiters[x][b] => a = b
        BY DEF QueueOK
      <4>1. CASE x = h
        <5>1. /\ i \in 1..Len(waiters[h]) \/ i = Len(waiters[h]) + 1
              /\ j \in 1..Len(waiters[h]) \/ j = Len(waiters[h]) + 1
          BY <2>2, <3>2, <4>1
        <5>2. ASSUME NEW a \in 1..Len(waiters[h]) PROVE waiters'[h][a] # t
          <6>1. waiters'[h][a] = waiters[h][a] BY <2>2
          <6>2. waiters[h][a] \in Tasks \ {t} BY <2>3
          <6> QED BY <6>1, <6>2
        <5> QED BY <2>2, <3>2, <4>0, <4>1, <5>1, <5>2
      <4>2. CASE x # h
        <5>1. waiters'[x] = waiters[x] BY <2>2, <4>2
        <5> QED BY <3>2, <4>0, <5>1
      <4> QED BY <4>1, <4>2
    <3>3. ASSUME NEW u \in Tasks, task'[u].pc = "queued"
          PROVE  \E i \in 1..Len(waiters'[task'[u].host]) : waiters'[task'[u].host][i] = u
      <4>1. CASE u = t
        <5>1. Len(waiters[h]) + 1 \in 1..Len(waiters'[h]) BY <2>2
        <5> QED BY <2>1, <2>2, <4>1, <5>1
      <4>2. CASE u # t
        <5>1. task[u].pc = "queued" /\ task'[u] = task[u] /\ task[u].host \in Hosts
          BY <2>1, <3>3, <4>2 DEF TypeOK
        <5>2. PICK i \in 1..Len(waiters[task[u].host]) : waiters[task[u].host][i] = u
          BY <5>1 DEF QueueOK
        <5>3. CASE task[u].host = h
          <6>1. i \in 1..Len(waiters'[h]) /\ waiters'[h][i] = u BY <2>2, <5>2, <5>3
          <6> QED BY <5>1, <5>3, <6>1
        <5>4. CASE task[u].host # h
          <6>1. waiters'[task[u].host] = waiters[task[u].host] BY <2>2, <5>1, <5>4
          <6> QED BY <5>1, <5>2, <6>1
        <5> QED BY <5>3, <5>4
      <4> QED BY <4>1, <4>2
    <3> QED BY <3>1, <3>2, <3>3 DEF QueueOK
  <2>5. \A q, x : Holders(q, x, task') = Holders(q, x, task)
    BY <2>1 DEF Holders
  <2> QED BY <1>3, <2>4, <2>5 DEF Counted
<1> QED BY <1>1, <1>2, <1>3 DEF PickOrQueue

LineInv == QueueOK(waiters, task) /\ Counted(inFlight, task)

LEMMA LineStep ==
  ASSUME TypeOK, LineInv, Next
  PROVE  LineInv'
<1>0. /\ waiters \in [Hosts -> Seq(Tasks)] /\ inFlight \in Loads /\ TasksTyped(task)
      /\ routes \subseteq Routes /\ active \subseteq Routes /\ task \in [Tasks -> TaskStates]
  BY DEF TypeOK, TasksTyped
<1>1. ASSUME UNCHANGED slotVars PROVE LineInv'
  BY <1>1 DEF slotVars, LineInv
<1>2. ASSUME UNCHANGED <<inFlight, waiters>>, SameStanding(task, task') PROVE LineInv'
  BY <1>0, <1>2, StandingKeeps DEF LineInv
<1>3. ASSUME NEW rs, rs \subseteq Routes, NEW st, NEW he, NEW load \in Loads, NEW ts,
             TasksTyped(ts), QueueOK(waiters, ts), Counted(load, ts),
             \A t \in Tasks : ts[t].pc = "queued" => task[t].host = ts[t].host,
             Recompute(rs, st, he, load, ts)
      PROVE  LineInv'
  <2>1. Active(rs, st, he) \subseteq Routes
    BY <1>3 DEF Active, Usable
  <2> QED BY <1>0, <1>3, <2>1, DrainKeeps DEF Recompute, LineInv
<1>4. ASSUME NEW rs, rs \subseteq Routes, NEW st, NEW he,
             Recompute(rs, st, he, inFlight, task)
      PROVE  LineInv'
  BY <1>0, <1>3, <1>4 DEF LineInv
<1>5. ASSUME NEW c, NEW chosen, NEW cfg, cfg \subseteq Routes, NEW st, StartBatch(c, chosen, cfg, st)
      PROVE  LineInv'
  <2>1. PICK he : Recompute(cfg, st, he, inFlight, task)
    BY <1>5, Zenon DEF StartBatch
  <2> QED BY <1>4, <1>5, <2>1
<1>6. ASSUME NEW t \in Tasks, TaskStep(t) PROVE LineInv'
  <2>1. ASSUME NEW h \in Hosts, NEW av, Acquire(t, h, av) PROVE LineInv'
    <3>1. CASE AwaitsCheck
      <4>1. /\ task' = [task EXCEPT ![t].pc = "waitCheck", ![t].host = h, ![t].avoid = av]
            /\ task[t].pc = "idle" /\ UNCHANGED <<inFlight, waiters>>
        BY <2>1, <3>1 DEF Acquire
      <4>2. task'[t].pc = "waitCheck" /\ \A u \in Tasks \ {t} : task'[u] = task[u]
        BY <1>0, <4>1 DEF TaskStates
      <4>3. SameStanding(task, task')
        BY <4>1, <4>2 DEF SameStanding
      <4> QED BY <1>2, <4>1, <4>3
    <3>2. CASE ~AwaitsCheck
      BY <2>1, <3>2, PickOrQueueKeeps DEF Acquire, LineInv
    <3> QED BY <3>1, <3>2
  <2>2. CASE ResumeAcquire(t)
    <3>1. task[t].host \in Hosts
      BY <2>2 DEF ResumeAcquire, TypeOK
    <3> QED BY <2>2, <3>1, PickOrQueueKeeps DEF ResumeAcquire, LineInv
  <2>3. CASE ThrottlePass(t)
    <3>1. SameStanding(task, task') /\ UNCHANGED <<inFlight, waiters>>
      BY <1>0, <2>3 DEF ThrottlePass, SameStanding, TaskStates
    <3> QED BY <1>2, <3>1
  <2>4. CASE Fail(t)
    <3>1. SameStanding(task, task') /\ UNCHANGED <<inFlight, waiters>>
      BY <1>0, <2>4 DEF Fail, SameStanding, TaskStates, Idle
    <3> QED BY <1>2, <3>1
  <2>5. ASSUME NEW outcome \in Outcomes, Release(t, outcome) PROVE LineInv'
    <3> DEFINE r == task[t].route
               h == task[t].host
               load == [inFlight EXCEPT ![r][h] = IF @ > 1 THEN @ - 1 ELSE 0]
               ts == [task EXCEPT ![t] = Idle]
    <3>0. r \in Routes /\ h \in Hosts /\ task[t].pc = "leased"
      BY <2>5 DEF Release, TypeOK
    <3>1. load \in Loads
      BY <1>0, <3>0 DEF Loads
    <3>2. TasksTyped(ts)
      BY <1>0, IdleTyped, TaskUpdate
    <3>3. ts[t].pc = "idle" /\ \A u \in Tasks \ {t} : ts[u] = task[u]
      BY <1>0 DEF Idle
    <3>4. /\ load[r][h] = IF inFlight[r][h] > 1 THEN inFlight[r][h] - 1 ELSE 0
          /\ \A q \in Routes, x \in Hosts : ~(q = r /\ x = h) => load[q][x] = inFlight[q][x]
      BY <1>0, <3>0 DEF Loads
    <3> HIDE DEF ts
    <3>5. QueueOK(waiters, ts)
      <4>1. ASSUME NEW x \in Hosts, NEW i \in 1..Len(waiters[x])
            PROVE  ts[waiters[x][i]].pc = "queued" /\ ts[waiters[x][i]].host = x
        <5>1. /\ waiters[x][i] \in Tasks /\ task[waiters[x][i]].pc = "queued"
              /\ task[waiters[x][i]].host = x
          BY <1>0 DEF LineInv, QueueOK
        <5> QED BY <3>0, <3>3, <5>1
      <4>2. ASSUME NEW u \in Tasks, ts[u].pc = "queued"
            PROVE  \E i \in 1..Len(waiters[ts[u].host]) : waiters[ts[u].host][i] = u
        <5>1. ts[u] = task[u]
          BY <3>3, <4>2
        <5> QED BY <4>2, <5>1 DEF LineInv, QueueOK
      <4> QED BY <4>1, <4>2 DEF LineInv, QueueOK
    <3>6. Counted(load, ts)
      <4>1. SUFFICES ASSUME NEW q \in Routes, NEW x \in Hosts
                     PROVE  /\ IsFiniteSet(Holders(q, x, ts))
                            /\ load[q][x] = Cardinality(Holders(q, x, ts))
        BY DEF Counted
      <4>2. /\ IsFiniteSet(Holders(q, x, task)) /\ inFlight[q][x] = Cardinality(Holders(q, x, task))
            /\ inFlight[q][x] \in Nat
        BY <1>0 DEF LineInv, Counted, Loads
      <4>3. CASE q = r /\ x = h
        <5>1. Holders(q, x, ts) = Holders(q, x, task) \ {t} /\ t \in Holders(q, x, task)
          BY <3>0, <3>3, <4>3 DEF Holders
        <5>2. inFlight[q][x] # 0
          BY <4>2, <5>1, FS_EmptySet
        <5>3. load[q][x] = inFlight[q][x] - 1
          <6>1. load[q][x] = IF inFlight[q][x] > 1 THEN inFlight[q][x] - 1 ELSE 0
            BY <3>4, <4>3
          <6> QED BY <4>2, <5>2, <6>1
        <5> QED BY <4>2, <5>1, <5>3, FS_RemoveElement
      <4>4. CASE ~(q = r /\ x = h)
        <5>1. Holders(q, x, ts) = Holders(q, x, task)
          BY <3>0, <3>3, <4>4 DEF Holders
        <5> QED BY <3>4, <4>2, <4>4, <5>1
      <4> QED BY <4>3, <4>4
    <3>7. \A u \in Tasks : ts[u].pc = "queued" => task[u].host = ts[u].host
      BY <3>3
    <3>8. CASE Trips(r, outcome)
      <4>1. PICK he : Recompute(routes, settings, he, load, ts)
        BY <2>5, <3>8, Zenon DEF Release, LeaseRoute, ts
      <4> HIDE DEF load, r, h
      <4> QED BY <1>0, <1>3, <3>1, <3>2, <3>5, <3>6, <3>7, <4>1
    <3>9. CASE ~Trips(r, outcome)
      <4>1. Drain({h}, active, settings, load, ts)
        BY <2>5, <3>9, Zenon DEF Release, LeaseRoute, ts
      <4> HIDE DEF load, r, h
      <4>2. {h} \subseteq Hosts
        BY <3>0
      <4> QED BY <1>0, <3>1, <3>2, <3>5, <3>6, <3>7, <4>1, <4>2, DrainKeeps DEF LineInv
    <3> QED BY <3>8, <3>9
  <2> QED BY <1>6, <2>1, <2>2, <2>3, <2>4, <2>5 DEF TaskStep
<1>7. ASSUME NEW c \in Checkers, CheckStep(c) PROVE LineInv'
  <2>1. ASSUME NEW chosen, Check(c, chosen) PROVE LineInv'
    BY <1>0, <1>1, <1>5, <2>1 DEF Check
  <2>2. ASSUME NEW cfg \in Configs, Reload(c, cfg) PROVE LineInv'
    BY <1>4, <1>5, <2>2 DEF Reload, Configs
  <2>3. CASE ResumeCheck(c)
    BY <1>0, <1>5, <2>3 DEF ResumeCheck
  <2>4. CASE BatchDone(c)
    <3> DEFINE ts == [t \in Tasks |-> [task[t] EXCEPT
                        !.pc = IF @ = "waitCheck" /\ Awaits(t, c) THEN "woken" ELSE @]]
    <3>1. Recompute(routes, settings, health, inFlight, ts)
      BY <2>4 DEF BatchDone
    <3>2. TasksTyped(ts)
      BY <1>0, WokenTyped
    <3>3. SameStanding(task, ts) /\ \A t \in Tasks : ts[t].host = task[t].host
      BY <1>0 DEF SameStanding, TaskStates
    <3> HIDE DEF ts
    <3>4. QueueOK(waiters, ts) /\ Counted(inFlight, ts)
      BY <1>0, <3>3, StandingKeeps DEF LineInv
    <3> QED BY <1>0, <1>3, <3>1, <3>2, <3>3, <3>4
  <2> QED BY <1>1, <1>7, <2>1, <2>2, <2>3, <2>4 DEF CheckStep, CheckOk, CheckFail
<1>8. ASSUME NEW p \in Patchers, PatchStep(p) PROVE LineInv'
  BY <1>0, <1>1, <1>4, <1>8 DEF PatchStep, Patch, SaveOk, SaveFail
<1> QED BY <1>6, <1>7, <1>8 DEF Next

\* What the two say of a host and of a slot.
LEMMA LineMeaning ==
  ASSUME TypeOK, LineInv
  PROVE  QueueHoldsWaiting /\ SlotAccounting
<1>1. ASSUME NEW h \in Hosts
      PROVE  /\ {waiters[h][i] : i \in 1..Len(waiters[h])} = Waiting(h)
             /\ Len(waiters[h]) = Cardinality(Waiting(h))
  <2> DEFINE n == Len(waiters[h])
             f == [i \in 1..n |-> waiters[h][i]]
  <2>0. waiters[h] \in Seq(Tasks) /\ n \in Nat
    BY DEF TypeOK
  <2>1. {waiters[h][i] : i \in 1..n} = Waiting(h)
    BY <2>0 DEF LineInv, QueueOK, Waiting
  <2>2. \A i, j \in 1..n : waiters[h][i] = waiters[h][j] => i = j
    BY DEF LineInv, QueueOK
  <2>3. f \in Bijection(1..n, Waiting(h))
    BY <2>1, <2>2 DEF Bijection, Injection, Surjection, IsInjective
  <2>4. ExistsBijection(1..n, Waiting(h))
    BY <2>3 DEF ExistsBijection
  <2>5. Cardinality(Waiting(h)) = n
    BY <2>0, <2>4, FS_CountingElements
  <2> QED BY <2>1, <2>5
<1>2. \A r, h : Holders(r, h, task) = {t \in Tasks : Holds(t, r, h)}
  BY DEF Holders, Holds
<1> QED BY <1>1, <1>2 DEF QueueHoldsWaiting, SlotAccounting, LineInv, Counted

\* acquire(), release() and drain() in every handler: no promise is forgotten or
\* settled twice, and no slot leaks or is freed twice.
THEOREM NothingIsLost == Spec => [](QueueHoldsWaiting /\ SlotAccounting)
<1>1. Init => LineInv
  <2>1. SUFFICES ASSUME Init PROVE LineInv
    OBVIOUS
  <2>2. /\ \A h \in Hosts : waiters[h] = <<>>
        /\ \A r \in Routes, h \in Hosts : inFlight[r][h] = 0
        /\ \A t \in Tasks : task[t].pc = "idle"
    BY <2>1 DEF Init, Idle
  <2>3. \A r, h : Holders(r, h, task) = {}
    BY <2>2 DEF Holders
  <2>4. \A h \in Hosts : 1..Len(waiters[h]) = {}
    BY <2>2
  <2>5. QueueOK(waiters, task)
    BY <2>2, <2>4 DEF QueueOK
  <2>6. Counted(inFlight, task)
    BY <2>2, <2>3, FS_EmptySet DEF Counted
  <2> QED BY <2>5, <2>6 DEF LineInv
<1>2. TypeOK /\ LineInv /\ [Next]_vars => LineInv'
  <2>1. LineInv /\ UNCHANGED vars => LineInv'
    BY DEF vars, slotVars, LineInv
  <2> QED BY <2>1, LineStep
<1>3. TypeOK /\ LineInv => QueueHoldsWaiting /\ SlotAccounting
  BY LineMeaning
<1> QED BY <1>1, <1>2, <1>3, TypeCorrect, PTL DEF Spec
=============================================================================
