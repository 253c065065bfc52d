------------------------- MODULE DownloadViewProofs -------------------------
(***************************************************************************)
(* The download page, for any number of images, batches and renderings:    *)
(* one loop per view, no unfinished image without one, no error from       *)
(* before a retry, and no request of a view that was left.                 *)
(***************************************************************************)
EXTENDS DownloadView, FiniteSetTheorems, TLAPS

\* A loop asks for unfinished images only, for each once a pass, and its answer
\* tells of no others, nor of anything a retry of the view has overtaken.
StateOK(state, cells) ==
  /\ state \in LoopStates
  /\ state.pc # "asking" => state.batch = {} /\ state.rest = {}
  /\ state.batch \cap state.rest = {}
  /\ state.batch \cup state.rest \subseteq Pending(cells)
  /\ \A i \in Items : state.answer[i] # "outdated" /\ (state.answer[i] # "none" => i \in state.batch)

LoopsOK(v) == \A l \in Loops : StateOK(loop[v][l], cell[v])

\* The flag tells whether there is a loop, and there is at most one.
OneLoop(v) ==
  /\ \A l, m \in Loops : loop[v][l].pc # "off" /\ loop[v][m].pc # "off" => l = m
  /\ polling[v] <=> \E l \in Loops : loop[v][l].pc # "off"

\* Only failed images are being retried.
RetryOK(v) == \A i \in Items : retry[v][i] # "no" => cell[v][i] = "error"

\* A view that was not rendered does nothing.
Unseen(v) == v \notin shown => ~polling[v] /\ ~Retrying(v)

HasLoop(v) == v = session /\ v \in shown /\ Pending(cell[v]) # {} => polling[v] \/ Retrying(v)

ViewInv(v) == LoopsOK(v) /\ OneLoop(v) /\ RetryOK(v) /\ Unseen(v) /\ HasLoop(v)

IInv == TypeOK /\ \A v \in Views : ViewInv(v)

-----------------------------------------------------------------------------
\* The states a loop moves to.
LEMMA IdleOK ==
  ASSUME NEW cells
  PROVE  /\ StateOK(Off, cells) /\ Off.pc = "off" /\ Off.batch = {}
         /\ StateOK(Sleeping, cells) /\ Sleeping.pc = "sleeping" /\ Sleeping.batch = {}
BY DEF StateOK, Off, Sleeping, Unanswered, LoopStates, Statuses

LEMMA AskingOK ==
  ASSUME NEW cells, NEW S, S \subseteq Pending(cells)
  PROVE  StateOK(Asking(S), cells) /\ Asking(S).pc = "asking"
<1>1. FirstOf(S) \subseteq S BY DEF FirstOf
<1>2. S \subseteq Items BY DEF Pending
<1>. QED BY <1>1, <1>2 DEF StateOK, Asking, Unanswered, LoopStates, Statuses

\* A loop ends only when its view was left or has nothing unfinished.
LEMMA PassOK ==
  ASSUME NEW v, NEW cells
  PROVE  /\ StateOK(Pass(v, cells), cells)
         /\ Pass(v, cells).pc = "off" => Left(v) \/ Pending(cells) = {}
         /\ Left(v) => Pass(v, cells).batch = {}
BY IdleOK, AskingOK DEF Pass

LEMMA AfterBatchOK ==
  ASSUME NEW v, NEW cells, NEW rest, rest \subseteq Pending(cells)
  PROVE  /\ StateOK(AfterBatch(v, rest, cells), cells)
         /\ AfterBatch(v, rest, cells).pc = "off" => Left(v) \/ Pending(cells) = {}
         /\ Left(v) => AfterBatch(v, rest, cells).batch = {}
<1>1. Finished(cells) => Pending(cells) = {} BY DEF Finished, Pending
<1>. QED BY <1>1, IdleOK, AskingOK DEF AfterBatch

\* The only loop of a view, if it has one, moves on.
LEMMA GoesKeeps ==
  ASSUME IInv, NEW v \in Views, NEW l \in Loops, NEW state, NEW cells,
         \A m \in Loops : loop[v][m].pc # "off" => m = l,
         StateOK(state, cells),
         Goes(v, l, state),
         cell'[v] = cells, \A w \in Views : w # v => cell'[w] = cell[w]
  PROVE  /\ loop' \in [Views -> [Loops -> LoopStates]]
         /\ polling' \in [Views -> BOOLEAN]
         /\ \A w \in Views : LoopsOK(w)' /\ OneLoop(w)'
         /\ polling'[v] <=> state.pc # "off"
         /\ \A w \in Views : w # v => polling'[w] = polling[w]
<1>1. /\ loop \in [Views -> [Loops -> LoopStates]] /\ polling \in [Views -> BOOLEAN]
      /\ \A w \in Views : LoopsOK(w) /\ OneLoop(w)
  BY DEF IInv, TypeOK, ViewInv
<1>2. state \in LoopStates BY DEF StateOK
<1>3. /\ loop' \in [Views -> [Loops -> LoopStates]] /\ polling' \in [Views -> BOOLEAN]
      /\ loop'[v][l] = state /\ polling'[v] = (state.pc # "off")
      /\ \A m \in Loops : m # l => loop'[v][m] = loop[v][m]
      /\ \A w \in Views : w # v => loop'[w] = loop[w] /\ polling'[w] = polling[w]
  BY <1>1, <1>2 DEF Goes
<1>4. \A m \in Loops : StateOK(loop'[v][m], cells)
  <2>. SUFFICES ASSUME NEW m \in Loops, m # l PROVE StateOK(loop[v][m], cells)
    BY <1>3
  <2>1. StateOK(loop[v][m], cell[v]) BY <1>1 DEF LoopsOK
  <2>2. loop[v][m].pc = "off" OBVIOUS
  <2>. QED BY <2>1, <2>2 DEF StateOK
<1>5. \A w \in Views : LoopsOK(w)' BY <1>1, <1>3, <1>4 DEF LoopsOK
<1>6. \A w \in Views : OneLoop(w)'
  <2>. SUFFICES ASSUME NEW w \in Views PROVE OneLoop(w)'
    OBVIOUS
  <2>1. CASE w = v BY <2>1, <1>3 DEF OneLoop
  <2>2. CASE w # v BY <2>2, <1>1, <1>3 DEF OneLoop
  <2>. QED BY <2>1, <2>2
<1>. QED BY <1>3, <1>5, <1>6

\* poll() in the view that is shown: it ends with a loop or has nothing to do.
LEMMA PollKeeps ==
  ASSUME IInv, NEW v \in Views, NEW cells,
         Pending(cell[v]) \subseteq Pending(cells),
         Poll(v, cells), v = session',
         cell'[v] = cells, \A w \in Views : w # v => cell'[w] = cell[w]
  PROVE  /\ loop' \in [Views -> [Loops -> LoopStates]]
         /\ polling' \in [Views -> BOOLEAN]
         /\ \A w \in Views : LoopsOK(w)' /\ OneLoop(w)'
         /\ Pending(cells) # {} => polling'[v]
         /\ \A w \in Views : w # v => polling'[w] = polling[w]
<1>1. /\ loop \in [Views -> [Loops -> LoopStates]] /\ polling \in [Views -> BOOLEAN]
      /\ \A w \in Views : LoopsOK(w) /\ OneLoop(w)
  BY DEF IInv, TypeOK, ViewInv
<1>2. CASE polling[v]
  <2>1. UNCHANGED <<polling, loop>> BY <1>2 DEF Poll, MayPoll
  <2>2. \A l \in Loops : StateOK(loop[v][l], cells)
    BY <1>1 DEF LoopsOK, StateOK
  <2>3. \A w \in Views : LoopsOK(w)' BY <1>1, <2>1, <2>2 DEF LoopsOK
  <2>4. \A w \in Views : OneLoop(w)' BY <1>1, <2>1 DEF OneLoop
  <2>. QED BY <1>1, <1>2, <2>1, <2>3, <2>4
<1>3. CASE ~polling[v]
  <2>1. \A l \in Loops : loop[v][l].pc = "off" BY <1>1, <1>3 DEF OneLoop
  <2>2. PICK l : l = CHOOSE m \in {m \in Loops : loop[v][m].pc = "off"} : TRUE
    BY Zenon
  <2>3. l \in Loops
    <3>1. {m \in Loops : loop[v][m].pc = "off"} = Loops BY <2>1
    <3>. QED BY <2>2, <3>1, ViewAssumption
  <2>4. Goes(v, l, Pass(v, cells)) BY <1>3, <2>2 DEF Poll, MayPoll
  <2>5. StateOK(Pass(v, cells), cells) /\ (Pass(v, cells).pc = "off" => Pending(cells) = {})
    BY PassOK DEF Left
  <2>. HIDE DEF Pass
  <2>. QED BY <2>1, <2>3, <2>4, <2>5, GoesKeeps
<1>. QED BY <1>2, <1>3
-----------------------------------------------------------------------------
\* A view that a step leaves alone, but perhaps for its answers.
LEMMA OthersKeep ==
  ASSUME IInv, NEW w \in Views,
         cell'[w] = cell[w], polling'[w] = polling[w], retry'[w] = retry[w],
         UNCHANGED <<session, shown>>
  PROVE  RetryOK(w)' /\ Unseen(w)' /\ HasLoop(w)'
<1>1. RetryOK(w) /\ Unseen(w) /\ HasLoop(w) BY DEF IInv, ViewInv
<1>2. RetryOK(w)' BY <1>1 DEF RetryOK
<1>3. Retrying(w)' <=> Retrying(w) BY DEF Retrying
<1>4. Unseen(w)' BY <1>1, <1>3 DEF Unseen
<1>5. HasLoop(w)' BY <1>1, <1>3 DEF HasLoop, Pending
<1>. QED BY <1>2, <1>4, <1>5

LEMMA InitInv == Init => IInv
<1>. SUFFICES ASSUME Init PROVE IInv
  OBVIOUS
<1>1. TypeOK
  <2>1. Off \in LoopStates BY IdleOK DEF StateOK
  <2>. QED BY <2>1, ViewAssumption DEF Init, TypeOK, Statuses
<1>2. \A v \in Views : ViewInv(v)
  <2>. SUFFICES ASSUME NEW v \in Views PROVE ViewInv(v)
    OBVIOUS
  <2>1. LoopsOK(v) BY IdleOK DEF LoopsOK, Init
  <2>2. OneLoop(v) BY IdleOK DEF OneLoop, Init
  <2>. QED BY <2>1, <2>2 DEF ViewInv, RetryOK, Unseen, HasLoop, Retrying, Init
<1>. QED BY <1>1, <1>2 DEF IInv

\* What an answered batch shows.
LEMMA LandsKeeps == ASSUME IInv, NEW v \in Views, NEW l \in Loops, Lands(v, l) PROVE IInv'
<1>. DEFINE now == loop[v][l]
            told == [i \in Items |-> IF i \notin now.batch THEN cell[v][i]
                                     ELSE IF now.answer[i] = "outdated" THEN "error" ELSE now.answer[i]]
<1>1. /\ TypeOK /\ ViewInv(v) /\ StateOK(now, cell[v])
  BY DEF IInv, ViewInv, LoopsOK
<1>2. /\ now.pc = "asking" /\ \A i \in now.batch : now.answer[i] # "none"
      /\ UNCHANGED <<session, shown, retry, fill, expired, failures>>
  BY DEF Lands
<1>3. \A m \in Loops : loop[v][m].pc # "off" => m = l
  BY <1>1, <1>2 DEF ViewInv, OneLoop
<1>4. polling[v] /\ v \in shown BY <1>1, <1>2 DEF ViewInv, OneLoop, Unseen
<1>5. CASE Left(v)
  <2>1. Goes(v, l, Off) /\ UNCHANGED cell BY <1>5 DEF Lands
  <2>2. /\ loop' \in [Views -> [Loops -> LoopStates]] /\ polling' \in [Views -> BOOLEAN]
        /\ \A w \in Views : LoopsOK(w)' /\ OneLoop(w)'
        /\ \A w \in Views : w # v => polling'[w] = polling[w]
    BY <1>3, <2>1, IdleOK, GoesKeeps
  <2>3. TypeOK' BY <1>1, <1>2, <2>1, <2>2 DEF TypeOK
  <2>4. \A w \in Views : RetryOK(w)' /\ Unseen(w)' /\ HasLoop(w)'
    BY <1>2, <1>4, <1>5, <2>1, <2>2 DEF IInv, ViewInv, RetryOK, Unseen, HasLoop, Retrying, Left, Pending
  <2>. QED BY <2>2, <2>3, <2>4 DEF IInv, ViewInv
<1>6. CASE ~Left(v)
  <2>1. Goes(v, l, AfterBatch(v, now.rest, told)) /\ cell' = [cell EXCEPT ![v] = told]
    BY <1>6 DEF Lands
  <2>2. told \in [Items -> Statuses]
    BY <1>1, <1>2 DEF StateOK, LoopStates, Statuses, TypeOK
  <2>3. cell' \in [Views -> [Items -> Statuses]] /\ cell'[v] = told
        /\ \A w \in Views : w # v => cell'[w] = cell[w]
    BY <1>1, <2>1, <2>2 DEF TypeOK
  <2>4. now.rest \subseteq Pending(told)
    BY <1>1 DEF StateOK, Pending
  <2>5. \A i \in Items : retry[v][i] # "no" => told[i] = "error"
    BY <1>1 DEF StateOK, Pending, ViewInv, RetryOK
  <2>. HIDE DEF told, now
  <2>6. /\ StateOK(AfterBatch(v, now.rest, told), told)
        /\ AfterBatch(v, now.rest, told).pc = "off" => Pending(told) = {}
    BY <1>6, <2>4, AfterBatchOK
  <2>7. /\ loop' \in [Views -> [Loops -> LoopStates]] /\ polling' \in [Views -> BOOLEAN]
        /\ \A w \in Views : LoopsOK(w)' /\ OneLoop(w)'
        /\ Pending(told) # {} => polling'[v]
        /\ \A w \in Views : w # v => polling'[w] = polling[w]
    BY <1>3, <2>1, <2>3, <2>6, GoesKeeps
  <2>8. TypeOK' BY <1>1, <1>2, <2>3, <2>7 DEF TypeOK
  <2>9. RetryOK(v)' /\ Unseen(v)' /\ HasLoop(v)'
    BY <1>2, <1>4, <2>3, <2>5, <2>7 DEF RetryOK, Unseen, HasLoop
  <2>10. \A w \in Views : w # v => RetryOK(w)' /\ Unseen(w)' /\ HasLoop(w)'
    BY <1>2, <2>3, <2>7, OthersKeep
  <2>. QED BY <2>7, <2>8, <2>9, <2>10 DEF IInv, ViewInv
<1>. QED BY <1>5, <1>6

\* A loop that goes on without news.
LEMMA MovesKeeps ==
  ASSUME IInv, NEW v \in Views, NEW l \in Loops, NEW state,
         loop[v][l].pc # "off", Goes(v, l, state),
         StateOK(state, cell[v]), state.pc = "off" => Left(v) \/ Pending(cell[v]) = {},
         failures' \in 0..Failures, UNCHANGED <<session, shown, cell, retry, fill, expired>>
  PROVE  IInv'
<1>1. TypeOK /\ ViewInv(v) BY DEF IInv
<1>2. \A m \in Loops : loop[v][m].pc # "off" => m = l BY <1>1 DEF ViewInv, OneLoop
<1>3. polling[v] /\ v \in shown BY <1>1 DEF ViewInv, OneLoop, Unseen
<1>4. /\ loop' \in [Views -> [Loops -> LoopStates]] /\ polling' \in [Views -> BOOLEAN]
      /\ \A w \in Views : LoopsOK(w)' /\ OneLoop(w)'
      /\ polling'[v] <=> state.pc # "off"
      /\ \A w \in Views : w # v => polling'[w] = polling[w]
  BY <1>2, GoesKeeps
<1>5. TypeOK' BY <1>1, <1>4 DEF TypeOK
<1>6. \A w \in Views : RetryOK(w)' /\ Unseen(w)' /\ HasLoop(w)'
  BY <1>3, <1>4 DEF IInv, ViewInv, RetryOK, Unseen, HasLoop, Retrying, Left, Pending
<1>. QED BY <1>4, <1>5, <1>6 DEF IInv, ViewInv

LEMMA FailsKeeps == ASSUME IInv, NEW v \in Views, NEW l \in Loops, Fails(v, l) PROVE IInv'
<1>. DEFINE state == AfterBatch(v, loop[v][l].rest, cell[v])
<1>1. StateOK(loop[v][l], cell[v]) BY DEF IInv, ViewInv, LoopsOK
<1>2. loop[v][l].rest \subseteq Pending(cell[v]) BY <1>1 DEF StateOK
<1>3. StateOK(state, cell[v]) /\ (state.pc = "off" => Left(v) \/ Pending(cell[v]) = {})
  BY <1>2, AfterBatchOK
<1>4. failures' \in 0..Failures BY ViewAssumption DEF IInv, TypeOK, Fails
<1>5. /\ loop[v][l].pc # "off" /\ Goes(v, l, state)
      /\ UNCHANGED <<session, shown, cell, retry, fill, expired>>
  BY DEF Fails
<1>. HIDE DEF state
<1>. QED BY <1>3, <1>4, <1>5, MovesKeeps

LEMMA WakesKeeps == ASSUME IInv, NEW v \in Views, NEW l \in Loops, Wakes(v, l) PROVE IInv'
<1>1. failures' \in 0..Failures BY DEF IInv, TypeOK, Wakes
<1>2. /\ loop[v][l].pc # "off" /\ Goes(v, l, Pass(v, cell[v]))
      /\ UNCHANGED <<session, shown, cell, retry, fill, expired>>
  BY DEF Wakes
<1>. QED BY <1>1, <1>2, PassOK, MovesKeeps

-----------------------------------------------------------------------------
LEMMA ShowKeeps == ASSUME IInv, Show PROVE IInv'
<1>1. PICK v : v = session + 1 BY Zenon
<1>2. /\ TypeOK /\ v \in Views /\ v = session' /\ v \notin shown /\ shown' = shown \cup {v}
      /\ Poll(v, cell[v]) /\ UNCHANGED <<cell, retry, fill, expired, failures>>
  BY <1>1, ViewAssumption DEF IInv, TypeOK, Show, Views
<1>3. /\ loop' \in [Views -> [Loops -> LoopStates]] /\ polling' \in [Views -> BOOLEAN]
      /\ \A w \in Views : LoopsOK(w)' /\ OneLoop(w)'
      /\ Pending(cell[v]) # {} => polling'[v]
      /\ \A w \in Views : w # v => polling'[w] = polling[w]
  BY <1>2, PollKeeps
<1>4. TypeOK'
  BY <1>1, <1>2, <1>3, ViewAssumption DEF TypeOK, Show, Views
<1>5. \A w \in Views : RetryOK(w)' /\ Unseen(w)' /\ HasLoop(w)'
  BY <1>2, <1>3 DEF IInv, ViewInv, RetryOK, Unseen, HasLoop, Retrying, Pending
<1>. QED BY <1>3, <1>4, <1>5 DEF IInv, ViewInv

LEMMA LeaveKeeps == ASSUME IInv, Leave PROVE IInv'
<1>1. TypeOK' BY ViewAssumption DEF IInv, TypeOK, Leave
<1>2. session' \notin shown BY ViewAssumption DEF IInv, TypeOK, Leave
<1>3. \A w \in Views : LoopsOK(w)' /\ OneLoop(w)' /\ RetryOK(w)' /\ Unseen(w)' /\ HasLoop(w)'
  BY <1>2 DEF IInv, ViewInv, LoopsOK, OneLoop, RetryOK, Unseen, HasLoop, Retrying, Leave
<1>. QED BY <1>1, <1>3 DEF IInv, ViewInv

LEMMA RetryKeeps == ASSUME IInv, NEW v \in Views, Retry(v) PROVE IInv'
<1>1. /\ TypeOK /\ v \in shown /\ Retrying(v)'
      /\ UNCHANGED <<session, shown, cell, polling, loop, fill, expired, failures>>
      /\ retry' = [retry EXCEPT ![v] = [i \in Items |-> IF cell[v][i] = "error" THEN "sent" ELSE "no"]]
  BY DEF IInv, Retry, Retrying, TypeOK
<1>2. TypeOK' BY <1>1 DEF TypeOK
<1>3. \A w \in Views : w # v => retry'[w] = retry[w] BY <1>1 DEF TypeOK
<1>4. RetryOK(v)' BY <1>1 DEF RetryOK, TypeOK
<1>5. \A w \in Views : LoopsOK(w)' /\ OneLoop(w)' /\ RetryOK(w)' /\ Unseen(w)' /\ HasLoop(w)'
  BY <1>1, <1>3, <1>4 DEF IInv, ViewInv, LoopsOK, OneLoop, RetryOK, Unseen, HasLoop, Retrying
<1>. QED BY <1>2, <1>5 DEF IInv, ViewInv

LEMMA RefreshEndsKeeps ==
  ASSUME IInv, NEW v \in Views, NEW i \in Items, RefreshEnds(v, i) PROVE IInv'
<1>. DEFINE left == [retry EXCEPT ![v][i] = "no"]
            cells == [cell EXCEPT ![v][i] = "processing"]
<1>1. /\ TypeOK /\ retry[v][i] # "no" /\ retry' = left /\ cell' = cells
      /\ UNCHANGED <<session, shown, fill, expired, failures>>
  BY DEF IInv, RefreshEnds
<1>2. /\ cells \in [Views -> [Items -> Statuses]]
      /\ left \in [Views -> [Items -> {"no", "sent", "reached"}]]
      /\ \A w \in Views : w # v => cells[w] = cell[w] /\ left[w] = retry[w]
      /\ cells[v][i] = "processing" /\ left[v][i] = "no"
      /\ \A j \in Items : j # i => cells[v][j] = cell[v][j] /\ left[v][j] = retry[v][j]
  BY <1>1 DEF TypeOK, Statuses
<1>3. v \in shown BY <1>1 DEF IInv, ViewInv, Unseen, Retrying
<1>4. Pending(cell[v]) \subseteq Pending(cells[v]) BY <1>2 DEF Pending
<1>5. /\ IF v = session' /\ \A j \in Items : left[v][j] = "no"
         THEN Poll(v, cells[v]) ELSE UNCHANGED <<polling, loop>>
  BY DEF RefreshEnds, Left
<1>. HIDE DEF left, cells
<1>6. \A w \in Views : RetryOK(w)'
  BY <1>1, <1>2 DEF IInv, ViewInv, RetryOK
<1>7. CASE v = session' /\ \A j \in Items : left[v][j] = "no"
  <2>1. Poll(v, cells[v]) BY <1>5, <1>7
  <2>2. /\ loop' \in [Views -> [Loops -> LoopStates]] /\ polling' \in [Views -> BOOLEAN]
        /\ \A w \in Views : LoopsOK(w)' /\ OneLoop(w)'
        /\ Pending(cells[v]) # {} => polling'[v]
        /\ \A w \in Views : w # v => polling'[w] = polling[w]
    BY <1>1, <1>2, <1>4, <1>7, <2>1, PollKeeps
  <2>3. TypeOK' BY <1>1, <1>2, <2>2 DEF TypeOK
  <2>4. \A w \in Views : Unseen(w)' /\ HasLoop(w)'
    BY <1>1, <1>2, <1>3, <1>7, <2>2 DEF IInv, ViewInv, Unseen, HasLoop, Retrying
  <2>. QED BY <1>6, <2>2, <2>3, <2>4 DEF IInv, ViewInv
<1>8. CASE ~(v = session' /\ \A j \in Items : left[v][j] = "no")
  <2>1. UNCHANGED <<polling, loop>> BY <1>5, <1>8
  <2>2. TypeOK' BY <1>1, <1>2, <2>1 DEF TypeOK
  <2>3. \A w \in Views : OneLoop(w)' BY <2>1 DEF IInv, ViewInv, OneLoop
  <2>4. \A w \in Views : LoopsOK(w)'
    BY <1>1, <1>2, <1>4, <2>1 DEF IInv, ViewInv, LoopsOK, StateOK
  <2>5. Unseen(v)' /\ HasLoop(v)'
    <3>1. v = session' => Retrying(v)' BY <1>1, <1>8 DEF Retrying
    <3>. QED BY <1>1, <1>3, <3>1 DEF Unseen, HasLoop
  <2>6. \A w \in Views : w # v => Unseen(w)' /\ HasLoop(w)'
    BY <1>1, <1>2, <2>1, OthersKeep
  <2>. QED BY <1>6, <2>2, <2>3, <2>4, <2>5, <2>6 DEF IInv, ViewInv
<1>. QED BY <1>7, <1>8

\* The images a retry has the server fetch again are not being asked for.
LEMMA NotAsked ==
  ASSUME IInv, NEW v \in Views, NEW i \in Items, retry[v][i] # "no", NEW l \in Loops
  PROVE  loop[v][l].answer[i] = "none"
<1>1. StateOK(loop[v][l], cell[v]) /\ cell[v][i] = "error"
  BY DEF IInv, ViewInv, LoopsOK, RetryOK
<1>. QED BY <1>1 DEF StateOK, Pending

LEMMA RefreshReachesKeeps ==
  ASSUME IInv, NEW v \in Views, NEW i \in Items, RefreshReaches(v, i) PROVE IInv'
<1>1. /\ TypeOK /\ retry[v][i] = "sent" /\ retry' = [retry EXCEPT ![v][i] = "reached"]
      /\ fill' = [fill EXCEPT ![i] = "processing"]
      /\ UNCHANGED <<session, shown, cell, polling, expired, failures>>
  BY DEF IInv, RefreshReaches
<1>2. loop' = loop
  <2>1. \A l \in Loops : loop[v][l].answer[i] # "error" BY <1>1, NotAsked
  <2>2. loop' = [loop EXCEPT ![v] = [l \in Loops |-> loop[v][l]]]
    BY <2>1 DEF RefreshReaches
  <2>. QED BY <1>1, <2>2 DEF TypeOK
<1>3. TypeOK' BY <1>1, <1>2 DEF TypeOK, Statuses
<1>4. \A w \in Views, j \in Items : retry'[w][j] # "no" <=> retry[w][j] # "no"
  BY <1>1 DEF TypeOK
<1>5. \A w \in Views : LoopsOK(w)' /\ OneLoop(w)'
  BY <1>1, <1>2 DEF IInv, ViewInv, LoopsOK, OneLoop
<1>6. \A w \in Views : RetryOK(w)' /\ (Retrying(w)' <=> Retrying(w))
  BY <1>1, <1>4 DEF IInv, ViewInv, RetryOK, Retrying
<1>7. \A w \in Views : Unseen(w)' /\ HasLoop(w)'
  BY <1>1, <1>6 DEF IInv, ViewInv, Unseen, HasLoop
<1>. QED BY <1>3, <1>5, <1>6, <1>7 DEF IInv, ViewInv

LEMMA TellsKeeps ==
  ASSUME IInv, NEW v \in Views, NEW l \in Loops, NEW i \in Items, NEW status \in Statuses,
         i \in loop[v][l].batch, Tells(v, l, i, status),
         fill' \in [Items -> Statuses \cup {"none"}], expired' \in 0..Expiries,
         UNCHANGED <<session, shown, cell, polling, retry, failures>>
  PROVE  IInv'
<1>1. TypeOK /\ StateOK(loop[v][l], cell[v]) BY DEF IInv, ViewInv, LoopsOK
<1>2. PICK state : state = Told(loop[v][l], i, status) BY Zenon
<1>3. loop' = [loop EXCEPT ![v][l] = state] BY <1>1, <1>2 DEF Tells, TypeOK
<1>4. StateOK(state, cell[v]) /\ state.pc = loop[v][l].pc
  BY <1>1, <1>2 DEF StateOK, LoopStates, Statuses, Told
<1>5. /\ loop' \in [Views -> [Loops -> LoopStates]]
      /\ loop'[v][l] = state
      /\ \A w \in Views, m \in Loops : w # v \/ m # l => loop'[w][m] = loop[w][m]
  BY <1>1, <1>3, <1>4 DEF TypeOK, StateOK
<1>6. TypeOK' BY <1>1, <1>5 DEF TypeOK
<1>7. \A w \in Views, m \in Loops : StateOK(loop'[w][m], cell[w]) /\ loop'[w][m].pc = loop[w][m].pc
  BY <1>4, <1>5 DEF IInv, ViewInv, LoopsOK
<1>8. \A w \in Views : LoopsOK(w)' /\ OneLoop(w)'
  BY <1>7 DEF IInv, ViewInv, LoopsOK, OneLoop
<1>9. \A w \in Views : RetryOK(w)' /\ Unseen(w)' /\ HasLoop(w)'
  BY DEF IInv, ViewInv, RetryOK, Unseen, HasLoop, Retrying
<1>. QED BY <1>6, <1>8, <1>9 DEF IInv, ViewInv

LEMMA ReportsKeeps ==
  ASSUME IInv, NEW v \in Views, NEW l \in Loops, NEW i \in Items, Reports(v, l, i) PROVE IInv'
<1>1. /\ fill[i] \in Statuses /\ i \in loop[v][l].batch /\ Tells(v, l, i, fill[i])
      /\ fill' \in [Items -> Statuses \cup {"none"}] /\ expired' \in 0..Expiries
      /\ UNCHANGED <<session, shown, cell, polling, retry, failures>>
  BY DEF IInv, TypeOK, Reports
<1>. QED BY <1>1, TellsKeeps

LEMMA StartsKeeps ==
  ASSUME IInv, NEW v \in Views, NEW l \in Loops, NEW i \in Items, Starts(v, l, i) PROVE IInv'
<1>1. /\ "processing" \in Statuses /\ i \in loop[v][l].batch /\ Tells(v, l, i, "processing")
      /\ fill' \in [Items -> Statuses \cup {"none"}] /\ expired' \in 0..Expiries
      /\ UNCHANGED <<session, shown, cell, polling, retry, failures>>
  BY ViewAssumption DEF IInv, TypeOK, Starts, Statuses
<1>. QED BY <1>1, TellsKeeps

LEMMA FillEndsKeeps == ASSUME IInv, NEW i \in Items, FillEnds(i) PROVE IInv'
<1>1. TypeOK' BY DEF IInv, TypeOK, FillEnds, Statuses
<1>2. \A w \in Views : LoopsOK(w)' /\ OneLoop(w)' /\ RetryOK(w)' /\ Unseen(w)' /\ HasLoop(w)'
  BY DEF IInv, ViewInv, LoopsOK, OneLoop, RetryOK, Unseen, HasLoop, Retrying, FillEnds
<1>. QED BY <1>1, <1>2 DEF IInv, ViewInv

LEMMA StutterKeeps == ASSUME IInv, UNCHANGED vars PROVE IInv'
<1>1. TypeOK' BY DEF IInv, TypeOK, vars
<1>2. \A w \in Views : LoopsOK(w)' /\ OneLoop(w)' /\ RetryOK(w)' /\ Unseen(w)' /\ HasLoop(w)'
  BY DEF IInv, ViewInv, LoopsOK, OneLoop, RetryOK, Unseen, HasLoop, Retrying, vars
<1>. QED BY <1>1, <1>2 DEF IInv, ViewInv

LEMMA NextKeeps == IInv /\ [Next]_vars => IInv'
<1>. SUFFICES ASSUME IInv, [Next]_vars PROVE IInv'
  OBVIOUS
<1>1. CASE Show BY <1>1, ShowKeeps
<1>2. CASE Leave BY <1>2, LeaveKeeps
<1>3. CASE \E v \in Views : Retry(v) BY <1>3, RetryKeeps
<1>4. CASE \E v \in Views, i \in Items : RefreshReaches(v, i) BY <1>4, RefreshReachesKeeps
<1>5. CASE \E v \in Views, i \in Items : RefreshEnds(v, i) BY <1>5, RefreshEndsKeeps
<1>6. CASE \E v \in Views, l \in Loops : LoopStep(v, l)
  BY <1>6, LandsKeeps, FailsKeeps, WakesKeeps, ReportsKeeps, StartsKeeps DEF LoopStep
<1>7. CASE \E i \in Items : FillEnds(i) BY <1>7, FillEndsKeeps
<1>8. CASE UNCHANGED vars BY <1>8, StutterKeeps
<1>. QED BY <1>1, <1>2, <1>3, <1>4, <1>5, <1>6, <1>7, <1>8 DEF Next

LEMMA Invariance == Spec => []IInv
BY InitInv, NextKeeps, PTL DEF Spec

-----------------------------------------------------------------------------
\* Type correctness of the download page: counts stay in their bounds, a view
\* that was never rendered has no state (renderDownloadView(), script.js).
THEOREM ViewTypeCorrect == Spec => []TypeOK
<1>1. IInv => TypeOK BY DEF IInv
<1>. QED BY <1>1, Invariance, PTL

\* A view never runs two loops, and an unfinished image of the page shown has a
\* loop or a retry that will start one: poll()'s flag, pollLoop()'s exits and
\* the end of the retry handler fit together.
THEOREM NoImageForgotten == Spec => []PendingHasLoop
<1>1. IInv => PendingHasLoop
  <2>. SUFFICES ASSUME IInv, NEW v \in Views
       PROVE /\ Cardinality(Running(v)) = (IF polling[v] THEN 1 ELSE 0)
             /\ v = session /\ v \in shown /\ Pending(cell[v]) # {} => polling[v] \/ Retrying(v)
    BY DEF PendingHasLoop
  <2>1. OneLoop(v) /\ HasLoop(v) BY DEF IInv, ViewInv
  <2>2. CASE polling[v]
    <3>1. PICK l \in Loops : loop[v][l].pc # "off" BY <2>1, <2>2 DEF OneLoop
    <3>2. Running(v) = {l} BY <2>1, <3>1 DEF OneLoop, Running
    <3>. QED BY <2>1, <2>2, <3>2, FS_Singleton DEF HasLoop
  <2>3. CASE ~polling[v]
    <3>1. Running(v) = {} BY <2>1, <2>3 DEF OneLoop, Running
    <3>. QED BY <2>1, <2>3, <3>1, FS_EmptySet DEF HasLoop
  <2>. QED BY <2>2, <2>3
<1>. QED BY <1>1, Invariance, PTL

\* No answer on its way to a view tells an error from before the view's own retry:
\* what is retried is finished, what is asked for is not, and one loop only asks.
THEOREM RetriesAreFresh == Spec => []FreshAfterRetry
<1>1. IInv => FreshAfterRetry
  BY DEF IInv, ViewInv, LoopsOK, StateOK, FreshAfterRetry
<1>. QED BY <1>1, Invariance, PTL

\* A view that was left sends no further status request: not after an answer or
\* a failure, not when it wakes, and not when its retry ends.
THEOREM LeftViewsAreQuiet == Spec => LeftViewsStop
<1>. DEFINE Quiet == \A v \in Views, l \in Loops :
              v # session' /\ loop'[v][l].batch # loop[v][l].batch => loop'[v][l].batch = {}
<1>1. ASSUME TypeOK, Next PROVE Quiet
  <2>. USE DEF TypeOK
  <2>0. ASSUME NEW v \in Views, NEW l \in Loops, NEW state, Goes(v, l, state),
               v = session' \/ state.batch = {}
        PROVE  Quiet
    BY <2>0 DEF Goes
  <2>1. CASE Show
    <3>1. PICK v : v = session' BY Zenon
    <3>2. Poll(v, cell[v]) BY <2>1, <3>1, Zenon DEF Show
    <3>3. CASE UNCHANGED loop BY <3>3
    <3>4. ASSUME NEW l, Goes(v, l, Pass(v, cell[v])) PROVE Quiet
      BY <3>1, <3>4 DEF Goes
    <3>. QED BY <3>2, <3>3, <3>4 DEF Poll
  <2>2. CASE Leave \/ \E v \in Views : Retry(v) BY <2>2 DEF Leave, Retry
  <2>3. ASSUME NEW v \in Views, NEW i \in Items, RefreshEnds(v, i) PROVE Quiet
    <3>1. CASE UNCHANGED loop BY <3>1
    <3>2. ASSUME NEW l, NEW state, v = session', Goes(v, l, state) PROVE Quiet
      BY <3>2 DEF Goes
    <3>. QED BY <2>3, <3>1, <3>2 DEF RefreshEnds, Poll, Left
  <2>4. ASSUME NEW v \in Views, NEW i \in Items, RefreshReaches(v, i) PROVE Quiet
    BY <2>4 DEF RefreshReaches, Told
  <2>5. ASSUME NEW v \in Views, NEW l \in Loops, LoopStep(v, l) PROVE Quiet
    <3>1. CASE Wakes(v, l) BY <2>0, <3>1, PassOK DEF Wakes, Left
    <3>2. CASE Fails(v, l)
      <4>1. Left(v) => AfterBatch(v, loop[v][l].rest, cell[v]).batch = {}
        BY IdleOK DEF AfterBatch
      <4>. QED BY <2>0, <3>2, <4>1 DEF Fails, Left
    <3>3. CASE Lands(v, l)
      <4>1. CASE Left(v) BY <2>0, <3>3, <4>1, IdleOK DEF Lands
      <4>2. CASE ~Left(v)
        <5>1. ASSUME NEW state, Goes(v, l, state) PROVE Quiet BY <2>0, <4>2, <5>1 DEF Left
        <5>. QED BY <3>3, <4>2, <5>1 DEF Lands
      <4>. QED BY <4>1, <4>2
    <3>4. ASSUME NEW i \in Items, NEW status, Tells(v, l, i, status) PROVE Quiet
      BY <3>4 DEF Tells, Told
    <3>. QED BY <2>5, <3>1, <3>2, <3>3, <3>4 DEF LoopStep, Reports, Starts
  <2>6. CASE \E i \in Items : FillEnds(i) BY <2>6 DEF FillEnds
  <2>. QED BY <1>1, <2>1, <2>2, <2>3, <2>4, <2>5, <2>6 DEF Next
<1>2. TypeOK /\ [Next]_vars => [Quiet]_vars BY <1>1
<1>. QED BY <1>2, ViewTypeCorrect, PTL DEF Spec, LeftViewsStop
=============================================================================
