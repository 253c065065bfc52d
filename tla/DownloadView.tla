---------------------------- MODULE DownloadView ----------------------------
(***************************************************************************)
(* The download page: every rendering is a view with its own loop, which   *)
(* asks the server for the state of the unfinished images, batch after     *)
(* batch, and sleeps between passes, and its own retry button, which has   *)
(* the server fetch failed images again. A view whose list was replaced    *)
(* lives on until its loop and its retry have come to their ends.          *)
(*                                                                         *)
(* What runs between two awaits is one step. In particular a loop that     *)
(* ends and the finally that resets polling are one: only microtasks of    *)
(* the loop itself lie between, no answer and no click.                    *)
(***************************************************************************)
EXTENDS Naturals, FiniteSets

CONSTANTS
  N,         \* images of a list
  BatchSize, \* DOWNLOAD_BATCH_SIZE
  Sessions,  \* bound: how many lists are rendered
  Loops,     \* loops a view might run at once, more than the one it should
  Expiries,  \* bound: cached errors that expire
  Failures   \* bound: status requests that fail

Items == 1..N
Views == 1..Sessions

ASSUME ViewAssumption ==
  /\ N \in Nat \ {0} /\ BatchSize \in Nat \ {0}
  /\ Sessions \in Nat /\ Expiries \in Nat /\ Failures \in Nat
  /\ Loops # {} /\ IsFiniteSet(Loops)

VARIABLES
  session,  \* downloadSession
  shown,    \* the sessions that are download views
  cell,     \* each view's images: dataset.status; done unless "processing"
  polling,  \* each view's flag
  loop,     \* each view's loops
  retry,    \* each view's /refresh requests
  fill,     \* each image at the server
  expired,  \* history: errors that have expired
  failures  \* history: requests that have failed

vars == <<session, shown, cell, polling, loop, retry, fill, expired, failures>>

Statuses == {"processing", "ready", "error"}

\* A loop: awaiting a status request for batch, with rest to come in this pass,
\* or asleep. An error in the answer becomes outdated (history) when the view's
\* own retry of the image reaches the server before the answer is back.
Unanswered == [i \in Items |-> "none"]
LoopStates ==
  [pc : {"off", "asking", "sleeping"}, batch : SUBSET Items, rest : SUBSET Items,
   answer : [Items -> Statuses \cup {"none", "outdated"}]]
Off == [pc |-> "off", batch |-> {}, rest |-> {}, answer |-> Unanswered]
Sleeping == [Off EXCEPT !.pc = "sleeping"]

TypeOK ==
  /\ session \in 0..Sessions
  /\ shown \subseteq 1..session
  /\ cell \in [Views -> [Items -> Statuses]]
  /\ polling \in [Views -> BOOLEAN]
  /\ loop \in [Views -> [Loops -> LoopStates]]
  /\ retry \in [Views -> [Items -> {"no", "sent", "reached"}]]
  /\ fill \in [Items -> Statuses \cup {"none"}]
  /\ expired \in 0..Expiries
  /\ failures \in 0..Failures

-----------------------------------------------------------------------------
(***************************************************************************)
(* poll() and pollLoop()                                                   *)
(***************************************************************************)
\* Mutant of Pending: a pass asks for every image.
PendingAll(cells) == Items

Pending(cells) == {i \in Items : cells[i] = "processing"}

FirstOf(S) == {i \in S : Cardinality({j \in S : j < i}) < BatchSize}

Asking(S) ==
  [pc |-> "asking", batch |-> FirstOf(S), rest |-> S \ FirstOf(S), answer |-> Unanswered]

\* Mutant of Left: nobody looks whether the page is still there.
LeftNever(v) == FALSE

Left(v) == v # session'

\* The top of the loop of a view.
Pass(v, cells) == IF Left(v) \/ Pending(cells) = {} THEN Off ELSE Asking(Pending(cells))

\* Mutant of Finished: one finished image is enough.
FinishedOne(cells) == \E i \in Items : cells[i] # "processing"

Finished(cells) == \A i \in Items : cells[i] # "processing"

\* After a batch, whether answered or not.
AfterBatch(v, rest, cells) ==
  IF rest # {} THEN IF Left(v) THEN Off ELSE Asking(rest)
  ELSE IF Finished(cells) THEN Off ELSE Sleeping

\* A loop moves on or ends, and with it polling.
Goes(v, l, state) ==
  /\ loop' = [loop EXCEPT ![v][l] = state]
  /\ polling' = [polling EXCEPT ![v] = state.pc # "off"]

\* Mutant of MayPoll: poll() starts a loop in any case.
MayPollAlways(v) == \E l \in Loops : loop[v][l].pc = "off"

MayPoll(v) == ~polling[v]

Poll(v, cells) ==
  IF MayPoll(v)
  THEN LET free == {l \in Loops : loop[v][l].pc = "off"}
       IN  Goes(v, CHOOSE l \in free : TRUE, Pass(v, cells))
  ELSE UNCHANGED <<polling, loop>>

\* A status request is answered.
Lands(v, l) ==
  LET now == loop[v][l]
      told == [i \in Items |-> IF i \notin now.batch THEN cell[v][i]
                               ELSE IF now.answer[i] = "outdated" THEN "error" ELSE now.answer[i]]
  IN  /\ now.pc = "asking"
      /\ \A i \in now.batch : now.answer[i] # "none"
      /\ UNCHANGED session
      /\ IF Left(v)
         THEN Goes(v, l, Off) /\ UNCHANGED cell
         ELSE Goes(v, l, AfterBatch(v, now.rest, told)) /\ cell' = [cell EXCEPT ![v] = told]
      /\ UNCHANGED <<shown, retry, fill, expired, failures>>

\* It fails, or its answer is lost.
Fails(v, l) ==
  /\ loop[v][l].pc = "asking"
  /\ failures < Failures
  /\ failures' = failures + 1
  /\ UNCHANGED session
  /\ Goes(v, l, AfterBatch(v, loop[v][l].rest, cell[v]))
  /\ UNCHANGED <<shown, cell, retry, fill, expired>>

Wakes(v, l) ==
  /\ loop[v][l].pc = "sleeping"
  /\ UNCHANGED session
  /\ Goes(v, l, Pass(v, cell[v]))
  /\ UNCHANGED <<shown, cell, retry, fill, expired, failures>>

-----------------------------------------------------------------------------
(***************************************************************************)
(* The user.                                                               *)
(***************************************************************************)
\* renderDownloadView()
Show ==
  /\ session < Sessions
  /\ session' = session + 1
  /\ shown' = shown \cup {session'}
  /\ Poll(session', cell[session'])
  /\ UNCHANGED <<cell, retry, fill, expired, failures>>

\* clearList() by another list.
Leave ==
  /\ session < Sessions
  /\ session' = session + 1
  /\ UNCHANGED <<shown, cell, polling, loop, retry, fill, expired, failures>>

Retrying(v) == \E i \in Items : retry[v][i] # "no"

\* The click; the button is there, and enabled, only then.
Retry(v) ==
  /\ v = session /\ v \in shown
  /\ ~Retrying(v)
  /\ \E i \in Items : cell[v][i] = "error"
  /\ retry' = [retry EXCEPT ![v] = [i \in Items |-> IF cell[v][i] = "error" THEN "sent" ELSE "no"]]
  /\ UNCHANGED <<session, shown, cell, polling, loop, fill, expired, failures>>

\* Image i's fetch() of /refresh is settled, whether the request has reached the
\* server or not; after the last of them the button is enabled and poll() called.
RefreshEnds(v, i) ==
  LET left == [retry EXCEPT ![v][i] = "no"]
      cells == [cell EXCEPT ![v][i] = "processing"]
  IN  /\ retry[v][i] # "no"
      /\ retry' = left /\ cell' = cells
      /\ UNCHANGED session
      /\ IF ~Left(v) /\ \A j \in Items : left[v][j] = "no"
         THEN Poll(v, cells[v])
         ELSE UNCHANGED <<polling, loop>>
      /\ UNCHANGED <<shown, fill, expired, failures>>

-----------------------------------------------------------------------------
(***************************************************************************)
(* The server; CacheFill has its details.                                  *)
(***************************************************************************)
\* The answer of a status request about image i.
Told(state, i, status) ==
  [state EXCEPT !.answer = [j \in Items |-> IF j = i THEN status ELSE state.answer[j]]]

\* /refresh starts the fill anew.
RefreshReaches(v, i) ==
  /\ retry[v][i] = "sent"
  /\ retry' = [retry EXCEPT ![v][i] = "reached"]
  /\ fill' = [fill EXCEPT ![i] = "processing"]
  /\ loop' = [loop EXCEPT ![v] = [l \in Loops |->
       IF loop[v][l].answer[i] = "error" THEN Told(loop[v][l], i, "outdated")
       ELSE loop[v][l]]]
  /\ UNCHANGED <<session, shown, cell, polling, expired, failures>>

Tells(v, l, i, status) == loop' = [loop EXCEPT ![v][l] = Told(loop[v][l], i, status)]

\* /api/cache-status comes to image i: it reports what there is, ...
Reports(v, l, i) ==
  /\ i \in loop[v][l].batch /\ loop[v][l].answer[i] = "none"
  /\ fill[i] # "none"
  /\ Tells(v, l, i, fill[i])
  /\ UNCHANGED <<session, shown, cell, polling, retry, fill, expired, failures>>

\* ... or starts a fill, if there is nothing or an error that has expired.
Starts(v, l, i) ==
  /\ i \in loop[v][l].batch /\ loop[v][l].answer[i] = "none"
  /\ \/ fill[i] = "none" /\ UNCHANGED expired
     \/ fill[i] = "error" /\ expired < Expiries /\ expired' = expired + 1
  /\ fill' = [fill EXCEPT ![i] = "processing"]
  /\ Tells(v, l, i, "processing")
  /\ UNCHANGED <<session, shown, cell, polling, retry, failures>>

FillEnds(i) ==
  /\ fill[i] = "processing"
  /\ \E status \in {"ready", "error"} : fill' = [fill EXCEPT ![i] = status]
  /\ UNCHANGED <<session, shown, cell, polling, loop, retry, expired, failures>>

-----------------------------------------------------------------------------
Init ==
  /\ session = 0 /\ shown = {} /\ expired = 0 /\ failures = 0
  /\ cell = [v \in Views |-> [i \in Items |-> "processing"]]
  /\ polling = [v \in Views |-> FALSE]
  /\ loop = [v \in Views |-> [l \in Loops |-> Off]]
  /\ retry = [v \in Views |-> [i \in Items |-> "no"]]
  /\ fill = [i \in Items |-> "none"]

LoopStep(v, l) ==
  \/ Lands(v, l)
  \/ Fails(v, l)
  \/ Wakes(v, l)
  \/ \E i \in Items : Reports(v, l, i) \/ Starts(v, l, i)

Next ==
  \/ Show
  \/ Leave
  \/ \E v \in Views :
       \/ Retry(v)
       \/ \E i \in Items : RefreshReaches(v, i) \/ RefreshEnds(v, i)
       \/ \E l \in Loops : LoopStep(v, l)
  \/ \E i \in Items : FillEnds(i)

Spec == Init /\ [][Next]_vars

\* Timers and fetches that are settled one way or the other resume their
\* functions; the server comes to every image of a request and ends its fills.
Fairness ==
  /\ \A v \in Views, l \in Loops :
       /\ WF_vars(Lands(v, l))
       /\ WF_vars(Wakes(v, l))
       /\ \A i \in Items : WF_vars(Reports(v, l, i) \/ Starts(v, l, i))
  /\ \A v \in Views, i \in Items : WF_vars(RefreshEnds(v, i))
  /\ \A i \in Items : WF_vars(FillEnds(i))

FairSpec == Spec /\ Fairness

-----------------------------------------------------------------------------
Running(v) == {l \in Loops : loop[v][l].pc # "off"}

\* A view never runs two loops, and an unfinished image of the page that is
\* shown always has one that will ask for it, or will have when the retry under
\* way calls poll(): no image is forgotten between the end of a loop and a retry.
PendingHasLoop ==
  \A v \in Views :
    /\ Cardinality(Running(v)) = (IF polling[v] THEN 1 ELSE 0)
    /\ v = session /\ v \in shown /\ Pending(cell[v]) # {} => polling[v] \/ Retrying(v)

\* No answer on its way to a view tells an error from before that view's own
\* retry of the image: a retried image does not fall back to the error it had.
FreshAfterRetry ==
  \A v \in Views, l \in Loops, i \in Items : loop[v][l].answer[i] # "outdated"

\* A view that was left, with a request under way, asleep or in a retry, sends
\* no status request any more, so that it starts no fills nobody waits for.
LeftViewsStop ==
  [][\A v \in Views, l \in Loops :
       v # session' /\ loop'[v][l].batch # loop[v][l].batch => loop'[v][l].batch = {}]_vars

\* Every unfinished image of the page shown gets its result, or the page is left.
ItemEnds ==
  \A v \in Views, i \in Items :
    v = session /\ v \in shown /\ cell[v][i] = "processing"
      ~> v # session \/ cell[v][i] # "processing"
=============================================================================
