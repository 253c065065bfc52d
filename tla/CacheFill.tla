----------------------------- MODULE CacheFill -----------------------------
(***************************************************************************)
(* How an image gets into the cache and out of it: the HTTP handlers       *)
(* (/cached, /api/cache-status, /refresh), the cache manager's entries and *)
(* index loads, the download manager's fills, and the storage objects they *)
(* leave behind a crash.                                                   *)
(*                                                                         *)
(* A visit is one handler's passage for one URL: a client's /cached        *)
(* request, or one of the workers that share the URLs of a status batch.   *)
(* The program is one event loop: the continuations of promises that are   *)
(* already settled (resumed visits, downloads refused at once) run before  *)
(* any other event, in an order left open. What the storage does to an     *)
(* object is not bound by that.                                            *)
(***************************************************************************)
EXTENDS Naturals, Sequences, FiniteSets

CONSTANTS
  Urls,         \* cache keys, each with one source and one processed object
  Clients,      \* concurrent /cached requests
  Workers,      \* the workers of one /api/cache-status batch (32 in the code)
  Batches,      \* the URL lists a batch may carry
  Fills,        \* bound: downloads that may run at a time
  Retries,      \* ORIGIN_RETRIES
  Formats,      \* what origins send: TRUE for a PNG, which is converted
  AtomicWrites, \* an object changes at once (S3); FALSE: file system
  LateWrites,   \* a write given up (timeout, crash) may still take effect later
  Redirects,    \* getRedirectUrl() may offer the storage's own URL
  Refreshes,    \* users call /refresh
  AgingErrors,  \* ERROR_RETRY_MS > 0
  ReadErrors,   \* reading a stored object may fail although it is there
  Losable,      \* kinds of object that may vanish from the storage
  Crashes,      \* the process may die and start again
  None, Torn, Whole

Kinds == {"source", "processed", "index"}
Names == {"source", "processed"}
Phases == {"queued", "downloading", "transforming", "uploading", "indexing"}
Visitors == Clients \cup Workers

ASSUME FillAssumption ==
  /\ IsFiniteSet(Workers)
  /\ Clients \cap Workers = {}
  /\ Batches \subseteq Seq(Urls)
  /\ Retries \in Nat
  /\ Formats \subseteq BOOLEAN
  /\ {AtomicWrites, LateWrites, Redirects, Refreshes, AgingErrors, ReadErrors, Crashes} \subseteq BOOLEAN
  /\ Losable \subseteq Names
  /\ None \notin Urls \cup Kinds \cup {Torn, Whole}
  /\ Torn # Whole /\ {Torn, Whole} \cap Names = {}

VARIABLES
  cache,   \* CacheManager.cache
  pending, \* pendingLoads: index reads under way, and what they have read
  visit,   \* where each client or worker stands in its handler
  todo,    \* the URLs of the batch no worker has taken yet
  fill,    \* where each downloadAndProcess() of startDownload() stands
  stored,  \* the objects of each URL: absent, torn, whole; what an index names
  late,    \* writes the storage still holds though nobody waits for them
  said     \* history: the answer given by the last step, if it gave one

vars == <<cache, pending, visit, todo, fill, stored, late, said>>

Blank == [status |-> "none", phase |-> "queued", names |-> None, old |-> FALSE]
Processing(phase) == [Blank EXCEPT !.status = "processing", !.phase = phase]
Ready(name) == [Blank EXCEPT !.status = "ready", !.names = name]
Failed == [Blank EXCEPT !.status = "error"]
Stale == [Failed EXCEPT !.old = TRUE]
Entries == {Blank, Failed, Stale} \cup {Processing(p) : p \in Phases} \cup {Ready(n) : n \in Names}

Away == [pc |-> "idle", url |-> None, entry |-> Blank]
At(pc, url) == [pc |-> pc, url |-> url, attempt |-> 1, png |-> FALSE, write |-> "sent"]
Unused == At("idle", None)
Silence == [what |-> "nothing", url |-> None, names |-> None]
Say(what, url, name) == [what |-> what, url |-> url, names |-> name]

VisitStates == [pc : {"idle", "load", "resumed", "redirect", "read"},
                url : Urls \cup {None}, entry : Entries]
FillStates == [pc : {"idle", "refused", "acquire", "fetch", "body", "backoff", "transform"} \cup Kinds,
               url : Urls \cup {None}, attempt : 1..(Retries + 1), png : BOOLEAN,
               write : {"sent", "begun", "mixed", "landed"}]
Answers == [what : {"nothing", "processing", "error", "ready", "bytes", "redirect"},
            url : Urls \cup {None}, names : Names \cup {None}]

\* The type invariant: who is under way has a URL, who serves has an object.
TypeOK ==
  /\ cache \in [Urls -> Entries]
  /\ pending \in [Urls -> {"idle", "asked", "missed"} \cup Names]
  /\ visit \in [Visitors -> VisitStates]
  /\ todo \in Seq(Urls)
  /\ fill \in [Fills -> FillStates]
  /\ stored \in [Urls -> [Kinds -> {None, Torn, Whole} \cup Names]]
  /\ late \subseteq [url : Urls, kind : Kinds, object : {Whole} \cup Names]
  /\ said \in Answers
  /\ \A v \in Visitors :
       /\ visit[v].pc # "idle" => visit[v].url \in Urls
       /\ visit[v].pc \in {"redirect", "read"} => visit[v].entry.status = "ready"
  /\ \A f \in Fills : fill[f].pc # "idle" => fill[f].url \in Urls

-----------------------------------------------------------------------------
NoContinuation ==
  /\ \A v \in Visitors : visit[v].pc # "resumed"
  /\ \A f \in Fills : fill[f].pc # "refused"

Filling(u) == {f \in Fills : fill[f].pc # "idle" /\ fill[f].url = u}
Free == {f \in Fills : fill[f].pc = "idle"}

\* Bound: a visit enters only if a fill is left for each that may start one.
RoomFor(n) ==
  Cardinality(Free) >= n + Len(todo) + Cardinality({v \in Visitors : visit[v].pc # "idle"})

(***************************************************************************)
(* The cache manager's lookup and the two ways out of a handler.           *)
(***************************************************************************)
\* get(): a cached entry settles at once, otherwise the visit joins the load.
Looking(c, u) ==
  [pc |-> IF c[u].status = "none" THEN "load" ELSE "resumed", url |-> u, entry |-> c[u]]

Asked(c, u) ==
  IF c[u].status = "none" /\ pending[u] = "idle" THEN [pending EXCEPT ![u] = "asked"] ELSE pending

\* The handler answers; a worker goes on with the next URL of its batch.
Finish(v, c, answer) ==
  /\ cache' = c
  /\ said' = answer
  /\ IF v \in Workers /\ todo # <<>>
       THEN /\ visit' = [visit EXCEPT ![v] = Looking(c, Head(todo))]
            /\ pending' = Asked(c, Head(todo))
            /\ todo' = Tail(todo)
       ELSE /\ visit' = [visit EXCEPT ![v] = Away]
            /\ UNCHANGED <<pending, todo>>

\* startDownload(): the entry becomes processing, whatever it was.
Started(u) == [cache EXCEPT ![u] = Processing("queued")]

\* downloadAndProcess() waits for a slot, or is refused without any event in
\* between: acquire() rejects at once when no route is active.
Launch(f, u) == \E pc \in {"acquire", "refused"} : fill' = [fill EXCEPT ![f] = At(pc, u)]

(***************************************************************************)
(* Requests.                                                               *)
(***************************************************************************)
Visit(v, u) ==
  /\ NoContinuation
  /\ visit[v].pc = "idle"
  /\ RoomFor(1)
  /\ visit' = [visit EXCEPT ![v] = Looking(cache, u)]
  /\ pending' = Asked(cache, u)
  /\ said' = Silence
  /\ UNCHANGED <<cache, todo, fill, stored, late>>

\* A batch arrives: its workers all look up their first URL before any resumes.
Batch(urls) ==
  /\ NoContinuation
  /\ todo = <<>>
  /\ \A w \in Workers : visit[w].pc = "idle"
  /\ RoomFor(Len(urls))
  /\ \E first \in [Workers -> 1..Cardinality(Workers)] :
       LET Takes(w) == first[w] <= Len(urls)
           taken == {urls[first[w]] : w \in {x \in Workers : Takes(x)}}
           n == Cardinality({w \in Workers : Takes(w)})
       IN  /\ \A w, x \in Workers : first[w] = first[x] => w = x
           /\ visit' = [v \in Visitors |->
                          IF v \in Workers /\ Takes(v) THEN Looking(cache, urls[first[v]]) ELSE visit[v]]
           /\ pending' = [u \in Urls |-> IF u \in taken THEN Asked(cache, u)[u] ELSE pending[u]]
           /\ todo' = SubSeq(urls, n + 1, Len(urls))
  /\ said' = Silence
  /\ UNCHANGED <<cache, fill, stored, late>>

Refresh(u) ==
  /\ Refreshes
  /\ NoContinuation
  /\ RoomFor(1)
  /\ \E f \in Free : Launch(f, u)
  /\ cache' = Started(u)
  /\ said' = Say("processing", u, None)
  /\ UNCHANGED <<pending, visit, todo, stored, late>>

\* The storage reads the index object for a load; a torn one does not parse.
LoadReads(u) ==
  /\ pending[u] = "asked"
  /\ \E found \in {stored[u]["index"]} \cup (IF ReadErrors THEN {None} ELSE {}) :
       pending' = [pending EXCEPT ![u] = IF found \in Names THEN found ELSE "missed"]
  /\ said' = Silence
  /\ UNCHANGED <<cache, visit, todo, fill, stored, late>>

\* Mutant of Joined: the shared promise of a load resumes a single visit.
JoinedOnce(u) ==
  LET all == {v \in Visitors : visit[v].pc = "load" /\ visit[v].url = u}
  IN  IF all = {} THEN {} ELSE {CHOOSE v \in all : TRUE}

Joined(u) == {v \in Visitors : visit[v].pc = "load" /\ visit[v].url = u}

\* The load is over: what it found enters the cache, over whatever is there.
LoadLands(u) ==
  /\ NoContinuation
  /\ pending[u] \in Names \cup {"missed"}
  /\ LET entry == IF pending[u] \in Names THEN Ready(pending[u]) ELSE Blank
     IN  /\ cache' = IF entry = Blank THEN cache ELSE [cache EXCEPT ![u] = entry]
         /\ visit' = [v \in Visitors |->
                        IF v \in Joined(u) THEN [visit[v] EXCEPT !.pc = "resumed", !.entry = entry]
                        ELSE visit[v]]
  /\ pending' = [pending EXCEPT ![u] = "idle"]
  /\ said' = Silence
  /\ UNCHANGED <<todo, fill, stored, late>>

(***************************************************************************)
(* The handlers after their lookup. They decide on the entry the lookup    *)
(* returned; only an absent one is looked up again.                        *)
(***************************************************************************)
\* Mutant of Found: what the load returned, not looked up again.
FoundByLoad(v) == visit[v].entry

Found(v) ==
  IF visit[v].entry.status = "none" THEN cache[visit[v].url] ELSE visit[v].entry

ServeReady(v) ==
  /\ v \in Clients
  /\ visit[v].pc = "resumed"
  /\ Found(v).status = "ready"
  /\ visit' = [visit EXCEPT ![v] = [@ EXCEPT !.pc = IF Redirects THEN "redirect" ELSE "read", !.entry = Found(v)]]
  /\ said' = Silence
  /\ UNCHANGED <<cache, pending, todo, fill, stored, late>>

ReportReady(v) ==
  /\ v \in Workers
  /\ visit[v].pc = "resumed"
  /\ Found(v).status = "ready"
  /\ Finish(v, cache, Say("ready", visit[v].url, None))
  /\ UNCHANGED <<fill, stored, late>>

ReportRunning(v) ==
  /\ visit[v].pc = "resumed"
  /\ Found(v).status = "processing"
  /\ Finish(v, cache, Say("processing", visit[v].url, None))
  /\ UNCHANGED <<fill, stored, late>>

ReportError(v) ==
  /\ visit[v].pc = "resumed"
  /\ Found(v) = Failed
  /\ Finish(v, cache, Say("error", visit[v].url, None))
  /\ UNCHANGED <<fill, stored, late>>

\* ensureFill(): nothing is cached, or an error that has aged.
StartFill(v) ==
  /\ visit[v].pc = "resumed"
  /\ Found(v) \in {Blank, Stale}
  /\ \E f \in Free : Launch(f, visit[v].url)
  /\ Finish(v, Started(visit[v].url), Say("processing", visit[v].url, None))
  /\ UNCHANGED <<stored, late>>

\* getRedirectUrl() settles: with a URL of the storage, or not.
OfferRedirect(v) ==
  /\ NoContinuation
  /\ visit[v].pc = "redirect"
  /\ Finish(v, cache, Say("redirect", visit[v].url, visit[v].entry.names))
  /\ UNCHANGED <<fill, stored, late>>

NoRedirect(v) ==
  /\ NoContinuation
  /\ visit[v].pc = "redirect"
  /\ visit' = [visit EXCEPT ![v].pc = "read"]
  /\ said' = Silence
  /\ UNCHANGED <<cache, pending, todo, fill, stored, late>>

Stream(v) ==
  /\ NoContinuation
  /\ visit[v].pc = "read"
  /\ stored[visit[v].url][visit[v].entry.names] # None
  /\ Finish(v, cache, Say("bytes", visit[v].url, visit[v].entry.names))
  /\ UNCHANGED <<fill, stored, late>>

\* Mutant of Refetch: an object that cannot be read is left to the next visit.
RefetchNothing(v) ==
  /\ UNCHANGED fill
  /\ Finish(v, cache, Say("processing", visit[v].url, None))

Refetch(v) ==
  /\ \E f \in Free : Launch(f, visit[v].url)
  /\ Finish(v, Started(visit[v].url), Say("processing", visit[v].url, None))

ReadFails(v) ==
  /\ NoContinuation
  /\ visit[v].pc = "read"
  /\ stored[visit[v].url][visit[v].entry.names] = None \/ ReadErrors
  /\ Refetch(v)
  /\ UNCHANGED <<stored, late>>

(***************************************************************************)
(* The download manager's fill: a slot, the origin's answer, its body, the *)
(* source object, for a PNG the converted object, and the index entry.     *)
(***************************************************************************)
\* updateProgress(): only an entry that is processing shows progress.
Progress(f, phase) ==
  IF cache[fill[f].url].status = "processing"
    THEN [cache EXCEPT ![fill[f].url] = Processing(phase)]
    ELSE cache

\* Mutant of Indexing: setReady() changes the entry before it writes the index.
IndexingLate(f) == [cache EXCEPT ![fill[f].url] = Ready(IF fill[f].png THEN "processed" ELSE "source")]

Indexing(f) == Progress(f, "indexing")

Moves(f, pc, c) ==
  /\ NoContinuation
  /\ fill' = [fill EXCEPT ![f] = [@ EXCEPT !.pc = pc, !.write = "sent"]]
  /\ cache' = c
  /\ said' = Silence
  /\ UNCHANGED <<pending, visit, todo, stored, late>>

GetSlot(f) == fill[f].pc = "acquire" /\ Moves(f, "fetch", cache)

Respond(f) == fill[f].pc = "fetch" /\ Moves(f, "body", Progress(f, "downloading"))

\* Mutant of Counted: a retry that does not count.
CountedNever(f) == fill[f].attempt

Counted(f) == fill[f].attempt + 1

\* Mutant of MayRetry: one attempt too many.
MayRetryOnceMore(f) == fill[f].attempt <= Retries + 1

MayRetry(f) == fill[f].attempt <= Retries

\* A transient network error; the slot is back and the fill sleeps without it.
Retry(f) ==
  /\ NoContinuation
  /\ fill[f].pc \in {"fetch", "body"}
  /\ MayRetry(f)
  /\ fill' = [fill EXCEPT ![f] = [@ EXCEPT !.pc = "backoff", !.attempt = Counted(f)]]
  /\ cache' = Progress(f, "queued")
  /\ said' = Silence
  /\ UNCHANGED <<pending, visit, todo, stored, late>>

BackoffEnds(f) == fill[f].pc = "backoff" /\ Moves(f, "acquire", cache)

\* The body is complete; its type says whether it will be converted.
BodyEnds(f) ==
  /\ NoContinuation
  /\ fill[f].pc = "body"
  /\ \E png \in Formats : fill' = [fill EXCEPT ![f] = [@ EXCEPT !.pc = "source", !.png = png]]
  /\ cache' = Progress(f, "uploading")
  /\ said' = Silence
  /\ UNCHANGED <<pending, visit, todo, stored, late>>

\* The fills that are writing the object f is about to write.
Rivals(f) ==
  {g \in Fills : fill[g].url = fill[f].url /\ fill[g].pc = fill[f].pc
                   /\ fill[g].write \in {"begun", "mixed"}}

\* writeFile() truncates first; writers of one file disturb each other.
WriteBegins(f) ==
  /\ ~AtomicWrites
  /\ fill[f].pc \in Kinds
  /\ fill[f].write = "sent"
  /\ stored' = [stored EXCEPT ![fill[f].url][fill[f].pc] = Torn]
  /\ fill' = [g \in Fills |->
                IF g \in Rivals(f) THEN [fill[g] EXCEPT !.write = "mixed"]
                ELSE IF g = f THEN [fill[g] EXCEPT !.write = IF Rivals(f) = {} THEN "begun" ELSE "mixed"]
                ELSE fill[g]]
  /\ said' = Silence
  /\ UNCHANGED <<cache, pending, visit, todo, late>>

Target(f) == IF fill[f].png THEN "processed" ELSE "source"

\* Mutant of Object: the index names the source, converted or not.
ObjectSource(f) == IF fill[f].pc = "index" THEN "source" ELSE Whole

Object(f) == IF fill[f].pc = "index" THEN Target(f) ELSE Whole

\* The write takes effect; of two that overlapped the file may hold a mixture.
WriteLands(f) ==
  /\ fill[f].pc \in Kinds
  /\ fill[f].write \in (IF AtomicWrites THEN {"sent"} ELSE {"begun", "mixed"})
  /\ \E object \in {Object(f)} \cup (IF fill[f].write = "mixed" THEN {Torn} ELSE {}) :
       stored' = [stored EXCEPT ![fill[f].url][fill[f].pc] = object]
  /\ fill' = [fill EXCEPT ![f].write = "landed"]
  /\ said' = Silence
  /\ UNCHANGED <<cache, pending, visit, todo, late>>

\* Mutant of Written: write() is not awaited.
WrittenSoon(f) == TRUE

\* The promise of write() is settled.
Written(f) == fill[f].write = "landed"

SourceWritten(f) ==
  /\ fill[f].pc = "source" /\ Written(f)
  /\ IF fill[f].png THEN Moves(f, "transform", Progress(f, "transforming"))
                    ELSE Moves(f, "index", Indexing(f))

Transformed(f) == fill[f].pc = "transform" /\ Moves(f, "processed", Progress(f, "uploading"))

ProcessedWritten(f) == fill[f].pc = "processed" /\ Written(f) /\ Moves(f, "index", Indexing(f))

Ends(f, entry) ==
  /\ fill' = [fill EXCEPT ![f] = Unused]
  /\ cache' = [cache EXCEPT ![fill[f].url] = entry]
  /\ said' = Silence
  /\ UNCHANGED <<pending, visit, todo, stored>>

\* setReady() after its write.
IndexWritten(f) ==
  /\ NoContinuation
  /\ fill[f].pc = "index"
  /\ Written(f)
  /\ Ends(f, Ready(Target(f)))
  /\ UNCHANGED late

\* The rejection reaches setError() by continuations alone: a visit that found
\* the entry processing may be resumed before it or after it.
Refused(f) == fill[f].pc = "refused" /\ Ends(f, Failed) /\ UNCHANGED late

\* Of the writes these fills still await, some may take effect later.
GiveUp(fs) ==
  LET sent == {f \in fs : fill[f].pc \in Kinds /\ fill[f].write = "sent"}
      held == {[url |-> fill[f].url, kind |-> fill[f].pc, object |-> Object(f)] : f \in sent}
  IN  \E kept \in SUBSET (IF LateWrites THEN held ELSE {}) : late' = late \cup kept

MayFail(f) == fill[f].pc \in {"acquire", "fetch", "body", "transform"} \cup Kinds

\* Mutant of FillFails: the rejection is logged and does not reach setError().
FailsSilently(f) == NoContinuation /\ MayFail(f) /\ Ends(f, cache[fill[f].url]) /\ GiveUp({f})

\* Rejected while queued for a slot, an HTTP error, a lasting or one too many network error, a failed
\* conversion or write (which may have landed all the same).
FillFails(f) == NoContinuation /\ MayFail(f) /\ Ends(f, Failed) /\ GiveUp({f})

(***************************************************************************)
(* Time, losses, crashes.                                                  *)
(***************************************************************************)
AgeError(u) ==
  /\ AgingErrors
  /\ cache[u] = Failed
  /\ cache' = [cache EXCEPT ![u] = Stale]
  /\ said' = Silence
  /\ UNCHANGED <<pending, visit, todo, fill, stored, late>>

LateLands(w) ==
  /\ stored' = [stored EXCEPT ![w.url][w.kind] = w.object]
  /\ late' = late \ {w}
  /\ said' = Silence
  /\ UNCHANGED <<cache, pending, visit, todo, fill>>

Lose(u, kind) ==
  /\ stored[u][kind] # None
  /\ stored' = [stored EXCEPT ![u][kind] = None]
  /\ said' = Silence
  /\ UNCHANGED <<cache, pending, visit, todo, fill, late>>

\* The process dies, with its memory and its requests, and starts again.
Crash ==
  /\ Crashes
  /\ cache' = [u \in Urls |-> Blank]
  /\ pending' = [u \in Urls |-> "idle"]
  /\ visit' = [v \in Visitors |-> Away]
  /\ todo' = <<>>
  /\ fill' = [f \in Fills |-> Unused]
  /\ said' = Silence
  /\ GiveUp(Fills)
  /\ UNCHANGED stored

-----------------------------------------------------------------------------
Init ==
  /\ cache = [u \in Urls |-> Blank]
  /\ pending = [u \in Urls |-> "idle"]
  /\ visit = [v \in Visitors |-> Away]
  /\ todo = <<>>
  /\ fill = [f \in Fills |-> Unused]
  /\ stored = [u \in Urls |-> [kind \in Kinds |-> None]]
  /\ late = {}
  /\ said = Silence

Request ==
  \/ \E v \in Clients, u \in Urls : Visit(v, u)
  \/ \E urls \in Batches : Batch(urls)
  \/ \E u \in Urls : Refresh(u)

Handle(v) ==
  \/ ServeReady(v) \/ ReportReady(v) \/ ReportRunning(v) \/ ReportError(v) \/ StartFill(v)
  \/ OfferRedirect(v) \/ NoRedirect(v) \/ Stream(v) \/ ReadFails(v)

Download(f) ==
  \/ GetSlot(f) \/ Respond(f) \/ Retry(f) \/ BackoffEnds(f) \/ BodyEnds(f)
  \/ WriteBegins(f) \/ WriteLands(f)
  \/ SourceWritten(f) \/ Transformed(f) \/ ProcessedWritten(f) \/ IndexWritten(f)
  \/ Refused(f) \/ FillFails(f)

Environment ==
  \/ \E u \in Urls : AgeError(u)
  \/ \E u \in Urls, kind \in Losable : Lose(u, kind)
  \/ \E w \in late : LateLands(w)
  \/ Crash

Next ==
  \/ Request
  \/ \E u \in Urls : LoadReads(u) \/ LoadLands(u)
  \/ \E v \in Visitors : Handle(v)
  \/ \E f \in Fills : Download(f)
  \/ Environment

Spec == Init /\ [][Next]_vars

(***************************************************************************)
(* Fairness. Every event whose cause is settled is handled in the end: the *)
(* event loop starves no callback, though resumed visits go first, so that *)
(* the other events are only enabled again and again. Origins and storage  *)
(* answer or fail in the end (the HTTP clients' own timeouts), backoffs    *)
(* end. Users, time, losses and crashes are not fair.                      *)
(***************************************************************************)
LiveSpec ==
  /\ Spec
  /\ \A u \in Urls : WF_vars(LoadReads(u)) /\ SF_vars(LoadLands(u))
  /\ \A v \in Visitors : SF_vars(Handle(v))
  /\ \A f \in Fills : SF_vars(Download(f))

-----------------------------------------------------------------------------
(***************************************************************************)
(* Safety.                                                                 *)
(***************************************************************************)
\* A URL shown as processing has a download behind it that will settle it:
\* ensureFill() never starts another for a processing entry, so one without a
\* download would answer 503 until the process is restarted.
ProcessingHasFill == \A u \in Urls : cache[u].status = "processing" => Filling(u) # {}

\* Who is answered "processing" (503, Retry-After) does not poll in vain: the URL
\* has a download to wait for, or it has failed while the answer was on its way
\* and the next poll is told so.
PollNotInVain ==
  said.what = "processing" => Filling(said.url) # {} \/ cache[said.url].status = "error"

\* Whatever names an object (the index entry, a load that has read it, the
\* entry in memory) names a complete one: the object is written before the
\* index and the index before the memory, also across a crash.
PointersWhole ==
  \A u \in Urls :
    /\ stored[u]["index"] \in Names => stored[u][stored[u]["index"]] = Whole
    /\ pending[u] \in Names => stored[u][pending[u]] = Whole
    /\ cache[u].status = "ready" => stored[u][cache[u].names] = Whole

\* A URL served as ready has its index entry: after a restart it is still ready.
ReadyIsIndexed == \A u \in Urls : cache[u].status = "ready" => stored[u]["index"] \in Names

\* The bytes the server streams are never a half-written object.
ServesWhole == said.what = "bytes" => stored[said.url][said.names] = Whole

\* Visits share the download of a URL: there is never a second one at a time
\* (claimProcessing(), the shared loads, and entries that are not looked at
\* again after an await).
OneFill == \A u \in Urls : Cardinality(Filling(u)) <= 1

\* Memory and index agree: once no download and no load of a URL is under way,
\* a ready entry names what the index names. (Overlapping downloads may break
\* this, where writes are acknowledged in another order than they took effect.)
ReadyMatchesIndex ==
  \A u \in Urls :
    cache[u].status = "ready" /\ Filling(u) = {} /\ pending[u] = "idle"
      => stored[u]["index"] = cache[u].names

\* Documented of redirects: when the object has vanished, /cached fetches it
\* again and answers 503; it does not redirect to it.
RedirectToStored == said.what = "redirect" => stored[said.url][said.names] # None

(***************************************************************************)
(* Liveness.                                                               *)
(***************************************************************************)
\* Every handler answers, whatever it waited for.
VisitsAnswered == \A v \in Visitors : visit[v].pc # "idle" ~> visit[v].pc = "idle"

\* Every download ends, in a ready entry or in an error, despite its retries.
FillsEnd == \A f \in Fills : fill[f].pc # "idle" ~> fill[f].pc = "idle"
=============================================================================
