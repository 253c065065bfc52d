-------------------------- MODULE CacheFillProofs --------------------------
(***************************************************************************)
(* Proofs about CacheFill, for every set of URLs, clients, workers and     *)
(* downloads: who polls does not poll in vain, what names an object names  *)
(* a whole one, visits share a download, memory agrees with the index, no  *)
(* handler is stranded. What holds under some of the switches only has     *)
(* them as its hypothesis.                                                 *)
(***************************************************************************)
EXTENDS CacheFill, FiniteSetTheorems, SequenceTheorems, TLAPS

\* TypeOK with its clauses about single visits and downloads drawn into sets.
VisitSet ==
  {x \in VisitStates : /\ x.pc # "idle" => x.url \in Urls
                       /\ x.pc \in {"redirect", "read"} => x.entry.status = "ready"}
FillSet == {x \in FillStates : x.pc # "idle" => x.url \in Urls}
Loading == {"idle", "asked", "missed"} \cup Names
Contents == {None, Torn, Whole} \cup Names
Held == [url : Urls, kind : Kinds, object : {Whole} \cup Names]

Types ==
  /\ cache \in [Urls -> Entries]
  /\ pending \in [Urls -> Loading]
  /\ visit \in [Visitors -> VisitSet]
  /\ todo \in Seq(Urls)
  /\ fill \in [Fills -> FillSet]
  /\ stored \in [Urls -> [Kinds -> Contents]]
  /\ late \subseteq Held
  /\ said \in Answers

\* The two ways to state the types say the same.
LEMMA TypesIsTypeOK == Types <=> TypeOK
<1>1. Types => TypeOK
  BY DEF Types, TypeOK, VisitSet, FillSet, Loading, Contents, Held
<1>2. ASSUME TypeOK PROVE Types
  <2>1. visit \in [Visitors -> VisitSet]
    BY <1>2 DEF TypeOK, VisitSet
  <2>2. fill \in [Fills -> FillSet]
    BY <1>2 DEF TypeOK, FillSet
  <2> QED BY <1>2, <2>1, <2>2 DEF Types, TypeOK, Loading, Contents, Held
<1> QED BY <1>1, <1>2

-----------------------------------------------------------------------------
(***************************************************************************)
(* Entries, visits, downloads and answers as the operators build them.     *)
(***************************************************************************)
\* The constructors build entries.
LEMMA EntryKinds ==
  /\ Blank \in Entries /\ Failed \in Entries /\ Stale \in Entries
  /\ \A p \in Phases : Processing(p) \in Entries
  /\ \A n \in Names : Ready(n) \in Entries
BY DEF Entries

\* What the entry constructors put into the fields.
LEMMA EntryFields ==
  /\ Blank.status = "none" /\ Failed.status = "error" /\ Stale.status = "error"
  /\ \A p : Processing(p).status = "processing"
  /\ \A n : Ready(n).status = "ready" /\ Ready(n).names = n
BY DEF Blank, Failed, Stale, Processing, Ready

\* A ready entry names one of the two objects.
LEMMA ReadyNames == \A e \in Entries : e.status = "ready" => e.names \in Names
BY EntryFields DEF Entries

\* A lookup leaves a typed visit, waiting for a load or resumed, with what is cached.
LEMMA LookingType ==
  ASSUME NEW c \in [Urls -> Entries], NEW u \in Urls
  PROVE  /\ Looking(c, u) \in VisitSet
         /\ Looking(c, u).pc \in {"load", "resumed"}
         /\ Looking(c, u).url = u /\ Looking(c, u).entry = c[u]
         /\ Looking(c, u).pc = "load" => c[u].status = "none"
BY DEF Looking, VisitSet, VisitStates

\* A lookup may ask for an index load and nothing else.
LEMMA AskedType ==
  ASSUME Types, NEW c, NEW u \in Urls
  PROVE  Asked(c, u) \in [Urls -> Loading]
BY DEF Types, Asked, Loading

\* The idle states are typed.
LEMMA IdleTypes == Away \in VisitSet /\ Unused \in FillSet /\ Silence \in Answers
<1>1. Away \in VisitSet
  BY EntryKinds DEF Away, VisitSet, VisitStates
<1>2. Unused \in FillSet
  BY FillAssumption DEF Unused, At, FillSet, FillStates
<1> QED BY <1>1, <1>2 DEF Silence, Answers

\* What handlers answer is typed.
LEMMA SayType ==
  ASSUME NEW what \in {"processing", "error", "ready", "bytes", "redirect"},
         NEW u \in Urls, NEW n \in Names \cup {None}
  PROVE  Say(what, u, n) \in Answers
BY DEF Say, Answers

\* Setting one visit keeps the visits typed.
LEMMA VisitUpdate ==
  ASSUME Types, NEW v \in Visitors, NEW x \in VisitSet
  PROVE  [visit EXCEPT ![v] = x] \in [Visitors -> VisitSet]
BY DEF Types

\* Setting one download keeps the downloads typed.
LEMMA FillUpdate ==
  ASSUME Types, NEW f \in Fills, NEW x \in FillSet
  PROVE  [fill EXCEPT ![f] = x] \in [Fills -> FillSet]
BY DEF Types

\* Setting one entry keeps the entries typed.
LEMMA CacheUpdate ==
  ASSUME Types, NEW u \in Urls, NEW e \in Entries
  PROVE  [cache EXCEPT ![u] = e] \in [Urls -> Entries]
BY DEF Types

\* A visit under way has a URL and an entry.
LEMMA BusyVisit ==
  ASSUME Types, NEW v \in Visitors, visit[v].pc # "idle"
  PROVE  visit[v].url \in Urls /\ visit[v].entry \in Entries
BY DEF Types, VisitSet, VisitStates

\* A download under way has a URL.
LEMMA BusyFill ==
  ASSUME Types, NEW f \in Fills, fill[f].pc # "idle"
  PROVE  fill[f].url \in Urls
BY DEF Types, FillSet

\* The frame of a handler's last step.
LEMMA FinishType ==
  ASSUME Types, NEW v \in Visitors, NEW c \in [Urls -> Entries], NEW a \in Answers, Finish(v, c, a)
  PROVE  /\ cache' \in [Urls -> Entries]
         /\ pending' \in [Urls -> Loading]
         /\ visit' \in [Visitors -> VisitSet]
         /\ todo' \in Seq(Urls)
         /\ said' \in Answers
<1>1. CASE v \in Workers /\ todo # <<>>
  <2>1. Head(todo) \in Urls /\ Tail(todo) \in Seq(Urls)
    BY <1>1 DEF Types
  <2>2. Looking(c, Head(todo)) \in VisitSet
    BY <2>1, LookingType
  <2>3. Asked(c, Head(todo)) \in [Urls -> Loading]
    BY <2>1, AskedType
  <2> QED BY <1>1, <2>1, <2>2, <2>3, VisitUpdate DEF Finish
<1>2. CASE ~(v \in Workers /\ todo # <<>>)
  BY <1>2, IdleTypes, VisitUpdate DEF Finish, Types
<1> QED BY <1>1, <1>2

\* startDownload() leaves the downloads typed.
LEMMA LaunchType ==
  ASSUME Types, NEW f \in Fills, NEW u \in Urls, Launch(f, u)
  PROVE  fill' \in [Fills -> FillSet]
<1>1. 1 \in 1..(Retries + 1)
  BY FillAssumption
<1>2. At("acquire", u) \in FillSet /\ At("refused", u) \in FillSet
  BY <1>1 DEF At, FillSet, FillStates
<1> QED BY <1>2, FillUpdate DEF Launch

\* updateProgress() leaves the entries typed.
LEMMA ProgressType ==
  ASSUME Types, NEW f \in Fills, fill[f].pc # "idle", NEW p \in Phases
  PROVE  Progress(f, p) \in [Urls -> Entries]
BY BusyFill, EntryKinds, CacheUpdate DEF Progress, Types

\* A download that moves on keeps the types.
LEMMA MovesType ==
  ASSUME Types, NEW f \in Fills, fill[f].pc # "idle", NEW c \in [Urls -> Entries],
         NEW pc \in {"acquire", "fetch", "body", "transform"} \cup Kinds, Moves(f, pc, c)
  PROVE  Types'
<1>1. [fill[f] EXCEPT !.pc = pc, !.write = "sent"] \in FillSet
  <2>1. fill[f] \in FillStates /\ fill[f].url \in Urls
    BY BusyFill DEF Types, FillSet
  <2>2. [fill[f] EXCEPT !.pc = pc, !.write = "sent"] \in FillStates
    BY <2>1 DEF FillStates
  <2>3. [fill[f] EXCEPT !.pc = pc, !.write = "sent"].url = fill[f].url
    BY <2>1 DEF FillStates
  <2> QED BY <2>1, <2>2, <2>3 DEF FillSet
<1>2. fill' \in [Fills -> FillSet]
  BY <1>1, FillUpdate DEF Moves
<1> QED BY <1>2, IdleTypes DEF Moves, Types

-----------------------------------------------------------------------------
(***************************************************************************)
(* Every step keeps the types.                                             *)
(***************************************************************************)
\* A request that arrives keeps the types.
LEMMA VisitType == ASSUME Types, NEW v \in Visitors, NEW u \in Urls, Visit(v, u) PROVE Types'
<1>1. Looking(cache, u) \in VisitSet
  BY LookingType DEF Types
<1>2. visit' \in [Visitors -> VisitSet]
  BY <1>1, VisitUpdate DEF Visit
<1>3. pending' \in [Urls -> Loading]
  BY AskedType DEF Visit
<1> QED BY <1>2, <1>3, IdleTypes DEF Visit, Types

\* A batch that arrives keeps the types.
LEMMA BatchType == ASSUME Types, NEW urls \in Batches, Batch(urls) PROVE Types'
<1>1. urls \in Seq(Urls)
  BY FillAssumption
<1>2. PICK first \in [Workers -> 1..Cardinality(Workers)] :
        /\ visit' = [v \in Visitors |->
                       IF v \in Workers /\ first[v] <= Len(urls)
                         THEN Looking(cache, urls[first[v]]) ELSE visit[v]]
        /\ pending' = [u \in Urls |->
                         IF u \in {urls[first[w]] : w \in {x \in Workers : first[x] <= Len(urls)}}
                           THEN Asked(cache, u)[u] ELSE pending[u]]
        /\ todo' = SubSeq(urls, Cardinality({w \in Workers : first[w] <= Len(urls)}) + 1, Len(urls))
  BY DEF Batch
<1>3. Cardinality(Workers) \in Nat /\ Cardinality({w \in Workers : first[w] <= Len(urls)}) \in Nat
  BY FillAssumption, FS_Subset, FS_CardinalityType
<1>4. ASSUME NEW v \in Workers, first[v] <= Len(urls)
      PROVE  Looking(cache, urls[first[v]]) \in VisitSet
  <2>1. urls[first[v]] \in Urls
    BY <1>1, <1>3, <1>4
  <2> QED BY <2>1, LookingType DEF Types
<1>5. visit' \in [Visitors -> VisitSet]
  BY <1>2, <1>4 DEF Types
<1>6. \A u \in Urls : Asked(cache, u)[u] \in Loading
  BY AskedType
<1>7. pending' \in [Urls -> Loading]
  <2> DEFINE taken == {urls[first[w]] : w \in {x \in Workers : first[x] <= Len(urls)}}
  <2>1. pending' = [u \in Urls |-> IF u \in taken THEN Asked(cache, u)[u] ELSE pending[u]]
    BY <1>2
  <2> HIDE DEF taken
  <2> QED BY <1>6, <2>1 DEF Types
<1>8. todo' \in Seq(Urls)
  <2> DEFINE n == Cardinality({w \in Workers : first[w] <= Len(urls)})
  <2>1. n \in Nat /\ todo' = SubSeq(urls, n + 1, Len(urls))
    BY <1>2, <1>3
  <2> HIDE DEF n
  <2>2. ASSUME NEW i \in (n + 1)..Len(urls) PROVE urls[i] \in Urls
    BY <1>1, <2>1
  <2> QED BY <1>1, <2>1, <2>2, SubSeqProperties
<1>9. /\ said' = Silence
      /\ UNCHANGED <<cache, fill, stored, late>>
  BY DEF Batch
<1> QED BY <1>5, <1>7, <1>8, <1>9, IdleTypes DEF Types

\* /refresh keeps the types.
LEMMA RefreshType == ASSUME Types, NEW u \in Urls, Refresh(u) PROVE Types'
<1>1. fill' \in [Fills -> FillSet]
  BY LaunchType DEF Refresh, Free
<1>2. cache' \in [Urls -> Entries]
  BY EntryKinds, CacheUpdate DEF Refresh, Started, Phases
<1>3. said' \in Answers
  BY SayType DEF Refresh
<1> QED BY <1>1, <1>2, <1>3 DEF Refresh, Types

\* An index read keeps the types.
LEMMA LoadReadsType == ASSUME Types, NEW u \in Urls, LoadReads(u) PROVE Types'
<1>1. PICK x \in Loading : pending' = [pending EXCEPT ![u] = x]
  BY DEF LoadReads, Loading
<1>2. pending' \in [Urls -> Loading]
  BY <1>1 DEF Types
<1> QED BY <1>2, IdleTypes DEF LoadReads, Types

\* loadPersisted() keeps the types.
LEMMA LoadLandsType == ASSUME Types, NEW u \in Urls, LoadLands(u) PROVE Types'
<1> DEFINE entry == IF pending[u] \in Names THEN Ready(pending[u]) ELSE Blank
<1>1. entry \in Entries
  BY EntryKinds
<1>2. cache' \in [Urls -> Entries]
  <2>1. cache' = IF entry = Blank THEN cache ELSE [cache EXCEPT ![u] = entry]
    BY DEF LoadLands
  <2> HIDE DEF entry
  <2> QED BY <1>1, <2>1, CacheUpdate DEF Types
<1>3. visit' \in [Visitors -> VisitSet]
  <2>1. visit' = [v \in Visitors |->
                    IF v \in Joined(u) THEN [visit[v] EXCEPT !.pc = "resumed", !.entry = entry]
                    ELSE visit[v]]
    BY DEF LoadLands
  <2> HIDE DEF entry
  <2>2. ASSUME NEW v \in Visitors, v \in Joined(u)
        PROVE  [visit[v] EXCEPT !.pc = "resumed", !.entry = entry] \in VisitSet
    BY <1>1, <2>2 DEF Types, Joined, VisitSet, VisitStates
  <2> QED BY <2>1, <2>2 DEF Types
<1>4. pending' \in [Urls -> Loading]
  BY DEF LoadLands, Types, Loading
<1> QED BY <1>2, <1>3, <1>4, IdleTypes DEF LoadLands, Types

\* What a handler decides on is an entry.
LEMMA FoundType ==
  ASSUME Types, NEW v \in Visitors, visit[v].pc # "idle"
  PROVE  Found(v) \in Entries
BY BusyVisit DEF Found, Types

\* A new processing entry keeps the entries typed.
LEMMA StartedType ==
  ASSUME Types, NEW u \in Urls
  PROVE  Started(u) \in [Urls -> Entries]
BY EntryKinds, CacheUpdate DEF Started, Phases

\* A handler that answers, whether or not it starts a download.
LEMMA AnswerType ==
  ASSUME Types, NEW v \in Visitors, visit[v].pc # "idle", NEW c \in [Urls -> Entries],
         NEW what \in {"processing", "error", "ready", "bytes", "redirect"},
         NEW n \in Names \cup {None}, Finish(v, c, Say(what, visit[v].url, n)),
         fill' \in [Fills -> FillSet], UNCHANGED <<stored, late>>
  PROVE  Types'
<1>1. Say(what, visit[v].url, n) \in Answers
  BY SayType, BusyVisit
<1> QED BY <1>1, FinishType DEF Types

\* Every step of a handler keeps the types.
LEMMA HandleType == ASSUME Types, NEW v \in Visitors, Handle(v) PROVE Types'
<1> USE DEF Types
<1>1. ASSUME ServeReady(v) PROVE Types'
  <2>1. [visit[v] EXCEPT !.pc = IF Redirects THEN "redirect" ELSE "read", !.entry = Found(v)]
          \in VisitSet
    BY <1>1, FoundType, BusyVisit DEF ServeReady, VisitSet, VisitStates
  <2>2. visit' \in [Visitors -> VisitSet]
    BY <1>1, <2>1, VisitUpdate DEF ServeReady
  <2> QED BY <1>1, <2>2, IdleTypes DEF ServeReady
<1>2. ASSUME ReportReady(v) PROVE Types'
  BY <1>2, AnswerType DEF ReportReady
<1>3. ASSUME ReportRunning(v) PROVE Types'
  BY <1>3, AnswerType DEF ReportRunning
<1>4. ASSUME ReportError(v) PROVE Types'
  BY <1>4, AnswerType DEF ReportError
<1>5. ASSUME StartFill(v) PROVE Types'
  <2>1. visit[v].pc # "idle" /\ visit[v].url \in Urls
    BY <1>5, BusyVisit DEF StartFill
  <2>2. fill' \in [Fills -> FillSet] /\ Started(visit[v].url) \in [Urls -> Entries]
    BY <1>5, <2>1, LaunchType, StartedType DEF StartFill, Free
  <2> QED BY <1>5, <2>1, <2>2, AnswerType DEF StartFill
<1>6. ASSUME OfferRedirect(v) PROVE Types'
  <2>1. visit[v].entry.names \in Names
    BY <1>6, BusyVisit, ReadyNames DEF OfferRedirect, VisitSet
  <2> QED BY <1>6, <2>1, AnswerType DEF OfferRedirect
<1>7. ASSUME NoRedirect(v) PROVE Types'
  <2>1. [visit[v] EXCEPT !.pc = "read"] \in VisitSet
    BY <1>7 DEF NoRedirect, VisitSet, VisitStates
  <2>2. visit' \in [Visitors -> VisitSet]
    BY <1>7, <2>1 DEF NoRedirect
  <2> QED BY <1>7, <2>2, IdleTypes DEF NoRedirect
<1>8. ASSUME Stream(v) PROVE Types'
  <2>1. visit[v].entry.names \in Names
    BY <1>8, BusyVisit, ReadyNames DEF Stream, VisitSet
  <2> QED BY <1>8, <2>1, AnswerType DEF Stream
<1>9. ASSUME ReadFails(v) PROVE Types'
  <2>1. visit[v].pc # "idle" /\ visit[v].url \in Urls
    BY <1>9, BusyVisit DEF ReadFails
  <2>2. fill' \in [Fills -> FillSet] /\ Started(visit[v].url) \in [Urls -> Entries]
    BY <1>9, <2>1, LaunchType, StartedType DEF ReadFails, Refetch, Free
  <2> QED BY <1>9, <2>1, <2>2, AnswerType DEF ReadFails, Refetch
<1> QED BY <1>1, <1>2, <1>3, <1>4, <1>5, <1>6, <1>7, <1>8, <1>9 DEF Handle

\* Writes given up are typed.
LEMMA GiveUpType ==
  ASSUME Types, NEW fs, fs \subseteq Fills, GiveUp(fs)
  PROVE  late' \subseteq Held
<1> DEFINE sent == {f \in fs : fill[f].pc \in Kinds /\ fill[f].write = "sent"}
           held == {[url |-> fill[f].url, kind |-> fill[f].pc, object |-> Object(f)] : f \in sent}
<1>1. ASSUME NEW f \in sent
      PROVE  [url |-> fill[f].url, kind |-> fill[f].pc, object |-> Object(f)] \in Held
  <2>1. fill[f].url \in Urls
    BY BusyFill DEF Kinds
  <2> QED BY <2>1 DEF Held, Object, Target, Names
<1>2. held \subseteq Held
  <2> HIDE DEF sent
  <2> QED BY <1>1
<1>3. late' \subseteq late \cup held
  BY DEF GiveUp
<1> QED BY <1>2, <1>3 DEF Types

\* Every step of a download keeps the types.
LEMMA DownloadType == ASSUME Types, NEW f \in Fills, Download(f) PROVE Types'
<1> USE DEF Types
<1>1. fill[f].pc # "idle"
  BY DEF Download, GetSlot, Respond, Retry, BackoffEnds, BodyEnds, WriteBegins, WriteLands,
         SourceWritten, Transformed, ProcessedWritten, IndexWritten, Refused, FillFails, MayFail,
         Kinds
<1>2. fill[f] \in FillSet /\ fill[f].url \in Urls
  BY <1>1, BusyFill
<1>3. ASSUME NEW phase \in Phases PROVE Progress(f, phase) \in [Urls -> Entries]
  BY <1>1, ProgressType
<1>4. Indexing(f) \in [Urls -> Entries]
  BY <1>3 DEF Indexing, Phases
<1>5. ASSUME GetSlot(f) PROVE Types'
  BY <1>1, <1>5, MovesType DEF GetSlot
<1>6. ASSUME Respond(f) PROVE Types'
  BY <1>1, <1>3, <1>6, MovesType DEF Respond, Phases
<1>7. ASSUME Retry(f) PROVE Types'
  <2>1. Counted(f) \in 1..(Retries + 1)
    BY <1>2, <1>7, FillAssumption DEF Retry, MayRetry, Counted, FillSet, FillStates
  <2>2. [fill[f] EXCEPT !.pc = "backoff", !.attempt = Counted(f)] \in FillSet
    BY <1>2, <2>1 DEF FillSet, FillStates
  <2>3. fill' \in [Fills -> FillSet]
    BY <1>7, <2>2, FillUpdate DEF Retry
  <2> QED BY <1>3, <1>7, <2>3, IdleTypes DEF Retry, Phases
<1>8. ASSUME BackoffEnds(f) PROVE Types'
  BY <1>1, <1>8, MovesType DEF BackoffEnds
<1>9. ASSUME BodyEnds(f) PROVE Types'
  <2>1. PICK png \in Formats : fill' = [fill EXCEPT ![f] = [@ EXCEPT !.pc = "source", !.png = png]]
    BY <1>9 DEF BodyEnds
  <2>2. png \in BOOLEAN
    BY FillAssumption
  <2>3. [fill[f] EXCEPT !.pc = "source", !.png = png] \in FillSet
    BY <1>2, <2>2 DEF FillSet, FillStates, Kinds
  <2>4. fill' \in [Fills -> FillSet]
    BY <2>1, <2>3, FillUpdate
  <2> QED BY <1>3, <1>9, <2>4, IdleTypes DEF BodyEnds, Phases
<1>10. ASSUME WriteBegins(f) PROVE Types'
  <2>1. ASSUME NEW g \in Fills PROVE fill'[g] \in FillSet
    <3>1. ASSUME NEW w \in {"begun", "mixed"} PROVE [fill[g] EXCEPT !.write = w] \in FillSet
      <4>1. fill[g] \in FillSet
        OBVIOUS
      <4> QED BY <3>1, <4>1 DEF FillSet, FillStates
    <3>2. \/ fill'[g] = fill[g]
          \/ \E w \in {"begun", "mixed"} : fill'[g] = [fill[g] EXCEPT !.write = w]
      <4>1. fill'[g] \in {fill[g], [fill[g] EXCEPT !.write = "begun"],
                          [fill[g] EXCEPT !.write = "mixed"]}
        BY <1>10 DEF WriteBegins
      <4> QED BY <4>1
    <3> QED BY <3>1, <3>2
  <2>2. fill' \in [Fills -> FillSet]
    BY <1>10, <2>1 DEF WriteBegins
  <2>3. stored' \in [Urls -> [Kinds -> Contents]]
    BY <1>2, <1>10 DEF WriteBegins, Contents
  <2> QED BY <1>10, <2>2, <2>3, IdleTypes DEF WriteBegins
<1>11. ASSUME WriteLands(f) PROVE Types'
  <2>1. PICK object \in Contents : stored' = [stored EXCEPT ![fill[f].url][fill[f].pc] = object]
    BY <1>11 DEF WriteLands, Object, Target, Contents, Names
  <2>2. stored' \in [Urls -> [Kinds -> Contents]]
    BY <1>2, <2>1
  <2>3. [fill[f] EXCEPT !.write = "landed"] \in FillSet
    BY <1>2 DEF FillSet, FillStates
  <2>4. fill' \in [Fills -> FillSet]
    BY <1>11, <2>3 DEF WriteLands
  <2> QED BY <1>11, <2>2, <2>4, IdleTypes DEF WriteLands
<1>12. ASSUME SourceWritten(f) PROVE Types'
  BY <1>1, <1>3, <1>4, <1>12, MovesType DEF SourceWritten, Phases, Kinds
<1>13. ASSUME Transformed(f) PROVE Types'
  BY <1>1, <1>3, <1>13, MovesType DEF Transformed, Phases, Kinds
<1>14. ASSUME ProcessedWritten(f) PROVE Types'
  BY <1>1, <1>4, <1>14, MovesType DEF ProcessedWritten, Kinds
<1>15. ASSUME NEW entry \in Entries, Ends(f, entry)
       PROVE  /\ cache' \in [Urls -> Entries] /\ fill' \in [Fills -> FillSet]
              /\ said' \in Answers /\ UNCHANGED <<pending, visit, todo, stored>>
  BY <1>2, <1>15, IdleTypes, CacheUpdate, FillUpdate DEF Ends
<1>16. Ready(Target(f)) \in Entries
  BY EntryKinds DEF Target, Names
<1>17. ASSUME IndexWritten(f) PROVE Types'
  BY <1>15, <1>16, <1>17 DEF IndexWritten
<1>18. ASSUME FillFails(f) PROVE Types'
  <2>1. late' \subseteq Held
    BY <1>18, GiveUpType DEF FillFails
  <2> QED BY <1>15, <1>18, <2>1, EntryKinds DEF FillFails
<1>19. ASSUME Refused(f) PROVE Types'
  BY <1>15, <1>19, EntryKinds DEF Refused
<1> QED BY <1>5, <1>6, <1>7, <1>8, <1>9, <1>10, <1>11, <1>12, <1>13, <1>14, <1>17, <1>18, <1>19
        DEF Download

\* Time, losses and crashes keep the types.
LEMMA EnvironmentType == ASSUME Types, Environment PROVE Types'
<1> USE DEF Types
<1>1. ASSUME NEW u \in Urls, AgeError(u) PROVE Types'
  BY <1>1, EntryKinds, CacheUpdate, IdleTypes DEF AgeError
<1>2. ASSUME NEW u \in Urls, NEW kind \in Losable, Lose(u, kind) PROVE Types'
  BY <1>2, IdleTypes DEF Lose, Contents
<1>3. ASSUME NEW w \in late, LateLands(w) PROVE Types'
  <2>1. w.url \in Urls /\ w.kind \in Kinds /\ w.object \in Contents
    BY DEF Held, Contents
  <2>2. stored' \in [Urls -> [Kinds -> Contents]]
    BY <1>3, <2>1 DEF LateLands
  <2> QED BY <1>3, <2>2, IdleTypes DEF LateLands
<1>4. ASSUME Crash PROVE Types'
  <2>1. late' \subseteq Held
    BY <1>4, GiveUpType DEF Crash
  <2>2. visit' \in [Visitors -> VisitSet] /\ fill' \in [Fills -> FillSet]
    BY <1>4, IdleTypes DEF Crash
  <2>3. cache' \in [Urls -> Entries] /\ pending' \in [Urls -> Loading]
    BY <1>4, EntryKinds DEF Crash, Loading
  <2> QED BY <1>4, <2>1, <2>2, <2>3, IdleTypes DEF Crash
<1> QED BY <1>1, <1>2, <1>3, <1>4 DEF Environment

\* A new process is typed.
LEMMA InitType == Init => Types
<1> SUFFICES ASSUME Init PROVE Types
  OBVIOUS
<1>1. visit \in [Visitors -> VisitSet] /\ fill \in [Fills -> FillSet]
  BY IdleTypes DEF Init
<1>2. cache \in [Urls -> Entries] /\ pending \in [Urls -> Loading]
  BY EntryKinds DEF Init, Loading
<1>3. stored \in [Urls -> [Kinds -> Contents]]
  BY DEF Init, Contents
<1> QED BY <1>1, <1>2, <1>3, IdleTypes DEF Init, Types

\* Every step keeps the types.
LEMMA StepType == Types /\ [Next]_vars => Types'
<1> SUFFICES ASSUME Types, [Next]_vars PROVE Types'
  OBVIOUS
<1>1. ASSUME Request PROVE Types'
  BY <1>1, VisitType, BatchType, RefreshType DEF Request, Visitors
<1>2. ASSUME NEW u \in Urls, LoadReads(u) \/ LoadLands(u) PROVE Types'
  BY <1>2, LoadReadsType, LoadLandsType
<1>3. ASSUME NEW v \in Visitors, Handle(v) PROVE Types'
  BY <1>3, HandleType
<1>4. ASSUME NEW f \in Fills, Download(f) PROVE Types'
  BY <1>4, DownloadType
<1>5. ASSUME Environment PROVE Types'
  BY <1>5, EnvironmentType
<1>6. CASE UNCHANGED vars
  BY <1>6 DEF vars, Types
<1> QED BY <1>1, <1>2, <1>3, <1>4, <1>5, <1>6 DEF Next

\* The cache manager, its handlers and downloads keep their types: in particular
\* a handler that serves has an object to serve, a download counts its attempts
\* up to the retries allowed.
THEOREM FillTypeCorrect == Spec => []TypeOK
<1>1. Spec => []Types
  BY InitType, StepType, PTL DEF Spec
<1> QED BY <1>1, TypesIsTypeOK, PTL

-----------------------------------------------------------------------------
(***************************************************************************)
(* Who is told to poll does not poll in vain.                              *)
(***************************************************************************)
\* The URLs with a download, and those whose download has failed meanwhile. A
\* visit that found a processing entry and has yet to answer: its download may be
\* refused before it does, but it cannot end otherwise, and no other event (a
\* refresh, the end of another download) replaces the error before it answers.
Underway == {fill[f].url : f \in {g \in Fills : fill[g].pc # "idle"}}

Settling == Underway \cup {u \in Urls : cache[u].status = "error"}

EntriesKnow == \A u \in Urls : cache[u].status = "processing" => u \in Underway
VisitsKnow ==
  \A v \in Visitors :
    visit[v].pc = "resumed" /\ visit[v].entry.status = "processing" => visit[v].url \in Settling
AnswersKnow == said.what = "processing" => said.url \in Settling

PollInv == Types /\ EntriesKnow /\ VisitsKnow /\ AnswersKnow

\* The invariant implies both properties.
LEMMA PollInvImplies == PollInv => ProcessingHasFill /\ PollNotInVain
BY DEF PollInv, EntriesKnow, AnswersKnow, ProcessingHasFill, PollNotInVain, Settling, Underway,
       Filling

\* A download that runs goes on with its URL.
FillsGoOn == \A f \in Fills : fill[f].pc # "idle" => fill'[f].pc # "idle" /\ fill'[f].url = fill[f].url

\* Where no download ends no URL loses its download.
LEMMA UnderwayGrows == ASSUME FillsGoOn PROVE Underway \subseteq Underway'
BY DEF FillsGoOn, Underway

\* startDownload() ends no other download.
LEMMA LaunchGoesOn ==
  ASSUME Types, NEW f \in Free, NEW u \in Urls, Launch(f, u)
  PROVE  FillsGoOn /\ u \in Underway'
<1>1. fill'[f] \in {At("acquire", u), At("refused", u)} /\ \A g \in Fills \ {f} : fill'[g] = fill[g]
  BY DEF Launch, Free, Types
<1>2. fill'[f].pc # "idle" /\ fill'[f].url = u
  BY <1>1 DEF At
<1> QED BY <1>1, <1>2 DEF FillsGoOn, Free, Underway

\* What an answer says.
LEMMA QuietAnswer ==
  /\ Silence.what # "processing"
  /\ \A what, u, n : Say(what, u, n).what = what /\ Say(what, u, n).url = u
BY DEF Silence, Say

\* Errors that a resumed visit may have yet to see are replaced by downloads only.
ErrorsStay ==
  \/ NoContinuation
  \/ \A u \in Urls :
       cache[u].status = "error" => cache'[u].status = "error" \/ u \in Underway'

\* What a step owes when no download ends in it.
LEMMA PollFrame ==
  ASSUME PollInv, Types', FillsGoOn, ErrorsStay,
         \A u \in Urls : cache'[u].status = "processing" =>
            cache[u].status = "processing" \/ u \in Underway',
         \A v \in Visitors : visit'[v].pc = "resumed" /\ visit'[v].entry.status = "processing" =>
            visit'[v] = visit[v] \/ visit'[v].url \in Underway',
         said'.what = "processing" => said'.url \in Settling'
  PROVE  PollInv'
<1>1. Underway \subseteq Underway'
  BY UnderwayGrows
<1>2. EntriesKnow'
  BY <1>1 DEF PollInv, EntriesKnow
<1>3. VisitsKnow'
  <2> SUFFICES ASSUME NEW v \in Visitors, visit'[v].pc = "resumed",
                      visit'[v].entry.status = "processing", visit'[v] = visit[v]
               PROVE  visit'[v].url \in Settling'
    BY DEF VisitsKnow, Settling
  <2>1. visit[v].url \in Settling
    BY DEF PollInv, VisitsKnow
  <2>2. ~NoContinuation
    BY DEF NoContinuation
  <2> QED BY <1>1, <2>1, <2>2 DEF Settling, ErrorsStay
<1> QED BY <1>2, <1>3 DEF PollInv, AnswersKnow

\* A worker's next URL is shown as processing only with a download behind it.
LEMMA FinishPolls ==
  ASSUME Types, NEW v \in Visitors, NEW c \in [Urls -> Entries], NEW a \in Answers, Finish(v, c, a),
         \A u \in Urls : c[u].status = "processing" => u \in Underway',
         NEW x \in Visitors, visit'[x].pc = "resumed", visit'[x].entry.status = "processing"
  PROVE  visit'[x] = visit[x] \/ visit'[x].url \in Underway'
<1>1. CASE x # v
  BY <1>1 DEF Finish, Types
<1>2. CASE x = v /\ v \in Workers /\ todo # <<>>
  <2>1. Head(todo) \in Urls
    BY <1>2 DEF Types
  <2>2. visit'[v] = Looking(c, Head(todo))
    BY <1>2 DEF Finish, Types
  <2>3. visit'[v].url = Head(todo) /\ visit'[v].entry = c[Head(todo)]
    BY <2>1, <2>2, LookingType
  <2> QED BY <1>2, <2>1, <2>3
<1>3. CASE x = v /\ ~(v \in Workers /\ todo # <<>>)
  <2>1. visit'[v] = Away
    BY <1>3 DEF Finish, Types
  <2> QED BY <1>3, <2>1 DEF Away
<1> QED BY <1>1, <1>2, <1>3

\* A new processing entry has the new download behind it.
LEMMA StartedPolls ==
  ASSUME PollInv, NEW u \in Urls, NEW f \in Free, Launch(f, u),
         NEW w \in Urls, Started(u)[w].status = "processing"
  PROVE  w \in Underway'
<1>1. FillsGoOn /\ u \in Underway'
  BY LaunchGoesOn DEF PollInv
<1>2. CASE w = u
  BY <1>1, <1>2
<1>3. CASE w # u
  <2>1. cache[w].status = "processing"
    BY <1>3 DEF Started, PollInv, Types
  <2> QED BY <1>1, <2>1, UnderwayGrows DEF PollInv, EntriesKnow
<1> QED BY <1>2, <1>3

\* A handler answers without starting a download.
LEMMA AnswerPolls ==
  ASSUME PollInv, Types', NEW v \in Visitors, visit[v].pc # "idle",
         NEW what \in {"processing", "error", "ready", "bytes", "redirect"},
         NEW n \in Names \cup {None}, Finish(v, cache, Say(what, visit[v].url, n)),
         UNCHANGED fill, what = "processing" => visit[v].url \in Settling
  PROVE  PollInv'
<1>1. Say(what, visit[v].url, n) \in Answers
  BY SayType, BusyVisit DEF PollInv
<1>2. FillsGoOn /\ Underway' = Underway
  BY DEF FillsGoOn, Underway
<1>3. \A u \in Urls : cache[u].status = "processing" => u \in Underway'
  BY <1>2 DEF PollInv, EntriesKnow
<1>4. Types /\ cache \in [Urls -> Entries]
  BY DEF PollInv, Types
<1>5. \A x \in Visitors : visit'[x].pc = "resumed" /\ visit'[x].entry.status = "processing" =>
         visit'[x] = visit[x] \/ visit'[x].url \in Underway'
  BY <1>1, <1>3, <1>4, FinishPolls
<1>6. said' = Say(what, visit[v].url, n) /\ cache' = cache
  BY DEF Finish
<1>7. said'.what = "processing" => said'.url \in Settling'
  BY <1>2, <1>6, QuietAnswer DEF Settling
<1> QED BY <1>2, <1>5, <1>6, <1>7, PollFrame DEF ErrorsStay

\* A handler answers "processing" and starts a download.
LEMMA StartPolls ==
  ASSUME PollInv, Types', NEW v \in Visitors, visit[v].pc # "idle", NEW f \in Free,
         Launch(f, visit[v].url),
         Finish(v, Started(visit[v].url), Say("processing", visit[v].url, None))
  PROVE  PollInv'
<1>1. Types /\ visit[v].url \in Urls /\ Started(visit[v].url) \in [Urls -> Entries]
  BY BusyVisit, StartedType DEF PollInv
<1>2. Say("processing", visit[v].url, None) \in Answers
  BY <1>1, SayType
<1>3. FillsGoOn /\ visit[v].url \in Underway'
  BY <1>1, LaunchGoesOn
<1>4. \A u \in Urls : Started(visit[v].url)[u].status = "processing" => u \in Underway'
  BY <1>1, StartedPolls
<1>5. \A x \in Visitors : visit'[x].pc = "resumed" /\ visit'[x].entry.status = "processing" =>
         visit'[x] = visit[x] \/ visit'[x].url \in Underway'
  BY <1>1, <1>2, <1>4, FinishPolls
<1>6. /\ said' = Say("processing", visit[v].url, None)
      /\ cache' = Started(visit[v].url)
  BY DEF Finish
<1>7. said'.what = "processing" => said'.url \in Settling'
  BY <1>3, <1>6, QuietAnswer DEF Settling
<1>8. ErrorsStay
  BY <1>1, <1>3, <1>6 DEF ErrorsStay, Started, Types
<1> QED BY <1>3, <1>4, <1>5, <1>6, <1>7, <1>8, PollFrame

\* updateProgress() makes no entry processing that is not.
LEMMA ProgressPolls ==
  ASSUME PollInv, NEW f \in Fills, fill[f].pc # "idle", NEW phase, NEW u \in Urls,
         Progress(f, phase)[u].status = "processing"
  PROVE  cache[u].status = "processing"
BY BusyFill DEF Progress, PollInv, Types

\* A running download moves on.
LEMMA MovePolls ==
  ASSUME PollInv, Types', NEW f \in Fills, fill[f].pc # "idle",
         NEW x, fill' = [fill EXCEPT ![f] = x], x.pc # "idle", x.url = fill[f].url,
         UNCHANGED visit, said' = Silence,
         NoContinuation,
         \A u \in Urls : cache'[u].status = "processing" => cache[u].status = "processing"
  PROVE  PollInv'
<1>1. FillsGoOn
  BY DEF FillsGoOn, PollInv, Types
<1> QED BY <1>1, QuietAnswer, PollFrame DEF ErrorsStay

\* A download that ends settles its entry; a resumed visit is left to report it
\* only if that is an error.
LEMMA EndPolls ==
  ASSUME PollInv, Types', NEW f \in Fills, fill[f].pc # "idle",
         NEW entry, entry.status # "processing", Ends(f, entry),
         NoContinuation \/ entry.status = "error"
  PROVE  PollInv'
<1>1. VisitsKnow'
  <2> SUFFICES ASSUME NEW v \in Visitors, visit'[v].pc = "resumed",
                      visit'[v].entry.status = "processing"
               PROVE  visit'[v].url \in Settling'
    BY DEF VisitsKnow
  <2>1. visit' = visit /\ entry.status = "error"
    BY DEF Ends, NoContinuation
  <2>2. visit[v].url \in Settling
    BY <2>1 DEF PollInv, VisitsKnow
  <2>3. cache' = [cache EXCEPT ![fill[f].url] = entry] /\ fill' = [fill EXCEPT ![f] = Unused]
    BY DEF Ends
  <2>4. CASE visit[v].url \in Urls /\ cache[visit[v].url].status = "error"
    BY <2>1, <2>3, <2>4 DEF Settling, PollInv, Types
  <2>5. CASE visit[v].url \in Underway
    <3>1. PICK g \in Fills : fill[g].pc # "idle" /\ fill[g].url = visit[v].url
      BY <2>5 DEF Underway
    <3>2. CASE g = f
      BY <2>1, <2>3, <3>1, <3>2, BusyFill DEF Settling, PollInv, Types
    <3>3. CASE g # f
      <4>1. fill'[g] = fill[g]
        BY <2>3, <3>3 DEF PollInv, Types
      <4> QED BY <2>1, <3>1, <4>1 DEF Settling, Underway
    <3> QED BY <3>2, <3>3
  <2> QED BY <2>2, <2>4, <2>5 DEF Settling
<1>2. EntriesKnow'
  <2> SUFFICES ASSUME NEW u \in Urls, cache'[u].status = "processing" PROVE u \in Underway'
    BY DEF EntriesKnow
  <2>1. u # fill[f].url /\ cache[u].status = "processing"
    BY BusyFill DEF Ends, PollInv, Types
  <2>2. PICK g \in Fills : fill[g].pc # "idle" /\ fill[g].url = u
    BY <2>1 DEF PollInv, EntriesKnow, Underway
  <2>3. fill'[g] = fill[g]
    BY <2>1, <2>2 DEF Ends, PollInv, Types
  <2> QED BY <2>2, <2>3 DEF Underway
<1>3. AnswersKnow'
  BY QuietAnswer DEF Ends, AnswersKnow
<1> QED BY <1>1, <1>2, <1>3 DEF PollInv

\* Handlers keep the invariant.
LEMMA HandlePolls == ASSUME PollInv, Types', NEW v \in Visitors, Handle(v) PROVE PollInv'
<1>1. visit[v].pc # "idle" /\ visit[v].url \in Urls
  BY BusyVisit DEF Handle, ServeReady, ReportReady, ReportRunning, ReportError, StartFill,
                   OfferRedirect, NoRedirect, Stream, ReadFails, PollInv
<1>2. ASSUME ServeReady(v) \/ NoRedirect(v) PROVE PollInv'
  <2>1. FillsGoOn /\ UNCHANGED cache /\ said' = Silence
    BY <1>2 DEF ServeReady, NoRedirect, FillsGoOn
  <2>2. \A x \in Visitors \ {v} : visit'[x] = visit[x]
    BY <1>2 DEF ServeReady, NoRedirect, PollInv, Types
  <2>3. visit'[v].pc # "resumed"
    <3>1. visit \in [Visitors -> VisitStates]
      BY DEF PollInv, Types, VisitSet
    <3>2. CASE ServeReady(v)
      <4>1. PICK pc \in {"redirect", "read"} :
              visit' = [visit EXCEPT ![v] = [@ EXCEPT !.pc = pc, !.entry = Found(v)]]
        BY <3>2 DEF ServeReady
      <4> QED BY <3>1, <4>1 DEF VisitStates
    <3>3. CASE NoRedirect(v)
      BY <3>1, <3>3 DEF NoRedirect, VisitStates
    <3> QED BY <1>2, <3>2, <3>3
  <2> QED BY <2>1, <2>2, <2>3, QuietAnswer, PollFrame DEF ErrorsStay
<1>3. ASSUME ReportReady(v) PROVE PollInv'
  <2>1. Finish(v, cache, Say("ready", visit[v].url, None)) /\ UNCHANGED fill
    BY <1>3 DEF ReportReady
  <2> QED BY <1>1, <2>1, AnswerPolls
<1>4. ASSUME ReportRunning(v) PROVE PollInv'
  <2>1. visit[v].url \in Settling
    BY <1>1, <1>4 DEF ReportRunning, Found, PollInv, VisitsKnow, EntriesKnow, Settling
  <2>2. Finish(v, cache, Say("processing", visit[v].url, None)) /\ UNCHANGED fill
    BY <1>4 DEF ReportRunning
  <2> QED BY <1>1, <2>1, <2>2, AnswerPolls
<1>5. ASSUME ReportError(v) PROVE PollInv'
  <2>1. Finish(v, cache, Say("error", visit[v].url, None)) /\ UNCHANGED fill
    BY <1>5 DEF ReportError
  <2> QED BY <1>1, <2>1, AnswerPolls
<1>6. ASSUME StartFill(v) PROVE PollInv'
  BY <1>1, <1>6, StartPolls DEF StartFill
<1>7. ASSUME OfferRedirect(v) \/ Stream(v) PROVE PollInv'
  <2>1. visit[v].entry.names \in Names
    BY <1>1, <1>7, BusyVisit, ReadyNames DEF OfferRedirect, Stream, PollInv, Types, VisitSet
  <2>2. PICK what \in {"redirect", "bytes"} :
          Finish(v, cache, Say(what, visit[v].url, visit[v].entry.names)) /\ UNCHANGED fill
    BY <1>7 DEF OfferRedirect, Stream
  <2> QED BY <1>1, <2>1, <2>2, AnswerPolls
<1>8. ASSUME ReadFails(v) PROVE PollInv'
  BY <1>1, <1>8, StartPolls DEF ReadFails, Refetch
<1> QED BY <1>2, <1>3, <1>4, <1>5, <1>6, <1>7, <1>8 DEF Handle

\* Downloads keep the invariant.
LEMMA DownloadPolls == ASSUME PollInv, Types', NEW f \in Fills, Download(f) PROVE PollInv'
<1>1. fill[f].pc # "idle" /\ fill[f] \in FillSet
  BY DEF Download, GetSlot, Respond, Retry, BackoffEnds, BodyEnds, WriteBegins, WriteLands,
         SourceWritten, Transformed, ProcessedWritten, IndexWritten, Refused, FillFails, MayFail, Kinds,
         PollInv, Types
<1>2. ASSUME NEW pc \in {"acquire", "fetch", "body", "transform"} \cup Kinds, NEW c, Moves(f, pc, c),
             \A u \in Urls : c[u].status = "processing" => cache[u].status = "processing"
      PROVE  PollInv'
  <2> DEFINE x == [fill[f] EXCEPT !.pc = pc, !.write = "sent"]
  <2>1. x.pc # "idle" /\ x.url = fill[f].url
    BY <1>1 DEF FillSet, FillStates, Kinds
  <2>2. /\ fill' = [fill EXCEPT ![f] = x]
        /\ cache' = c /\ UNCHANGED visit /\ said' = Silence /\ NoContinuation
    BY <1>2 DEF Moves
  <2> HIDE DEF x
  <2> QED BY <1>1, <1>2, <2>1, <2>2, MovePolls
<1>3. ASSUME NEW phase, NEW u \in Urls, Progress(f, phase)[u].status = "processing"
      PROVE  cache[u].status = "processing"
  BY <1>1, <1>3, ProgressPolls
<1>4. ASSUME GetSlot(f) \/ Respond(f) \/ BackoffEnds(f) PROVE PollInv'
  BY <1>2, <1>3, <1>4 DEF GetSlot, Respond, BackoffEnds
<1>5. ASSUME SourceWritten(f) \/ Transformed(f) \/ ProcessedWritten(f) PROVE PollInv'
  BY <1>2, <1>3, <1>5 DEF SourceWritten, Transformed, ProcessedWritten, Indexing, Kinds
<1>6. ASSUME Retry(f) PROVE PollInv'
  <2> DEFINE x == [fill[f] EXCEPT !.pc = "backoff", !.attempt = Counted(f)]
  <2>1. x.pc # "idle" /\ x.url = fill[f].url
    BY <1>1 DEF FillSet, FillStates
  <2>2. /\ fill' = [fill EXCEPT ![f] = x]
        /\ cache' = Progress(f, "queued") /\ UNCHANGED visit /\ said' = Silence /\ NoContinuation
    BY <1>6 DEF Retry
  <2> HIDE DEF x
  <2> QED BY <1>1, <1>3, <2>1, <2>2, MovePolls
<1>7. ASSUME BodyEnds(f) PROVE PollInv'
  <2>1. PICK png \in Formats : fill' = [fill EXCEPT ![f] = [@ EXCEPT !.pc = "source", !.png = png]]
    BY <1>7 DEF BodyEnds
  <2> DEFINE x == [fill[f] EXCEPT !.pc = "source", !.png = png]
  <2>2. x.pc # "idle" /\ x.url = fill[f].url
    BY <1>1 DEF FillSet, FillStates
  <2>3. fill' = [fill EXCEPT ![f] = x]
    BY <2>1
  <2>4. /\ cache' = Progress(f, "uploading") /\ UNCHANGED visit /\ said' = Silence
        /\ NoContinuation
    BY <1>7 DEF BodyEnds
  <2> HIDE DEF x
  <2> QED BY <1>1, <1>3, <2>2, <2>3, <2>4, MovePolls
<1>8. ASSUME WriteBegins(f) \/ WriteLands(f) PROVE PollInv'
  <2>1. \A g \in Fills : fill'[g].pc = fill[g].pc /\ fill'[g].url = fill[g].url
    <3>1. SUFFICES ASSUME NEW g \in Fills
                   PROVE  fill'[g].pc = fill[g].pc /\ fill'[g].url = fill[g].url
      OBVIOUS
    <3>2. /\ fill[g] \in FillStates
          /\ \A w : /\ [fill[g] EXCEPT !.write = w].pc = fill[g].pc
                   /\ [fill[g] EXCEPT !.write = w].url = fill[g].url
      BY DEF PollInv, Types, FillSet, FillStates
    <3>3. ASSUME WriteBegins(f)
          PROVE  \E w : fill'[g] \in {[fill[g] EXCEPT !.write = w], fill[g]}
      <4>1. fill'[g] \in {[fill[g] EXCEPT !.write = "begun"],
                         [fill[g] EXCEPT !.write = "mixed"], fill[g]}
        BY <3>3 DEF WriteBegins
      <4> QED BY <4>1
    <3>4. ASSUME WriteLands(f)
          PROVE  fill'[g] \in {[fill[g] EXCEPT !.write = "landed"], fill[g]}
      BY <3>4 DEF WriteLands, PollInv, Types
    <3> QED BY <1>8, <3>2, <3>3, <3>4
  <2>2. FillsGoOn
    BY <2>1 DEF FillsGoOn
  <2>3. UNCHANGED <<cache, visit>> /\ said' = Silence
    BY <1>8 DEF WriteBegins, WriteLands
  <2> QED BY <2>2, <2>3, QuietAnswer, PollFrame DEF ErrorsStay
<1>9. ASSUME IndexWritten(f) \/ Refused(f) \/ FillFails(f) PROVE PollInv'
  BY <1>1, <1>9, EndPolls, EntryFields DEF IndexWritten, Refused, FillFails
<1> QED BY <1>4, <1>5, <1>6, <1>7, <1>8, <1>9 DEF Download

\* Requests keep the invariant.
LEMMA RequestPolls == ASSUME PollInv, Types', Request PROVE PollInv'
<1>1. ASSUME NEW v \in Clients, NEW u \in Urls, Visit(v, u) PROVE PollInv'
  <2>1. FillsGoOn /\ UNCHANGED cache /\ said' = Silence
    BY <1>1 DEF Visit, FillsGoOn
  <2>2. visit' = [visit EXCEPT ![v] = Looking(cache, u)]
    BY <1>1 DEF Visit
  <2>3. Looking(cache, u).url = u /\ Looking(cache, u).entry = cache[u]
    BY DEF Looking
  <2>4. cache[u].status = "processing" => u \in Underway'
    BY <2>1, UnderwayGrows DEF PollInv, EntriesKnow
  <2>5. \A x \in Visitors : visit'[x] = visit[x] \/ visit'[x] = Looking(cache, u)
    BY <2>2 DEF PollInv, Types
  <2> QED BY <2>1, <2>3, <2>4, <2>5, QuietAnswer, PollFrame DEF ErrorsStay
<1>2. ASSUME NEW urls \in Batches, Batch(urls) PROVE PollInv'
  <2>1. FillsGoOn /\ UNCHANGED cache /\ said' = Silence
    BY <1>2 DEF Batch, FillsGoOn
  <2>2. PICK first \in [Workers -> 1..Cardinality(Workers)] :
          visit' = [v \in Visitors |->
                      IF v \in Workers /\ first[v] <= Len(urls)
                        THEN Looking(cache, urls[first[v]]) ELSE visit[v]]
    BY <1>2 DEF Batch
  <2>3. ASSUME NEW x \in Visitors, visit'[x] # visit[x], visit'[x].entry.status = "processing"
        PROVE  visit'[x].url \in Underway'
    <3>1. x \in Workers /\ first[x] <= Len(urls) /\ visit'[x] = Looking(cache, urls[first[x]])
      BY <2>2, <2>3
    <3>2. urls \in Seq(Urls) /\ Cardinality(Workers) \in Nat
      BY FillAssumption, FS_CardinalityType
    <3>3. urls[first[x]] \in Urls
      BY <3>1, <3>2
    <3>4. visit'[x].url = urls[first[x]] /\ visit'[x].entry = cache[urls[first[x]]]
      <4>1. cache \in [Urls -> Entries]
        BY DEF PollInv, Types
      <4>2. \A u \in Urls : Looking(cache, u).url = u /\ Looking(cache, u).entry = cache[u]
        BY <4>1, LookingType
      <4> QED BY <3>1, <3>3, <4>2
    <3> QED BY <2>1, <2>3, <3>3, <3>4, UnderwayGrows DEF PollInv, EntriesKnow
  <2> QED BY <2>1, <2>3, QuietAnswer, PollFrame DEF ErrorsStay
<1>3. ASSUME NEW u \in Urls, Refresh(u) PROVE PollInv'
  <2>1. PICK f \in Free : Launch(f, u)
    BY <1>3 DEF Refresh
  <2>2. FillsGoOn /\ u \in Underway'
    BY <2>1, LaunchGoesOn DEF PollInv
  <2>3. /\ cache' = Started(u) /\ UNCHANGED visit
        /\ said' = Say("processing", u, None)
    BY <1>3 DEF Refresh
  <2>4. \A w \in Urls : cache'[w].status = "processing" => w \in Underway'
    BY <2>1, <2>3, StartedPolls
  <2>5. NoContinuation
    BY <1>3 DEF Refresh
  <2> QED BY <2>2, <2>3, <2>4, <2>5, QuietAnswer, PollFrame DEF ErrorsStay, Settling
<1> QED BY <1>1, <1>2, <1>3 DEF Request

\* Index loads keep the invariant: what they find is never processing.
LEMMA LoadPolls ==
  ASSUME PollInv, Types', NEW u \in Urls, LoadReads(u) \/ LoadLands(u) PROVE PollInv'
<1>1. FillsGoOn /\ said' = Silence
  BY DEF LoadReads, LoadLands, FillsGoOn
<1>2. CASE LoadReads(u)
  BY <1>1, <1>2, QuietAnswer, PollFrame DEF LoadReads, ErrorsStay
<1>3. CASE LoadLands(u)
  <2>1. PICK entry \in {Blank} \cup {Ready(n) : n \in Names} :
          /\ cache' = IF entry = Blank THEN cache ELSE [cache EXCEPT ![u] = entry]
          /\ visit' = [v \in Visitors |->
                         IF v \in Joined(u) THEN [visit[v] EXCEPT !.pc = "resumed", !.entry = entry]
                         ELSE visit[v]]
    BY <1>3 DEF LoadLands
  <2>2. entry.status # "processing"
    BY EntryFields
  <2>3. \A w \in Urls : cache'[w].status = "processing" => cache[w].status = "processing"
    BY <2>1, <2>2 DEF PollInv, Types
  <2>4. ASSUME NEW v \in Visitors, visit'[v].entry.status = "processing"
        PROVE  visit'[v] = visit[v]
    <3>1. [visit[v] EXCEPT !.pc = "resumed", !.entry = entry].entry = entry
      BY DEF PollInv, Types, VisitSet, VisitStates
    <3> QED BY <2>1, <2>2, <2>4, <3>1
  <2>5. NoContinuation
    BY <1>3 DEF LoadLands
  <2> QED BY <1>1, <2>3, <2>4, <2>5, QuietAnswer, PollFrame DEF ErrorsStay
<1> QED BY <1>2, <1>3

\* Time, losses and crashes keep the invariant.
LEMMA EnvironmentPolls == ASSUME PollInv, Types', Environment PROVE PollInv'
<1>1. ASSUME NEW u \in Urls, AgeError(u) PROVE PollInv'
  <2>1. FillsGoOn /\ UNCHANGED visit /\ said' = Silence
    BY <1>1 DEF AgeError, FillsGoOn
  <2>2. \A w \in Urls : /\ cache'[w].status = "processing" => cache[w].status = "processing"
                        /\ cache[w].status = "error" => cache'[w].status = "error"
    BY <1>1, EntryFields DEF AgeError, PollInv, Types
  <2> QED BY <2>1, <2>2, QuietAnswer, PollFrame DEF ErrorsStay
<1>2. ASSUME \/ \E u \in Urls, kind \in Losable : Lose(u, kind)
             \/ \E w \in late : LateLands(w)
      PROVE  PollInv'
  <2>1. FillsGoOn /\ UNCHANGED <<cache, visit>> /\ said' = Silence
    BY <1>2 DEF Lose, LateLands, FillsGoOn
  <2> QED BY <2>1, QuietAnswer, PollFrame DEF ErrorsStay
<1>3. ASSUME Crash PROVE PollInv'
  <2>1. \A u \in Urls : cache'[u].status # "processing"
    BY <1>3, EntryFields DEF Crash
  <2>2. \A v \in Visitors : visit'[v].pc # "resumed"
    BY <1>3 DEF Crash, Away
  <2>3. said'.what # "processing"
    BY <1>3, QuietAnswer DEF Crash
  <2> QED BY <2>1, <2>2, <2>3 DEF PollInv, EntriesKnow, VisitsKnow, AnswersKnow
<1> QED BY <1>1, <1>2, <1>3 DEF Environment

\* The invariant holds in a new process.
LEMMA PollInit == Init => PollInv
<1> SUFFICES ASSUME Init PROVE PollInv
  OBVIOUS
<1>1. EntriesKnow
  BY EntryFields DEF Init, EntriesKnow
<1>2. VisitsKnow
  BY DEF Init, VisitsKnow, Away
<1>3. AnswersKnow
  BY QuietAnswer DEF Init, AnswersKnow
<1> QED BY <1>1, <1>2, <1>3, InitType DEF PollInv

\* Every step keeps the invariant.
LEMMA PollStep == PollInv /\ [Next]_vars => PollInv'
<1> SUFFICES ASSUME PollInv, [Next]_vars PROVE PollInv'
  OBVIOUS
<1>1. Types'
  BY StepType DEF PollInv
<1>2. CASE Request
  BY <1>1, <1>2, RequestPolls
<1>3. ASSUME NEW u \in Urls, LoadReads(u) \/ LoadLands(u) PROVE PollInv'
  BY <1>1, <1>3, LoadPolls
<1>4. ASSUME NEW v \in Visitors, Handle(v) PROVE PollInv'
  BY <1>1, <1>4, HandlePolls
<1>5. ASSUME NEW f \in Fills, Download(f) PROVE PollInv'
  BY <1>1, <1>5, DownloadPolls
<1>6. CASE Environment
  BY <1>1, <1>6, EnvironmentPolls
<1>7. CASE UNCHANGED vars
  BY <1>1, <1>7 DEF vars, PollInv, EntriesKnow, VisitsKnow, AnswersKnow, Underway, Settling
<1> QED BY <1>2, <1>3, <1>4, <1>5, <1>6, <1>7 DEF Next

\* Whatever the storage does, with any number of requests, batches, refreshes
\* and crashes, and whether or not a route is active: a URL shown as processing
\* has a download that runs, and for who is answered 503 "processing" either a
\* download runs at that moment or its failure is what the next poll will find.
THEOREM PollersHaveFills == Spec => [](ProcessingHasFill /\ PollNotInVain)
<1>1. Spec => []PollInv
  BY PollInit, PollStep, PTL DEF Spec
<1> QED BY <1>1, PollInvImplies, PTL

-----------------------------------------------------------------------------
(***************************************************************************)
(* What names an object names one that is there: a whole one, and indexed, *)
(* where writes take effect at once; elsewhere it may be torn. The         *)
(* operators below take the stored objects as an argument: objects only    *)
(* grow, so that what was safe before a write is safe after it.            *)
(***************************************************************************)
Present == IF AtomicWrites THEN {Whole} ELSE {Torn, Whole}
Indexed(st, u) == AtomicWrites => st[u]["index"] \in Names

IndexSafe(st) == \A u \in Urls : st[u]["index"] \in Names => st[u][st[u]["index"]] \in Present
NameSafe(st, u, n) == n \in Names => st[u][n] \in Present /\ Indexed(st, u)
EntrySafe(st, u, e) == e.status = "ready" => st[u][e.names] \in Present /\ Indexed(st, u)
VisitSafe(st, x) == x.pc # "idle" => EntrySafe(st, x.url, x.entry)
FillSafe(st, x) ==
  /\ x.pc \notin Kinds => x.write = "sent"
  /\ x.pc \in {"transform", "processed"} => x.png = TRUE
  /\ x.pc \in Names /\ x.write = "landed" => st[x.url][x.pc] \in Present
  /\ x.pc = "index" => st[x.url][IF x.png THEN "processed" ELSE "source"] \in Present
  /\ x.pc = "index" /\ x.write = "landed" => Indexed(st, x.url)
LateSafe(st, w) ==
  /\ w.kind \in Names => w.object = Whole
  /\ w.kind = "index" => w.object \in Names /\ st[w.url][w.object] \in Present
AnswerSafe(st, a) == a.what \in {"bytes", "redirect"} => st[a.url][a.names] \in Present

WholeInv ==
  /\ Types
  /\ IndexSafe(stored)
  /\ \A u \in Urls : NameSafe(stored, u, pending[u]) /\ EntrySafe(stored, u, cache[u])
  /\ \A v \in Visitors : VisitSafe(stored, visit[v])
  /\ \A f \in Fills : FillSafe(stored, fill[f])
  /\ \A w \in late : LateSafe(stored, w)
  /\ AnswerSafe(stored, said)

\* A present object is there, and whole where writes are atomic.
LEMMA PresentFacts ==
  /\ Whole \in Present /\ None \notin Present
  /\ AtomicWrites = TRUE => Present = {Whole}
  /\ AtomicWrites = FALSE => Present = {Torn, Whole}
BY FillAssumption DEF Present

\* The invariant implies the properties.
LEMMA WholeInvImplies ==
  /\ WholeInv => RedirectToStored
  /\ AtomicWrites = TRUE /\ WholeInv => PointersWhole /\ ReadyIsIndexed /\ ServesWhole
BY PresentFacts
   DEF WholeInv, IndexSafe, NameSafe, EntrySafe, Indexed, AnswerSafe, PointersWhole, ReadyIsIndexed,
       ServesWhole, RedirectToStored

\* No object is lost and, where writes are atomic, no URL leaves the index.
Grows(st, new) ==
  \A u \in Urls : /\ \A n \in Names : st[u][n] \in Present => new[u][n] \in Present
                  /\ Indexed(st, u) => Indexed(new, u)

LEMMA SafeGrows ==
  ASSUME NEW st, NEW new, Grows(st, new), NEW u \in Urls
  PROVE  /\ \A n : NameSafe(st, u, n) => NameSafe(new, u, n)
         /\ \A e \in Entries : EntrySafe(st, u, e) => EntrySafe(new, u, e)
<1>1. ASSUME NEW n, NameSafe(st, u, n) PROVE NameSafe(new, u, n)
  BY <1>1 DEF NameSafe, Grows
<1>2. ASSUME NEW e \in Entries, EntrySafe(st, u, e) PROVE EntrySafe(new, u, e)
  BY <1>2, ReadyNames DEF EntrySafe, Grows
<1> QED BY <1>1, <1>2

LEMMA FillGrows ==
  ASSUME NEW st, NEW new, Grows(st, new), NEW x \in FillSet, FillSafe(st, x)
  PROVE  FillSafe(new, x)
<1>1. CASE x.pc \in Kinds
  <2>1. x.url \in Urls
    BY <1>1 DEF FillSet, Kinds
  <2>2. (IF x.png THEN "processed" ELSE "source") \in Names
    BY DEF Names
  <2> QED BY <2>1, <2>2 DEF FillSafe, Grows
<1>2. CASE x.pc \notin Kinds
  BY <1>2 DEF FillSafe, Kinds, Names
<1> QED BY <1>1, <1>2

\* What a step owes: objects grow, and what it sets is safe.
LEMMA WholeFrame ==
  ASSUME WholeInv, Types', Grows(stored, stored'), IndexSafe(stored'),
         \A u \in Urls : pending'[u] = pending[u] \/ NameSafe(stored', u, pending'[u]),
         \A u \in Urls : cache'[u] = cache[u] \/ EntrySafe(stored', u, cache'[u]),
         \A v \in Visitors : visit'[v] = visit[v] \/ VisitSafe(stored', visit'[v]),
         \A f \in Fills : fill'[f] = fill[f] \/ FillSafe(stored', fill'[f]),
         \A w \in late' : w \in late \/ LateSafe(stored', w),
         AnswerSafe(stored', said')
  PROVE  WholeInv'
<1>1. \A u \in Urls : NameSafe(stored', u, pending'[u])
  BY SafeGrows DEF WholeInv
<1>2. \A u \in Urls : EntrySafe(stored', u, cache'[u])
  BY SafeGrows DEF WholeInv, Types
<1>3. ASSUME NEW v \in Visitors PROVE VisitSafe(stored', visit'[v])
  <2>1. CASE visit'[v] = visit[v]
    <3>1. CASE visit[v].pc # "idle"
      <4>1. visit[v].url \in Urls /\ visit[v].entry \in Entries
        BY <3>1, BusyVisit DEF WholeInv
      <4>2. EntrySafe(stored, visit[v].url, visit[v].entry)
        BY <3>1 DEF WholeInv, VisitSafe
      <4>3. EntrySafe(stored', visit[v].url, visit[v].entry)
        BY <4>1, <4>2, SafeGrows
      <4> QED BY <2>1, <4>3 DEF VisitSafe
    <3>2. CASE visit[v].pc = "idle"
      BY <2>1, <3>2 DEF VisitSafe
    <3> QED BY <3>1, <3>2
  <2> QED BY <1>3, <2>1
<1>4. \A f \in Fills : FillSafe(stored', fill'[f])
  BY FillGrows DEF WholeInv, Types
<1>5. ASSUME NEW w \in late' PROVE LateSafe(stored', w)
  <2>1. CASE w \in late
    <3>1. LateSafe(stored, w) /\ w.url \in Urls
      BY <2>1 DEF WholeInv, Types, Held
    <3> QED BY <3>1 DEF LateSafe, Grows
  <2> QED BY <1>5, <2>1
<1> QED BY <1>1, <1>2, <1>3, <1>4, <1>5 DEF WholeInv

\* Objects as they are have not shrunk.
LEMMA SameGrows == Grows(stored, stored)
BY DEF Grows

\* What a handler decides on is safe.
LEMMA FoundSafe ==
  ASSUME WholeInv, NEW v \in Visitors, visit[v].pc # "idle"
  PROVE  EntrySafe(stored, visit[v].url, Found(v))
<1>1. visit[v].url \in Urls
  BY BusyVisit DEF WholeInv
<1>2. EntrySafe(stored, visit[v].url, cache[visit[v].url])
  BY <1>1 DEF WholeInv
<1>3. EntrySafe(stored, visit[v].url, visit[v].entry)
  BY DEF WholeInv, VisitSafe
<1> QED BY <1>2, <1>3 DEF Found

\* A step that leaves the storage and the downloads' writes alone: only what
\* it puts into the memory is at stake.
LEMMA QuietWhole ==
  ASSUME WholeInv, Types', UNCHANGED <<stored, late>>,
         \A u \in Urls : pending'[u] = pending[u] \/ NameSafe(stored, u, pending'[u]),
         \A u \in Urls : cache'[u] = cache[u] \/ EntrySafe(stored, u, cache'[u]),
         \A v \in Visitors : visit'[v] = visit[v] \/ VisitSafe(stored, visit'[v]),
         \A f \in Fills : fill'[f] = fill[f] \/ FillSafe(stored, fill'[f]),
         AnswerSafe(stored, said')
  PROVE  WholeInv'
<1>1. Grows(stored, stored') /\ IndexSafe(stored') /\ stored' = stored /\ late' = late
  BY SameGrows DEF WholeInv
<1> QED BY <1>1, WholeFrame

\* The last step of a handler.
LEMMA FinishWhole ==
  ASSUME WholeInv, Types', UNCHANGED <<stored, late>>,
         NEW v \in Visitors, NEW c \in [Urls -> Entries], NEW a, Finish(v, c, a),
         \A u \in Urls : c[u] = cache[u] \/ EntrySafe(stored, u, c[u]),
         \A f \in Fills : fill'[f] = fill[f] \/ FillSafe(stored, fill'[f]),
         AnswerSafe(stored, a)
  PROVE  WholeInv'
<1>1. \A u \in Urls : EntrySafe(stored, u, c[u])
  BY DEF WholeInv
<1>2. cache' = c /\ said' = a
  BY DEF Finish
<1>3. /\ \A u \in Urls : pending'[u] = pending[u] \/ NameSafe(stored, u, pending'[u])
      /\ \A x \in Visitors : visit'[x] = visit[x] \/ VisitSafe(stored, visit'[x])
  <2>1. CASE v \in Workers /\ todo # <<>>
    <3>1. Head(todo) \in Urls
      BY <2>1 DEF WholeInv, Types
    <3>2. visit' = [visit EXCEPT ![v] = Looking(c, Head(todo))] /\ pending' = Asked(c, Head(todo))
      BY <2>1 DEF Finish
    <3>3. VisitSafe(stored, Looking(c, Head(todo)))
      BY <1>1, <3>1, LookingType DEF VisitSafe
    <3>4. \A u \in Urls : Asked(c, Head(todo))[u] \in {pending[u], "asked"}
      BY <3>1 DEF Asked, WholeInv, Types
    <3>5. \A u \in Urls : NameSafe(stored, u, "asked")
      BY DEF NameSafe, Names
    <3>6. visit \in [Visitors -> VisitSet]
      BY DEF WholeInv, Types
    <3>7. \A x \in Visitors : visit'[x] = visit[x] \/ visit'[x] = Looking(c, Head(todo))
      BY <3>2, <3>6
    <3> QED BY <3>2, <3>3, <3>4, <3>5, <3>7
  <2>2. CASE ~(v \in Workers /\ todo # <<>>)
    <3>1. visit' = [visit EXCEPT ![v] = Away] /\ pending' = pending
      BY <2>2 DEF Finish
    <3>2. VisitSafe(stored, Away)
      BY DEF VisitSafe, Away
    <3>3. visit \in [Visitors -> VisitSet]
      BY DEF WholeInv, Types
    <3>4. \A x \in Visitors : visit'[x] = visit[x] \/ visit'[x] = Away
      BY <3>1, <3>3
    <3> QED BY <3>1, <3>2, <3>4
  <2> QED BY <2>1, <2>2
<1> QED BY <1>1, <1>2, <1>3, QuietWhole

\* Only bytes and redirects are answered from an object.
LEMMA SaySafe ==
  /\ AnswerSafe(stored, Silence)
  /\ \A u, n : /\ AnswerSafe(stored, Say("processing", u, n)) /\ AnswerSafe(stored, Say("error", u, n))
               /\ AnswerSafe(stored, Say("ready", u, n))
BY DEF AnswerSafe, Say, Silence

\* Only a ready entry names an object.
LEMMA PlainSafe ==
  \A u : /\ EntrySafe(stored, u, Blank) /\ EntrySafe(stored, u, Failed) /\ EntrySafe(stored, u, Stale)
         /\ \A p : EntrySafe(stored, u, Processing(p))
BY EntryFields DEF EntrySafe

\* A download that starts has written nothing, and its entry names nothing.
LEMMA StartWhole ==
  ASSUME WholeInv, NEW u \in Urls, \E f \in Free : Launch(f, u)
  PROVE  /\ \A x \in Urls : Started(u)[x] = cache[x] \/ EntrySafe(stored, x, Started(u)[x])
         /\ \A g \in Fills : fill'[g] = fill[g] \/ FillSafe(stored, fill'[g])
<1>1. cache \in [Urls -> Entries] /\ fill \in [Fills -> FillSet]
  BY DEF WholeInv, Types
<1>2. \A x \in Urls : Started(u)[x] = cache[x] \/ Started(u)[x] = Processing("queued")
  BY <1>1 DEF Started
<1>3. PICK f \in Free, pc \in {"acquire", "refused"} : fill' = [fill EXCEPT ![f] = At(pc, u)]
  BY DEF Launch
<1>4. \A g \in Fills : fill'[g] = fill[g] \/ fill'[g] = At(pc, u)
  BY <1>1, <1>3
<1>5. FillSafe(stored, At(pc, u))
  BY DEF FillSafe, At, Kinds, Names
<1> QED BY <1>2, <1>4, <1>5, PlainSafe

\* Requests only look.
LEMMA RequestWhole == ASSUME WholeInv, Types', Request PROVE WholeInv'
<1>1. cache \in [Urls -> Entries] /\ pending \in [Urls -> Loading] /\ visit \in [Visitors -> VisitSet]
  BY DEF WholeInv, Types
<1>2. \A u \in Urls : VisitSafe(stored, Looking(cache, u))
  BY <1>1, LookingType DEF WholeInv, VisitSafe
<1>3. \A u, x \in Urls : Asked(cache, u)[x] \in {pending[x], "asked"}
  BY <1>1 DEF Asked
<1>4. \A u \in Urls : NameSafe(stored, u, "asked")
  BY DEF NameSafe, Names
<1>5. ASSUME NEW v \in Clients, NEW u \in Urls, Visit(v, u) PROVE WholeInv'
  <2>1. \A x \in Visitors : visit'[x] = visit[x] \/ visit'[x] = Looking(cache, u)
    BY <1>1, <1>5 DEF Visit, Visitors
  <2>2. pending' = Asked(cache, u) /\ said' = Silence /\ UNCHANGED <<cache, fill, stored, late>>
    BY <1>5 DEF Visit
  <2>3. \A x \in Urls : pending'[x] = pending[x] \/ NameSafe(stored, x, pending'[x])
    BY <1>3, <1>4, <2>2
  <2>4. \A x \in Visitors : visit'[x] = visit[x] \/ VisitSafe(stored, visit'[x])
    BY <1>2, <2>1
  <2> QED BY <2>2, <2>3, <2>4, SaySafe, QuietWhole
<1>6. ASSUME NEW urls \in Batches, Batch(urls) PROVE WholeInv'
  <2>1. urls \in Seq(Urls)
    BY FillAssumption
  <2>2. PICK first \in [Workers -> 1..Cardinality(Workers)] :
          /\ visit' = [v \in Visitors |->
                         IF v \in Workers /\ first[v] <= Len(urls) THEN Looking(cache, urls[first[v]])
                         ELSE visit[v]]
          /\ pending' = [u \in Urls |->
                           IF u \in {urls[first[w]] : w \in {x \in Workers : first[x] <= Len(urls)}}
                             THEN Asked(cache, u)[u] ELSE pending[u]]
    BY <1>6 DEF Batch
  <2>3. ASSUME NEW v \in Visitors PROVE visit'[v] = visit[v] \/ VisitSafe(stored, visit'[v])
    <3>1. CASE v \in Workers /\ first[v] <= Len(urls)
      <4>1. Cardinality(Workers) \in Nat
        BY FillAssumption, FS_CardinalityType
      <4>2. first[v] \in 1..Cardinality(Workers)
        BY <3>1
      <4>3. first[v] \in 1..Len(urls)
        BY <2>1, <3>1, <4>1, <4>2
      <4>4. urls[first[v]] \in Urls
        BY <2>1, <4>3
      <4> QED BY <1>2, <2>2, <3>1, <4>4
    <3>2. CASE ~(v \in Workers /\ first[v] <= Len(urls))
      BY <2>2, <3>2
    <3> QED BY <3>1, <3>2
  <2>4. \A u \in Urls : pending'[u] = pending[u] \/ NameSafe(stored, u, pending'[u])
    BY <1>3, <1>4, <2>2
  <2>5. said' = Silence /\ UNCHANGED <<cache, fill, stored, late>>
    BY <1>6 DEF Batch
  <2> QED BY <2>3, <2>4, <2>5, SaySafe, QuietWhole
<1>7. ASSUME NEW u \in Urls, Refresh(u) PROVE WholeInv'
  <2>1. /\ cache' = Started(u) /\ said' = Say("processing", u, None)
        /\ UNCHANGED <<pending, visit, stored, late>> /\ \E f \in Free : Launch(f, u)
    BY <1>7 DEF Refresh
  <2> QED BY <2>1, StartWhole, SaySafe, QuietWhole
<1> QED BY <1>5, <1>6, <1>7 DEF Request

\* A load reads what the index names, and lands what it read.
LEMMA LoadWhole ==
  ASSUME WholeInv, Types', NEW u \in Urls, LoadReads(u) \/ LoadLands(u)
  PROVE  WholeInv'
<1>1. /\ cache \in [Urls -> Entries] /\ pending \in [Urls -> Loading] /\ visit \in [Visitors -> VisitSet]
  BY DEF WholeInv, Types
<1>2. CASE LoadReads(u)
  <2>1. PICK found \in {stored[u]["index"], None} :
          pending' = [pending EXCEPT ![u] = IF found \in Names THEN found ELSE "missed"]
    BY <1>2 DEF LoadReads
  <2>2. None \notin Names /\ "missed" \notin Names
    BY FillAssumption DEF Kinds, Names
  <2>3. NameSafe(stored, u, IF found \in Names THEN found ELSE "missed")
    BY <2>1, <2>2 DEF WholeInv, IndexSafe, NameSafe, Indexed
  <2>4. \A x \in Urls : pending'[x] = pending[x] \/ NameSafe(stored, x, pending'[x])
    BY <1>1, <2>1, <2>3
  <2>5. said' = Silence /\ UNCHANGED <<cache, visit, fill, stored, late>>
    BY <1>2 DEF LoadReads
  <2> QED BY <2>4, <2>5, SaySafe, QuietWhole
<1>3. CASE LoadLands(u)
  <2> DEFINE entry == IF pending[u] \in Names THEN Ready(pending[u]) ELSE Blank
  <2>1. EntrySafe(stored, u, entry)
    <3>1. NameSafe(stored, u, pending[u])
      BY DEF WholeInv
    <3> QED BY <3>1, EntryFields, PlainSafe DEF EntrySafe, NameSafe
  <2>2. /\ cache' = IF entry = Blank THEN cache ELSE [cache EXCEPT ![u] = entry]
        /\ visit' = [v \in Visitors |->
                       IF v \in Joined(u) THEN [visit[v] EXCEPT !.pc = "resumed", !.entry = entry]
                       ELSE visit[v]]
        /\ pending' = [pending EXCEPT ![u] = "idle"]
        /\ said' = Silence /\ UNCHANGED <<fill, stored, late>>
    BY <1>3 DEF LoadLands
  <2> HIDE DEF entry
  <2>3. \A x \in Urls : cache'[x] = cache[x] \/ EntrySafe(stored, x, cache'[x])
    BY <1>1, <2>1, <2>2
  <2>4. ASSUME NEW v \in Visitors PROVE visit'[v] = visit[v] \/ VisitSafe(stored, visit'[v])
    <3>1. CASE v \in Joined(u)
      <4>1. visit'[v].url = u /\ visit'[v].entry = entry
        BY <1>1, <2>2, <3>1 DEF Joined, VisitSet, VisitStates
      <4> QED BY <2>1, <4>1 DEF VisitSafe
    <3>2. CASE v \notin Joined(u)
      BY <2>2, <3>2
    <3> QED BY <3>1, <3>2
  <2>5. NameSafe(stored, u, "idle")
    BY DEF NameSafe, Names
  <2>6. \A x \in Urls : pending'[x] = pending[x] \/ NameSafe(stored, x, pending'[x])
    BY <1>1, <2>2, <2>5
  <2> QED BY <2>2, <2>3, <2>4, <2>6, SaySafe, QuietWhole
<1> QED BY <1>2, <1>3

\* A handler answers from a safe entry, or starts a download.
LEMMA HandleWhole == ASSUME WholeInv, Types', NEW v \in Visitors, Handle(v) PROVE WholeInv'
<1>1. visit[v].pc # "idle"
  BY DEF Handle, ServeReady, ReportReady, ReportRunning, ReportError, StartFill, OfferRedirect,
         NoRedirect, Stream, ReadFails
<1>2. visit[v].url \in Urls /\ visit[v] \in VisitSet /\ VisitSafe(stored, visit[v])
  BY <1>1, BusyVisit DEF WholeInv, Types
<1>3. visit \in [Visitors -> VisitSet] /\ cache \in [Urls -> Entries]
  BY DEF WholeInv, Types
<1>4. ASSUME NEW x, VisitSafe(stored, x), visit' = [visit EXCEPT ![v] = x], said' = Silence,
             UNCHANGED <<cache, pending, fill, stored, late>>
      PROVE  WholeInv'
  <2>1. \A y \in Visitors : visit'[y] = visit[y] \/ visit'[y] = x
    BY <1>3, <1>4
  <2> QED BY <1>4, <2>1, SaySafe, QuietWhole
<1>5. ASSUME NEW a, AnswerSafe(stored, a), Finish(v, cache, a), UNCHANGED <<fill, stored, late>>
      PROVE  WholeInv'
  BY <1>3, <1>5, FinishWhole
<1>6. ASSUME \E f \in Free : Launch(f, visit[v].url), UNCHANGED <<stored, late>>,
             Finish(v, Started(visit[v].url), Say("processing", visit[v].url, None))
      PROVE  WholeInv'
  <2>1. Started(visit[v].url) \in [Urls -> Entries]
    BY <1>2, StartedType DEF WholeInv
  <2> QED BY <1>2, <1>6, <2>1, StartWhole, SaySafe, FinishWhole
<1>7. ASSUME ServeReady(v) PROVE WholeInv'
  <2> DEFINE x == [visit[v] EXCEPT !.pc = IF Redirects THEN "redirect" ELSE "read", !.entry = Found(v)]
  <2>1. x.url = visit[v].url /\ x.entry = Found(v)
    BY <1>2 DEF VisitSet, VisitStates
  <2>2. VisitSafe(stored, x)
    BY <1>1, <2>1, FoundSafe DEF VisitSafe
  <2>3. /\ visit' = [visit EXCEPT ![v] = x] /\ said' = Silence
        /\ UNCHANGED <<cache, pending, fill, stored, late>>
    BY <1>7 DEF ServeReady
  <2> HIDE DEF x
  <2> QED BY <1>4, <2>2, <2>3
<1>8. ASSUME ReportReady(v) PROVE WholeInv'
  BY <1>5, <1>8, SaySafe DEF ReportReady
<1>9. ASSUME ReportRunning(v) PROVE WholeInv'
  BY <1>5, <1>9, SaySafe DEF ReportRunning
<1>10. ASSUME ReportError(v) PROVE WholeInv'
  BY <1>5, <1>10, SaySafe DEF ReportError
<1>11. ASSUME StartFill(v) PROVE WholeInv'
  BY <1>6, <1>11 DEF StartFill
<1>12. ASSUME OfferRedirect(v) PROVE WholeInv'
  <2>1. visit[v].entry.status = "ready"
    BY <1>2, <1>12 DEF OfferRedirect, VisitSet
  <2>2. AnswerSafe(stored, Say("redirect", visit[v].url, visit[v].entry.names))
    BY <1>1, <1>2, <2>1 DEF VisitSafe, EntrySafe, AnswerSafe, Say
  <2> QED BY <1>5, <1>12, <2>2 DEF OfferRedirect
<1>13. ASSUME NoRedirect(v) PROVE WholeInv'
  <2> DEFINE x == [visit[v] EXCEPT !.pc = "read"]
  <2>1. x.url = visit[v].url /\ x.entry = visit[v].entry
    BY <1>2 DEF VisitSet, VisitStates
  <2>2. VisitSafe(stored, x)
    BY <1>1, <1>2, <2>1 DEF VisitSafe
  <2>3. /\ visit' = [visit EXCEPT ![v] = x] /\ said' = Silence
        /\ UNCHANGED <<cache, pending, fill, stored, late>>
    BY <1>3, <1>13 DEF NoRedirect
  <2> HIDE DEF x
  <2> QED BY <1>4, <2>2, <2>3
<1>14. ASSUME Stream(v) PROVE WholeInv'
  <2>1. visit[v].entry.status = "ready"
    BY <1>2, <1>14 DEF Stream, VisitSet
  <2>2. AnswerSafe(stored, Say("bytes", visit[v].url, visit[v].entry.names))
    BY <1>1, <1>2, <2>1 DEF VisitSafe, EntrySafe, AnswerSafe, Say
  <2> QED BY <1>5, <1>14, <2>2 DEF Stream
<1>15. ASSUME ReadFails(v) PROVE WholeInv'
  BY <1>6, <1>15 DEF ReadFails, Refetch
<1> QED BY <1>7, <1>8, <1>9, <1>10, <1>11, <1>12, <1>13, <1>14, <1>15 DEF Handle

\* A download that moves on, its write behind it.
LEMMA MoveWhole ==
  ASSUME WholeInv, Types', NEW f \in Fills, NEW x, FillSafe(stored, x), fill' = [fill EXCEPT ![f] = x],
         NEW e, cache' = [cache EXCEPT ![fill[f].url] = e] \/ cache' = cache,
         EntrySafe(stored, fill[f].url, e),
         said' = Silence, UNCHANGED <<pending, visit, stored, late>>
  PROVE  WholeInv'
<1>1. cache \in [Urls -> Entries] /\ fill \in [Fills -> FillSet]
  BY DEF WholeInv, Types
<1>2. \A g \in Fills : fill'[g] = fill[g] \/ fill'[g] = x
  BY <1>1
<1>3. \A u \in Urls : cache'[u] = cache[u] \/ (u = fill[f].url /\ cache'[u] = e)
  BY <1>1
<1> QED BY <1>2, <1>3, SaySafe, QuietWhole

\* A write into an object: of a source or processed object a present one, into
\* the index a name of a present one or, where writes are not atomic, a torn one.
LEMMA WriteGrows ==
  ASSUME WholeInv, NEW u \in Urls, NEW k \in Kinds, NEW object,
         stored' = [stored EXCEPT ![u][k] = object],
         k \in Names => object \in Present,
         k = "index" => \/ object \in Names /\ stored[u][object] \in Present
                        \/ object = Torn /\ AtomicWrites = FALSE
  PROVE  Grows(stored, stored') /\ IndexSafe(stored')
<1>1. stored \in [Urls -> [Kinds -> Contents]]
  BY DEF WholeInv, Types
<1>2. \A y \in Urls, n \in Kinds : stored'[y][n] = IF y = u /\ n = k THEN object ELSE stored[y][n]
  BY <1>1
<1>3. Names \subseteq Kinds /\ "index" \in Kinds /\ "index" \notin Names /\ Kinds = Names \cup {"index"}
  BY DEF Names, Kinds
<1>4. Torn \notin Names /\ AtomicWrites \in BOOLEAN
  BY FillAssumption
<1>5. ASSUME NEW y \in Urls PROVE /\ \A n \in Names : stored[y][n] \in Present => stored'[y][n] \in Present
                                  /\ Indexed(stored, y) => Indexed(stored', y)
  <2>1. \A n \in Names : stored[y][n] \in Present => stored'[y][n] \in Present
    BY <1>2, <1>3
  <2>2. CASE k = "index" /\ y = u
    BY <1>2, <1>3, <1>4, <2>2 DEF Indexed
  <2>3. CASE ~(k = "index" /\ y = u)
    BY <1>2, <1>3, <2>3 DEF Indexed
  <2> QED BY <2>1, <2>2, <2>3
<1>6. ASSUME NEW y \in Urls, stored'[y]["index"] \in Names
      PROVE  stored'[y][stored'[y]["index"]] \in Present
  <2>1. CASE k = "index" /\ y = u
    BY <1>2, <1>3, <1>4, <1>5, <1>6, <2>1
  <2>2. CASE ~(k = "index" /\ y = u)
    BY <1>2, <1>3, <1>5, <1>6, <2>2 DEF WholeInv, IndexSafe
  <2> QED BY <2>1, <2>2
<1> QED BY <1>5, <1>6 DEF Grows, IndexSafe

\* A write that begins empties the file, and those under way are disturbed.
LEMMA BeginWhole ==
  ASSUME WholeInv, Types', NEW f \in Fills, WriteBegins(f)
  PROVE  WholeInv'
<1>1. fill \in [Fills -> FillSet] /\ FillSafe(stored, fill[f])
  BY DEF WholeInv, Types
<1>2. fill[f].url \in Urls /\ fill[f].pc \in Kinds /\ AtomicWrites = FALSE
  BY <1>1, FillAssumption DEF WriteBegins, FillSet, Kinds
<1>3. Torn \in Present
  BY <1>2, PresentFacts
<1>4. stored' = [stored EXCEPT ![fill[f].url][fill[f].pc] = Torn]
  BY DEF WriteBegins
<1>5. Grows(stored, stored') /\ IndexSafe(stored')
  BY <1>2, <1>3, <1>4, WriteGrows
<1>6. ASSUME NEW g \in Fills PROVE fill'[g] = fill[g] \/ FillSafe(stored', fill'[g])
  <2>1. fill[g] \in FillSet /\ FillSafe(stored, fill[g])
    BY <1>1 DEF WholeInv
  <2>2. FillSafe(stored', fill[g])
    BY <1>5, <2>1, FillGrows
  <2>3. CASE fill'[g] = [fill[g] EXCEPT !.write = "begun"] \/ fill'[g] = [fill[g] EXCEPT !.write = "mixed"]
    <3>1. CASE fill'[g] = fill[g]
      BY <3>1
    <3>2. CASE fill[g].pc \in Kinds
      <4>1. /\ fill'[g].pc = fill[g].pc /\ fill'[g].url = fill[g].url /\ fill'[g].png = fill[g].png
            /\ fill'[g].write # "landed"
        BY <2>1, <2>3 DEF FillSet, FillStates
      <4> QED BY <2>2, <3>2, <4>1 DEF FillSafe
    <3>3. CASE fill'[g] # fill[g] /\ fill[g].pc \notin Kinds
      BY <1>2, <2>1, <3>3 DEF WriteBegins, Rivals, FillSafe
    <3> QED BY <3>1, <3>2, <3>3
  <2>4. CASE fill'[g] = fill[g]
    BY <2>4
  <2> QED BY <2>3, <2>4 DEF WriteBegins
<1>7. said' = Silence /\ UNCHANGED <<cache, pending, visit, late>>
  BY DEF WriteBegins
<1>8. AnswerSafe(stored', Silence)
  BY DEF AnswerSafe, Silence
<1> QED BY <1>5, <1>6, <1>7, <1>8, WholeFrame

\* A write that lands leaves a present object, and an index that names one.
LEMMA LandWhole ==
  ASSUME WholeInv, Types', NEW f \in Fills, WriteLands(f)
  PROVE  WholeInv'
<1>1. fill \in [Fills -> FillSet] /\ stored \in [Urls -> [Kinds -> Contents]] /\ FillSafe(stored, fill[f])
  BY DEF WholeInv, Types
<1>2. PICK u \in Urls, k \in Kinds : fill[f].url = u /\ fill[f].pc = k
  BY <1>1 DEF WriteLands, FillSet, Kinds
<1>3. PICK object \in {Object(f)} \cup (IF fill[f].write = "mixed" THEN {Torn} ELSE {}) :
        stored' = [stored EXCEPT ![u][k] = object]
  BY <1>2 DEF WriteLands
<1>4. object = Object(f) \/ (object = Torn /\ AtomicWrites = FALSE)
  BY <1>3, FillAssumption DEF WriteLands
<1>5. k \in Names => Object(f) = Whole
  BY <1>2 DEF Object, Names
<1>6. k = "index" => Object(f) \in Names /\ stored[u][Object(f)] \in Present
  BY <1>1, <1>2 DEF Object, Target, Names, FillSafe
<1>7. k \in Names => object \in Present
  BY <1>4, <1>5, PresentFacts
<1>8. Grows(stored, stored') /\ IndexSafe(stored')
  BY <1>3, <1>4, <1>6, <1>7, WriteGrows
<1>9. stored'[u][k] = object
  BY <1>1, <1>2, <1>3 DEF Contents
<1>10. fill' = [fill EXCEPT ![f] = [fill[f] EXCEPT !.write = "landed"]]
  BY <1>1 DEF WriteLands
<1>11. FillSafe(stored', [fill[f] EXCEPT !.write = "landed"])
  <2>1. fill[f] \in FillSet /\ fill[f].pc = k /\ fill[f].url = u
    BY <1>1, <1>2
  <2>2. FillSafe(stored', fill[f])
    BY <1>1, <1>8, <2>1, FillGrows
  <2>3. k \in Names => stored'[u][k] \in Present
    BY <1>7, <1>9
  <2>4. k = "index" => Indexed(stored', u)
    BY <1>4, <1>6, <1>9, FillAssumption DEF Indexed
  <2>5. DEFINE x == [fill[f] EXCEPT !.write = "landed"]
  <2>6. x.pc = k /\ x.url = u /\ x.png = fill[f].png /\ x.write = "landed"
    BY <2>1 DEF FillSet, FillStates
  <2> HIDE DEF x
  <2>7. FillSafe(stored', x)
    BY <1>2, <2>1, <2>2, <2>3, <2>4, <2>6 DEF FillSafe
  <2> QED BY <2>7 DEF x
<1>12. \A g \in Fills : fill'[g] = fill[g] \/ FillSafe(stored', fill'[g])
  BY <1>1, <1>10, <1>11
<1>13. said' = Silence /\ UNCHANGED <<cache, pending, visit, late>>
  BY DEF WriteLands
<1>14. AnswerSafe(stored', Silence)
  BY DEF AnswerSafe, Silence
<1> QED BY <1>8, <1>12, <1>13, <1>14, WholeFrame

\* Of a write that is given up, what is held is safe.
LEMMA HeldWhole ==
  ASSUME WholeInv, NEW fs, fs \subseteq Fills, GiveUp(fs)
  PROVE  \A w \in late' : w \in late \/ LateSafe(stored, w)
<1> DEFINE sent == {f \in fs : fill[f].pc \in Kinds /\ fill[f].write = "sent"}
           Hold(f) == [url |-> fill[f].url, kind |-> fill[f].pc, object |-> Object(f)]
           held == {Hold(f) : f \in sent}
<1>1. ASSUME NEW f \in sent PROVE LateSafe(stored, Hold(f))
  <2>1. FillSafe(stored, fill[f])
    BY DEF WholeInv
  <2>2. fill[f].pc \in Names => Object(f) = Whole
    BY DEF Object, Names
  <2>3. fill[f].pc = "index" => Object(f) \in Names /\ stored[fill[f].url][Object(f)] \in Present
    BY <2>1 DEF FillSafe, Object, Target, Names
  <2> QED BY <2>2, <2>3 DEF LateSafe
<1>2. late' \subseteq late \cup held
  BY DEF GiveUp
<1> HIDE DEF sent, Hold
<1> QED BY <1>1, <1>2

\* A download writes the object, then the index, then the memory.
LEMMA DownloadWhole ==
  ASSUME WholeInv, Types', NEW f \in Fills, Download(f)
  PROVE  WholeInv'
<1>1. fill[f].pc # "idle"
  BY DEF Download, GetSlot, Respond, Retry, BackoffEnds, BodyEnds, WriteBegins, WriteLands,
         SourceWritten, Transformed, ProcessedWritten, IndexWritten, Refused, FillFails, MayFail,
         Kinds
<1>2. fill[f] \in FillSet /\ fill[f].url \in Urls /\ FillSafe(stored, fill[f])
  BY <1>1, BusyFill DEF WholeInv, Types
<1>3. /\ cache \in [Urls -> Entries] /\ fill \in [Fills -> FillSet]
  BY DEF WholeInv, Types
<1>4. \A p : EntrySafe(stored, fill[f].url, Processing(p))
  BY PlainSafe
<1>5. ASSUME NEW x, FillSafe(stored, x), fill' = [fill EXCEPT ![f] = x],
             NEW p, cache' = Progress(f, p), said' = Silence, UNCHANGED <<pending, visit, stored, late>>
      PROVE  WholeInv'
  BY <1>4, <1>5, MoveWhole DEF Progress
<1>6. ASSUME NEW pc, Moves(f, pc, cache) \/ \E p \in Phases : Moves(f, pc, Progress(f, p)),
             pc \in {"transform", "processed"} => fill[f].png = TRUE,
             pc = "index" => stored[fill[f].url][Target(f)] \in Present
      PROVE  WholeInv'
  <2> DEFINE x == [fill[f] EXCEPT !.pc = pc, !.write = "sent"]
  <2>1. x.pc = pc /\ x.write = "sent" /\ x.url = fill[f].url /\ x.png = fill[f].png
    BY <1>2 DEF FillSet, FillStates
  <2>2. /\ fill' = [fill EXCEPT ![f] = x] /\ said' = Silence
        /\ UNCHANGED <<pending, visit, stored, late>>
    BY <1>6 DEF Moves
  <2>3. cache' = cache \/ \E p \in Phases : cache' = Progress(f, p)
    BY <1>6 DEF Moves
  <2> HIDE DEF x
  <2>4. FillSafe(stored, x)
    BY <1>6, <2>1 DEF FillSafe, Target, Names
  <2>5. CASE cache' = cache
    BY <1>4, <2>2, <2>4, <2>5, MoveWhole
  <2>6. CASE \E p \in Phases : cache' = Progress(f, p)
    BY <1>5, <2>2, <2>4, <2>6
  <2> QED BY <2>3, <2>5, <2>6
<1>7. Indexing(f) = Progress(f, "indexing") /\ {"downloading", "queued", "uploading", "transforming", "indexing"} \subseteq Phases
  BY DEF Indexing, Phases
<1>8. ASSUME GetSlot(f) PROVE WholeInv'
  BY <1>6, <1>8 DEF GetSlot
<1>9. ASSUME Respond(f) PROVE WholeInv'
  BY <1>6, <1>7, <1>9 DEF Respond
<1>10. ASSUME Retry(f) PROVE WholeInv'
  <2> DEFINE x == [fill[f] EXCEPT !.pc = "backoff", !.attempt = Counted(f)]
  <2>1. x.pc = "backoff" /\ x.write = fill[f].write
    BY <1>2 DEF FillSet, FillStates
  <2>2. fill[f].write = "sent"
    BY <1>2, <1>10 DEF Retry, FillSafe, Kinds
  <2>3. /\ fill' = [fill EXCEPT ![f] = x] /\ cache' = Progress(f, "queued") /\ said' = Silence
        /\ UNCHANGED <<pending, visit, stored, late>>
    BY <1>3, <1>10 DEF Retry
  <2> HIDE DEF x
  <2>4. FillSafe(stored, x)
    BY <2>1, <2>2 DEF FillSafe, Names
  <2> QED BY <1>5, <2>3, <2>4
<1>11. ASSUME BackoffEnds(f) PROVE WholeInv'
  BY <1>6, <1>11 DEF BackoffEnds
<1>12. ASSUME BodyEnds(f) PROVE WholeInv'
  <2>1. PICK png \in Formats : fill' = [fill EXCEPT ![f] = [fill[f] EXCEPT !.pc = "source", !.png = png]]
    BY <1>3, <1>12 DEF BodyEnds
  <2> DEFINE x == [fill[f] EXCEPT !.pc = "source", !.png = png]
  <2>2. x.pc = "source" /\ x.write = fill[f].write
    BY <1>2 DEF FillSet, FillStates
  <2>3. fill[f].write = "sent"
    BY <1>2, <1>12 DEF BodyEnds, FillSafe, Kinds
  <2>4. /\ fill' = [fill EXCEPT ![f] = x] /\ cache' = Progress(f, "uploading") /\ said' = Silence
        /\ UNCHANGED <<pending, visit, stored, late>>
    BY <1>12, <2>1 DEF BodyEnds
  <2> HIDE DEF x
  <2>5. FillSafe(stored, x)
    BY <2>2, <2>3 DEF FillSafe, Names
  <2> QED BY <1>5, <2>4, <2>5
<1>13. ASSUME WriteBegins(f) PROVE WholeInv'
  BY <1>13, BeginWhole
<1>14. ASSUME WriteLands(f) PROVE WholeInv'
  BY <1>14, LandWhole
<1>15. ASSUME SourceWritten(f) PROVE WholeInv'
  <2>1. stored[fill[f].url]["source"] \in Present
    BY <1>2, <1>15 DEF SourceWritten, Written, FillSafe, Names
  <2>2. CASE fill[f].png
    <3>1. fill[f].png = TRUE
      BY <1>2, <2>2 DEF FillSet, FillStates
    <3> QED BY <1>6, <1>7, <1>15, <2>2, <3>1 DEF SourceWritten
  <2>3. CASE ~fill[f].png
    BY <1>6, <1>7, <1>15, <2>1, <2>3 DEF SourceWritten, Target
  <2> QED BY <2>2, <2>3
<1>16. ASSUME Transformed(f) PROVE WholeInv'
  <2>1. fill[f].png = TRUE
    BY <1>2, <1>16 DEF Transformed, FillSafe
  <2> QED BY <1>6, <1>7, <1>16, <2>1 DEF Transformed
<1>17. ASSUME ProcessedWritten(f) PROVE WholeInv'
  <2>1. stored[fill[f].url][Target(f)] \in Present
    BY <1>2, <1>17 DEF ProcessedWritten, Written, FillSafe, Names, Target
  <2> QED BY <1>6, <1>7, <1>17, <2>1 DEF ProcessedWritten
<1>18. FillSafe(stored, Unused)
  BY DEF FillSafe, Unused, At, Kinds, Names
<1>19. ASSUME IndexWritten(f) PROVE WholeInv'
  <2>1. stored[fill[f].url][Target(f)] \in Present /\ Indexed(stored, fill[f].url)
    BY <1>2, <1>19 DEF IndexWritten, Written, FillSafe, Target
  <2>2. EntrySafe(stored, fill[f].url, Ready(Target(f)))
    BY <2>1, EntryFields DEF EntrySafe
  <2>3. /\ fill' = [fill EXCEPT ![f] = Unused] /\ cache' = [cache EXCEPT ![fill[f].url] = Ready(Target(f))]
        /\ said' = Silence /\ UNCHANGED <<pending, visit, stored, late>>
    BY <1>19 DEF IndexWritten, Ends
  <2> QED BY <1>18, <2>2, <2>3, MoveWhole
<1>20. ASSUME FillFails(f) PROVE WholeInv'
  <2>1. \A w \in late' : w \in late \/ LateSafe(stored, w)
    BY <1>20, HeldWhole DEF FillFails
  <2>2. /\ fill' = [fill EXCEPT ![f] = Unused] /\ cache' = [cache EXCEPT ![fill[f].url] = Failed]
        /\ said' = Silence /\ UNCHANGED <<pending, visit, stored>>
    BY <1>20 DEF FillFails, Ends
  <2>3. \A g \in Fills : fill'[g] = fill[g] \/ fill'[g] = Unused
    BY <1>3, <2>2
  <2>4. \A u \in Urls : cache'[u] = cache[u] \/ cache'[u] = Failed
    BY <1>3, <2>2
  <2>5. Grows(stored, stored') /\ IndexSafe(stored') /\ stored' = stored
    BY <2>2, SameGrows DEF WholeInv
  <2> QED BY <1>18, <2>1, <2>2, <2>3, <2>4, <2>5, PlainSafe, SaySafe, WholeFrame
<1>21. ASSUME Refused(f) PROVE WholeInv'
  <2>1. /\ fill' = [fill EXCEPT ![f] = Unused] /\ cache' = [cache EXCEPT ![fill[f].url] = Failed]
        /\ said' = Silence /\ UNCHANGED <<pending, visit, stored, late>>
    BY <1>21 DEF Refused, Ends
  <2> QED BY <1>18, <2>1, PlainSafe, MoveWhole
<1> QED BY <1>8, <1>9, <1>10, <1>11, <1>12, <1>13, <1>14, <1>15, <1>16, <1>17, <1>19, <1>20, <1>21
        DEF Download

\* A write that lands late was safe when it was given up, and no object is lost.
LEMMA EnvironmentWhole ==
  ASSUME Losable = {}, WholeInv, Types', Environment
  PROVE  WholeInv'
<1>1. cache \in [Urls -> Entries] /\ stored \in [Urls -> [Kinds -> Contents]]
  BY DEF WholeInv, Types
<1>2. ASSUME NEW u \in Urls, AgeError(u) PROVE WholeInv'
  <2>1. \A x \in Urls : cache'[x] = cache[x] \/ cache'[x] = Stale
    BY <1>1, <1>2 DEF AgeError
  <2>2. said' = Silence /\ UNCHANGED <<pending, visit, fill, stored, late>>
    BY <1>2 DEF AgeError
  <2> QED BY <2>1, <2>2, PlainSafe, SaySafe, QuietWhole
<1>3. ASSUME NEW w \in late, LateLands(w) PROVE WholeInv'
  <2>1. w.url \in Urls /\ w.kind \in Kinds /\ LateSafe(stored, w)
    BY DEF WholeInv, Types, Held
  <2>2. stored' = [stored EXCEPT ![w.url][w.kind] = w.object]
    BY <1>3 DEF LateLands
  <2>3. w.kind \in Names => w.object \in Present
    BY <2>1, PresentFacts DEF LateSafe
  <2>4. w.kind = "index" => w.object \in Names /\ stored[w.url][w.object] \in Present
    BY <2>1 DEF LateSafe
  <2>5. Grows(stored, stored') /\ IndexSafe(stored')
    BY <2>1, <2>2, <2>3, <2>4, WriteGrows
  <2>6. late' \subseteq late /\ said' = Silence /\ UNCHANGED <<cache, pending, visit, fill>>
    BY <1>3 DEF LateLands
  <2>7. AnswerSafe(stored', Silence)
    BY DEF AnswerSafe, Silence
  <2> QED BY <2>5, <2>6, <2>7, WholeFrame
<1>4. ASSUME Crash PROVE WholeInv'
  <2>1. \A w \in late' : w \in late \/ LateSafe(stored, w)
    BY <1>4, HeldWhole DEF Crash
  <2>2. /\ \A u \in Urls : cache'[u] = Blank /\ pending'[u] = "idle"
        /\ \A v \in Visitors : visit'[v] = Away
        /\ \A f \in Fills : fill'[f] = Unused
        /\ said' = Silence /\ stored' = stored
    BY <1>4 DEF Crash
  <2>3. VisitSafe(stored, Away) /\ FillSafe(stored, Unused) /\ \A u \in Urls : NameSafe(stored, u, "idle")
    BY DEF VisitSafe, Away, FillSafe, Unused, At, NameSafe, Kinds, Names
  <2>4. Grows(stored, stored') /\ IndexSafe(stored')
    BY <2>2, SameGrows DEF WholeInv
  <2> QED BY <2>1, <2>2, <2>3, <2>4, PlainSafe, SaySafe, WholeFrame
<1>5. ~ \E u \in Urls, kind \in Losable : Lose(u, kind)
  OBVIOUS
<1> QED BY <1>2, <1>3, <1>4, <1>5 DEF Environment

\* A new store names nothing.
LEMMA WholeInit == Init => WholeInv
<1> SUFFICES ASSUME Init PROVE WholeInv
  OBVIOUS
<1>1. None \notin Names
  BY FillAssumption DEF Kinds, Names
<1>2. IndexSafe(stored)
  BY <1>1 DEF Init, IndexSafe, Kinds
<1>3. \A u \in Urls : NameSafe(stored, u, pending[u]) /\ EntrySafe(stored, u, cache[u])
  BY PlainSafe DEF Init, NameSafe, Names
<1>4. (\A v \in Visitors : VisitSafe(stored, visit[v])) /\ \A f \in Fills : FillSafe(stored, fill[f])
  BY DEF Init, VisitSafe, Away, FillSafe, Unused, At, Kinds, Names
<1>5. late = {} /\ AnswerSafe(stored, said)
  BY SaySafe DEF Init
<1> QED BY <1>2, <1>3, <1>4, <1>5, InitType DEF WholeInv

\* Every step keeps the invariant.
LEMMA WholeStep ==
  ASSUME Losable = {}
  PROVE  WholeInv /\ [Next]_vars => WholeInv'
<1> SUFFICES ASSUME WholeInv, [Next]_vars PROVE WholeInv'
  OBVIOUS
<1>1. Types'
  BY StepType DEF WholeInv
<1>2. CASE Request
  BY <1>1, <1>2, RequestWhole
<1>3. ASSUME NEW u \in Urls, LoadReads(u) \/ LoadLands(u) PROVE WholeInv'
  BY <1>1, <1>3, LoadWhole
<1>4. ASSUME NEW v \in Visitors, Handle(v) PROVE WholeInv'
  BY <1>1, <1>4, HandleWhole
<1>5. ASSUME NEW f \in Fills, Download(f) PROVE WholeInv'
  BY <1>1, <1>5, DownloadWhole
<1>6. CASE Environment
  BY <1>1, <1>6, EnvironmentWhole
<1>7. CASE UNCHANGED vars
  BY <1>1, <1>7, QuietWhole DEF vars, WholeInv
<1> QED BY <1>2, <1>3, <1>4, <1>5, <1>6, <1>7 DEF Next

\* On a storage that loses no object, whatever else happens (writes that are
\* not atomic, that overlap or land late, refreshes, crashes): /cached redirects
\* only to an object that is there. The storage's losses are the one cause of
\* the redirects to nothing.
THEOREM RedirectsAreThere ==
  ASSUME Losable = {}
  PROVE  Spec => []RedirectToStored
<1>1. WholeInv /\ [Next]_vars => WholeInv'
  BY WholeStep
<1>2. Spec => []WholeInv
  BY <1>1, WholeInit, PTL DEF Spec
<1> QED BY <1>2, WholeInvImplies, PTL

\* On a storage whose objects change at once and are not lost (S3), with any
\* number of requests, refreshes, overlapping downloads, late writes and
\* crashes: whatever names an object names a complete one, a URL served as
\* ready is in the index, and no half-written object is streamed.
THEOREM PointersAreWhole ==
  ASSUME AtomicWrites = TRUE, Losable = {}
  PROVE  Spec => [](PointersWhole /\ ReadyIsIndexed /\ ServesWhole)
<1>1. WholeInv /\ [Next]_vars => WholeInv'
  BY WholeStep
<1>2. Spec => []WholeInv
  BY <1>1, WholeInit, PTL DEF Spec
<1>3. WholeInv => PointersWhole /\ ReadyIsIndexed /\ ServesWhole
  BY WholeInvImplies
<1> QED BY <1>2, <1>3, PTL

-----------------------------------------------------------------------------
(***************************************************************************)
(* Visits share the download of a URL while nobody refreshes it, errors do *)
(* not age, and the storage neither loses an object nor fails to read one. *)
(* A running download has claimed its entry, which no crash-free step      *)
(* takes back, and only who finds the entry absent starts another.         *)
(***************************************************************************)
Undisturbed == Refreshes = FALSE /\ AgingErrors = FALSE /\ ReadErrors = FALSE /\ Losable = {}

Alone ==
  \A f, g \in Fills :
    fill[f].pc # "idle" /\ fill[g].pc # "idle" /\ fill[f].url = fill[g].url => f = g
Claimed == \A f \in Fills : fill[f].pc # "idle" => cache[fill[f].url].status # "none"
Fresh == (\A u \in Urls : cache[u] # Stale) /\ (\A v \in Visitors : visit[v].entry # Stale)

OneInv == WholeInv /\ Alone /\ Claimed /\ Fresh

\* Of downloads that are alone there is at most one for a URL.
LEMMA OneInvImplies == OneInv => OneFill
<1> SUFFICES ASSUME OneInv, NEW u \in Urls PROVE Cardinality(Filling(u)) <= 1
  BY DEF OneFill
<1>1. CASE Filling(u) = {}
  <2>1. Cardinality(Filling(u)) = 0
    BY <1>1, FS_EmptySet
  <2> QED BY <2>1
<1>2. CASE Filling(u) # {}
  <2>1. PICK f \in Fills : f \in Filling(u)
    BY <1>2 DEF Filling
  <2>2. Filling(u) = {f}
    BY <2>1 DEF OneInv, Alone, Filling
  <2>3. Cardinality(Filling(u)) = 1
    BY <2>2, FS_Singleton
  <2> QED BY <2>3
<1> QED BY <1>1, <1>2

\* Only an error that has aged is stale.
LEMMA NotStale ==
  /\ Blank # Stale /\ Failed # Stale
  /\ \A p : Processing(p) # Stale
  /\ \A n : Ready(n) # Stale
BY DEF Blank, Failed, Stale, Processing, Ready

\* What requests and answers do to the visits: each goes on as it was, is
\* over, or has looked its URL up, with an index load under way where nothing is
\* cached; no more than that is asked of the loads.
Looks(c) ==
  \A x \in Visitors :
    \/ visit'[x] \in {visit[x], Away}
    \/ \E u \in Urls : visit'[x] = Looking(c, u) /\ (c[u].status = "none" => pending'[u] # "idle")
Asks == \A u \in Urls : pending'[u] \in {pending[u], "asked"}

LEMMA AskedAsks == ASSUME Types, NEW c, NEW u \in Urls, NEW x \in Urls
                   PROVE  /\ Asked(c, u)[x] \in {pending[x], "asked"}
                          /\ c[u].status = "none" => Asked(c, u)[u] # "idle"
BY DEF Asked, Types

LEMMA FinishLooks ==
  ASSUME Types, NEW v \in Visitors, NEW c, NEW a, Finish(v, c, a)
  PROVE  Looks(c) /\ Asks /\ cache' = c /\ said' = a
<1>1. visit \in [Visitors -> VisitSet]
  BY DEF Types
<1>2. CASE v \in Workers /\ todo # <<>>
  <2>1. Head(todo) \in Urls
    BY <1>2 DEF Types
  <2>2. visit' = [visit EXCEPT ![v] = Looking(c, Head(todo))] /\ pending' = Asked(c, Head(todo))
    BY <1>2 DEF Finish
  <2>3. Looks(c)
    BY <1>1, <2>1, <2>2, AskedAsks DEF Looks
  <2>4. Asks
    BY <2>1, <2>2, AskedAsks DEF Asks
  <2> QED BY <2>3, <2>4 DEF Finish
<1>3. CASE ~(v \in Workers /\ todo # <<>>)
  BY <1>1, <1>3 DEF Finish, Looks, Asks
<1> QED BY <1>2, <1>3

LEMMA RequestLooks ==
  ASSUME Types, (\E v \in Clients, u \in Urls : Visit(v, u)) \/ \E urls \in Batches : Batch(urls)
  PROVE  Looks(cache) /\ Asks /\ said' = Silence /\ UNCHANGED <<cache, fill, stored, late>>
<1>1. visit \in [Visitors -> VisitSet]
  BY DEF Types
<1>2. ASSUME NEW v \in Clients, NEW u \in Urls, Visit(v, u)
      PROVE  Looks(cache) /\ Asks /\ said' = Silence /\ UNCHANGED <<cache, fill, stored, late>>
  <2>1. \A x \in Visitors : visit'[x] = visit[x] \/ visit'[x] = Looking(cache, u)
    BY <1>1, <1>2 DEF Visit, Visitors
  <2> QED BY <1>2, <2>1, AskedAsks DEF Visit, Looks, Asks
<1>3. ASSUME NEW urls \in Batches, Batch(urls)
      PROVE  Looks(cache) /\ Asks /\ said' = Silence /\ UNCHANGED <<cache, fill, stored, late>>
  <2>1. PICK first \in [Workers -> 1..Cardinality(Workers)] :
          /\ visit' = [v \in Visitors |->
                         IF v \in Workers /\ first[v] <= Len(urls) THEN Looking(cache, urls[first[v]])
                         ELSE visit[v]]
          /\ pending' = [u \in Urls |->
                           IF u \in {urls[first[w]] : w \in {x \in Workers : first[x] <= Len(urls)}}
                             THEN Asked(cache, u)[u] ELSE pending[u]]
    BY <1>3 DEF Batch
  <2>2. urls \in Seq(Urls) /\ Cardinality(Workers) \in Nat
    BY FillAssumption, FS_CardinalityType
  <2>3. ASSUME NEW v \in Visitors, v \in Workers, first[v] <= Len(urls)
        PROVE  urls[first[v]] \in Urls
    <3>1. first[v] \in 1..Len(urls)
      BY <2>2, <2>3
    <3> QED BY <2>2, <3>1
  <2>4. Looks(cache)
    <3> SUFFICES ASSUME NEW x \in Visitors, visit'[x] # visit[x]
                 PROVE  \E u \in Urls : /\ visit'[x] = Looking(cache, u)
                                        /\ cache[u].status = "none" => pending'[u] # "idle"
      BY DEF Looks
    <3>1. x \in Workers /\ first[x] <= Len(urls)
      BY <2>1
    <3>2. urls[first[x]] \in Urls /\ visit'[x] = Looking(cache, urls[first[x]])
      BY <2>1, <2>3, <3>1
    <3>3. pending'[urls[first[x]]] = Asked(cache, urls[first[x]])[urls[first[x]]]
      BY <2>1, <3>1, <3>2
    <3> QED BY <3>2, <3>3, AskedAsks
  <2>5. Asks
    BY <2>1, AskedAsks DEF Asks
  <2> QED BY <1>3, <2>4, <2>5 DEF Batch
<1> QED BY <1>2, <1>3

\* What a lookup leaves of the cache is as fresh as the cache.
LEMMA LooksFresh ==
  ASSUME NEW c \in [Urls -> Entries], Looks(c), Fresh, \A u \in Urls : c[u] # Stale, NEW v \in Visitors
  PROVE  visit'[v].entry # Stale
<1>1. Away.entry # Stale
  BY NotStale DEF Away
<1>2. \A u \in Urls : Looking(c, u).entry # Stale
  BY LookingType
<1> QED BY <1>1, <1>2 DEF Looks, Fresh

\* What a step owes in which no download starts.
LEMMA OneFrame ==
  ASSUME OneInv, WholeInv',
         \A f \in Fills : fill'[f].pc # "idle" => fill[f].pc # "idle" /\ fill'[f].url = fill[f].url,
         \A u \in Urls : cache'[u].status = "none" => cache[u].status = "none",
         \A u \in Urls : cache'[u] # Stale,
         \A v \in Visitors : visit'[v].entry # Stale
  PROVE  OneInv'
<1>1. Alone'
  BY DEF OneInv, Alone
<1>2. Claimed'
  <2> SUFFICES ASSUME NEW f \in Fills, fill'[f].pc # "idle" PROVE cache'[fill'[f].url].status # "none"
    BY DEF Claimed
  <2>1. fill'[f].url = fill[f].url /\ cache[fill[f].url].status # "none" /\ fill[f].url \in Urls
    BY BusyFill DEF OneInv, WholeInv, Claimed
  <2> QED BY <2>1
<1> QED BY <1>1, <1>2 DEF OneInv, Fresh

\* The object a ready entry names can be read.
LEMMA ReadsSucceed ==
  ASSUME WholeInv, ReadErrors = FALSE, NEW v \in Visitors
  PROVE  ~ReadFails(v)
<1> SUFFICES ASSUME ReadFails(v) PROVE FALSE
  OBVIOUS
<1>1. visit[v].pc = "read" /\ stored[visit[v].url][visit[v].entry.names] = None
  BY DEF ReadFails
<1>2. visit[v].entry.status = "ready" /\ VisitSafe(stored, visit[v])
  BY <1>1 DEF WholeInv, Types, VisitSet
<1>3. stored[visit[v].url][visit[v].entry.names] \in Present
  BY <1>1, <1>2 DEF VisitSafe, EntrySafe
<1> QED BY <1>1, <1>3, PresentFacts

\* Who starts a download has found the entry absent, so that none is running.
LEMMA StartAlone ==
  ASSUME OneInv, NEW v \in Visitors, StartFill(v)
  PROVE  /\ visit[v].pc = "resumed" /\ visit[v].url \in Urls
         /\ visit[v].entry.status = "none" /\ cache[visit[v].url].status = "none"
         /\ \A g \in Fills : fill[g].pc # "idle" => fill[g].url # visit[v].url
<1>1. visit[v].pc = "resumed" /\ Found(v) \in {Blank, Stale}
  BY DEF StartFill
<1>2. visit[v].url \in Urls
  BY <1>1, BusyVisit DEF OneInv, WholeInv
<1>3. Found(v) # Stale
  BY <1>2 DEF OneInv, Fresh, Found
<1>4. visit[v].entry.status = "none" /\ cache[visit[v].url].status = "none"
  BY <1>1, <1>3, EntryFields DEF Found
<1> QED BY <1>1, <1>2, <1>4 DEF OneInv, Claimed

\* A handler that starts a download claims the entry for it.
LEMMA StartOne == ASSUME OneInv, WholeInv', NEW v \in Visitors, StartFill(v) PROVE OneInv'
<1> DEFINE u == visit[v].url
<1>1. u \in Urls /\ \A g \in Fills : fill[g].pc # "idle" => fill[g].url # u
  BY StartAlone
<1>2. PICK f \in Free, pc \in {"acquire", "refused"} : fill' = [fill EXCEPT ![f] = At(pc, u)]
  BY DEF StartFill, Launch
<1>3. fill \in [Fills -> FillSet] /\ cache \in [Urls -> Entries]
  BY DEF OneInv, WholeInv, Types
<1>4. cache' = Started(u) /\ Looks(Started(u))
  BY FinishLooks DEF StartFill, OneInv, WholeInv
<1>5. f \in Fills /\ fill'[f].url = u /\ \A g \in Fills \ {f} : fill'[g] = fill[g]
  BY <1>2, <1>3 DEF Free, At
<1>6. \A x \in Urls : cache'[x] = IF x = u THEN Processing("queued") ELSE cache[x]
  BY <1>3, <1>4 DEF Started
<1> HIDE DEF u
<1>7. Alone'
  BY <1>1, <1>5 DEF OneInv, Alone
<1>8. Claimed'
  <2> SUFFICES ASSUME NEW g \in Fills, fill'[g].pc # "idle" PROVE cache'[fill'[g].url].status # "none"
    BY DEF Claimed
  <2>1. CASE g = f
    BY <1>1, <1>5, <1>6, <2>1, EntryFields
  <2>2. CASE g # f
    <3>1. fill'[g] = fill[g] /\ fill[g].url \in Urls /\ cache[fill[g].url].status # "none"
      BY <1>5, <2>2, BusyFill DEF OneInv, WholeInv, Claimed
    <3> QED BY <1>6, <3>1, EntryFields
  <2> QED BY <2>1, <2>2
<1>9. Fresh'
  <2>1. \A x \in Urls : cache'[x] # Stale
    BY <1>6, NotStale DEF OneInv, Fresh
  <2>2. cache' \in [Urls -> Entries] /\ Looks(cache')
    BY <1>4 DEF WholeInv, Types
  <2>3. \A x \in Visitors : visit'[x].entry # Stale
    BY <2>1, <2>2, LooksFresh DEF OneInv
  <2> QED BY <2>1, <2>3 DEF Fresh
<1> QED BY <1>7, <1>8, <1>9 DEF OneInv

\* Handlers keep downloads alone.
LEMMA HandleOne ==
  ASSUME OneInv, WholeInv', Undisturbed, NEW v \in Visitors, Handle(v)
  PROVE  OneInv'
<1>1. Types /\ Fresh /\ cache \in [Urls -> Entries] /\ visit \in [Visitors -> VisitSet]
  BY DEF OneInv, WholeInv, Types
<1>2. ASSUME NEW a, Finish(v, cache, a), UNCHANGED fill PROVE OneInv'
  <2>1. Looks(cache) /\ cache' = cache
    BY <1>1, <1>2, FinishLooks
  <2>2. \A x \in Visitors : visit'[x].entry # Stale
    BY <1>1, <2>1, LooksFresh DEF Fresh
  <2> QED BY <1>1, <1>2, <2>1, <2>2, OneFrame DEF Fresh
<1>3. ASSUME ServeReady(v) \/ NoRedirect(v) PROVE OneInv'
  <2>1. visit'[v].entry \in {visit[v].entry, Found(v)} /\ \A x \in Visitors \ {v} : visit'[x] = visit[x]
    <3>1. DOMAIN visit = Visitors /\ visit[v] = [pc |-> visit[v].pc, url |-> visit[v].url, entry |-> visit[v].entry]
      BY <1>1 DEF VisitSet, VisitStates
    <3>2. CASE ServeReady(v)
      BY <3>1, <3>2 DEF ServeReady
    <3>3. CASE NoRedirect(v)
      BY <3>1, <3>3 DEF NoRedirect
    <3> QED BY <1>3, <3>2, <3>3
  <2>2. Found(v) # Stale
    <3>1. visit[v].url \in Urls
      BY <1>1, <1>3, BusyVisit DEF ServeReady, NoRedirect
    <3> QED BY <1>1, <3>1 DEF Fresh, Found
  <2>3. UNCHANGED <<cache, fill>>
    BY <1>3 DEF ServeReady, NoRedirect
  <2> QED BY <1>1, <2>1, <2>2, <2>3, OneFrame DEF Fresh
<1>4. ASSUME \/ ReportReady(v) \/ ReportRunning(v) \/ ReportError(v) \/ OfferRedirect(v) \/ Stream(v)
      PROVE  OneInv'
  BY <1>2, <1>4 DEF ReportReady, ReportRunning, ReportError, OfferRedirect, Stream
<1>5. ~ReadFails(v)
  BY ReadsSucceed DEF OneInv, Undisturbed
<1> QED BY <1>3, <1>4, <1>5, StartOne DEF Handle

\* A download goes on with its URL or ends, and its entry is never absent again.
LEMMA DownloadShape ==
  ASSUME Types, NEW f \in Fills, Download(f)
  PROVE  /\ \A g \in Fills : fill'[g].pc # "idle" => fill[g].pc # "idle" /\ fill'[g].url = fill[g].url
         /\ \A u \in Urls : cache'[u] = cache[u] \/ cache'[u] = Failed
                            \/ (\E p : cache'[u] = Processing(p)) \/ \E n : cache'[u] = Ready(n)
         /\ UNCHANGED <<pending, visit>> /\ said' = Silence
<1> DEFINE Same == \A u \in Urls : cache'[u] = cache[u] \/ cache'[u] = Failed
                                   \/ (\E p : cache'[u] = Processing(p)) \/ \E n : cache'[u] = Ready(n)
           Goes == \A g \in Fills :
                     fill'[g].pc # "idle" => fill[g].pc # "idle" /\ fill'[g].url = fill[g].url
<1>1. fill[f].pc # "idle" /\ fill[f] \in FillSet /\ fill[f].url \in Urls
  BY BusyFill DEF Download, GetSlot, Respond, Retry, BackoffEnds, BodyEnds, WriteBegins, WriteLands,
         SourceWritten, Transformed, ProcessedWritten, IndexWritten, Refused, FillFails, MayFail, Kinds,
         Types
<1>2. cache \in [Urls -> Entries] /\ fill \in [Fills -> FillSet]
  BY DEF Types
<1>3. ASSUME NEW p, cache' = Progress(f, p) PROVE Same
  BY <1>1, <1>2, <1>3 DEF Progress
<1>4. ASSUME NEW x, x.url = fill[f].url \/ x.pc = "idle", fill' = [fill EXCEPT ![f] = x] PROVE Goes
  BY <1>1, <1>2, <1>4
<1> HIDE DEF Same, Goes
<1>5. ASSUME NEW pc, Moves(f, pc, cache) \/ \E p : Moves(f, pc, Progress(f, p)) PROVE Same /\ Goes
  <2>1. [fill[f] EXCEPT !.pc = pc, !.write = "sent"].url = fill[f].url
    BY <1>1 DEF FillSet, FillStates
  <2>2. fill' = [fill EXCEPT ![f] = [fill[f] EXCEPT !.pc = pc, !.write = "sent"]]
    BY <1>2, <1>5 DEF Moves
  <2>3. Goes
    BY <1>4, <2>1, <2>2
  <2>4. cache' = cache \/ \E p : cache' = Progress(f, p)
    BY <1>5 DEF Moves
  <2>5. Same
    BY <1>3, <2>4 DEF Same
  <2> QED BY <2>3, <2>5
<1>6. ASSUME \/ GetSlot(f) \/ Respond(f) \/ BackoffEnds(f) \/ SourceWritten(f) \/ Transformed(f)
             \/ ProcessedWritten(f)
      PROVE  Same /\ Goes
  BY <1>5, <1>6 DEF GetSlot, Respond, BackoffEnds, SourceWritten, Transformed, ProcessedWritten, Indexing
<1>7. ASSUME Retry(f) \/ BodyEnds(f) PROVE Same /\ Goes
  <2>1. PICK x \in {[fill[f] EXCEPT !.pc = "backoff", !.attempt = Counted(f)]}
                   \cup {[fill[f] EXCEPT !.pc = "source", !.png = png] : png \in Formats} :
          fill' = [fill EXCEPT ![f] = x]
    BY <1>2, <1>7 DEF Retry, BodyEnds
  <2>2. x.url = fill[f].url
    BY <1>1, <2>1 DEF FillSet, FillStates
  <2>3. Goes
    BY <1>4, <2>1, <2>2
  <2>4. \E p : cache' = Progress(f, p)
    BY <1>7 DEF Retry, BodyEnds
  <2> QED BY <1>3, <2>3, <2>4
<1>8. ASSUME WriteBegins(f) \/ WriteLands(f) PROVE Same /\ Goes
  <2>1. ASSUME NEW g \in Fills
        PROVE  \E w : fill'[g] \in {fill[g], [fill[g] EXCEPT !.write = w]}
    <3>1. CASE WriteBegins(f)
      <4>1. fill'[g] \in {[fill[g] EXCEPT !.write = "begun"], [fill[g] EXCEPT !.write = "mixed"], fill[g]}
        BY <3>1 DEF WriteBegins
      <4> QED BY <4>1
    <3>2. CASE WriteLands(f)
      <4>1. fill'[g] \in {[fill[g] EXCEPT !.write = "landed"], fill[g]}
        BY <1>2, <3>2 DEF WriteLands
      <4> QED BY <4>1
    <3> QED BY <1>8, <3>1, <3>2
  <2>2. ASSUME NEW g \in Fills PROVE fill'[g].pc = fill[g].pc /\ fill'[g].url = fill[g].url
    <3>1. PICK w : fill'[g] \in {fill[g], [fill[g] EXCEPT !.write = w]}
      BY <2>1
    <3>2. /\ [fill[g] EXCEPT !.write = w].pc = fill[g].pc
          /\ [fill[g] EXCEPT !.write = w].url = fill[g].url
      BY <1>2 DEF FillSet, FillStates
    <3> QED BY <3>1, <3>2
  <2>3. Goes
    BY <2>2 DEF Goes
  <2>4. Same
    BY <1>8 DEF WriteBegins, WriteLands, Same
  <2> QED BY <2>3, <2>4
<1>9. ASSUME IndexWritten(f) \/ Refused(f) \/ FillFails(f) PROVE Same /\ Goes
  <2>1. PICK e \in {Failed, Ready(Target(f))} :
          cache' = [cache EXCEPT ![fill[f].url] = e] /\ fill' = [fill EXCEPT ![f] = Unused]
    BY <1>9 DEF IndexWritten, Refused, FillFails, Ends
  <2>2. Unused.pc = "idle"
    BY DEF Unused, At
  <2>3. Goes
    BY <1>4, <2>1, <2>2
  <2>4. Same
    BY <1>2, <2>1 DEF Same
  <2> QED BY <2>3, <2>4
<1>10. UNCHANGED <<pending, visit>> /\ said' = Silence
  BY DEF Download, GetSlot, Respond, Retry, BackoffEnds, BodyEnds, WriteBegins, WriteLands,
         SourceWritten, Transformed, ProcessedWritten, IndexWritten, Refused, FillFails, Moves, Ends
<1>11. Same /\ Goes
  BY <1>6, <1>7, <1>8, <1>9 DEF Download
<1> QED BY <1>10, <1>11 DEF Same, Goes

\* Downloads keep downloads alone: none starts another.
LEMMA DownloadOne == ASSUME OneInv, WholeInv', NEW f \in Fills, Download(f) PROVE OneInv'
<1>1. Types /\ Fresh
  BY DEF OneInv, WholeInv
<1>2. \A u \in Urls : cache'[u] = cache[u] \/ (cache'[u].status # "none" /\ cache'[u] # Stale)
  BY <1>1, DownloadShape, EntryFields, NotStale
<1>3. /\ \A g \in Fills : fill'[g].pc # "idle" => fill[g].pc # "idle" /\ fill'[g].url = fill[g].url
      /\ visit' = visit
  BY <1>1, DownloadShape
<1> QED BY <1>1, <1>2, <1>3, OneFrame DEF Fresh

\* The invariant holds in a new process.
LEMMA OneInit == Init => OneInv
<1> SUFFICES ASSUME Init PROVE OneInv
  OBVIOUS
<1>1. Alone /\ Claimed
  BY DEF Init, Alone, Claimed, Unused, At
<1>2. Fresh
  BY NotStale DEF Init, Fresh, Away
<1> QED BY <1>1, <1>2, WholeInit DEF OneInv

\* Every step keeps the invariant.
LEMMA OneStep == ASSUME Undisturbed PROVE OneInv /\ [Next]_vars => OneInv'
<1> SUFFICES ASSUME OneInv, [Next]_vars PROVE OneInv'
  OBVIOUS
<1>1. WholeInv'
  BY WholeStep DEF OneInv, Undisturbed
<1>2. Types /\ Fresh /\ cache \in [Urls -> Entries] /\ visit \in [Visitors -> VisitSet]
  BY DEF OneInv, WholeInv, Types
<1>3. CASE Request
  <2>1. Looks(cache) /\ UNCHANGED <<cache, fill>>
    BY <1>2, <1>3, RequestLooks DEF Undisturbed, Request, Refresh
  <2>2. \A x \in Visitors : visit'[x].entry # Stale
    BY <1>2, <2>1, LooksFresh DEF Fresh
  <2> QED BY <1>1, <1>2, <2>1, <2>2, OneFrame DEF Fresh
<1>4. ASSUME NEW u \in Urls, LoadReads(u) PROVE OneInv'
  <2>1. UNCHANGED <<cache, visit, fill>>
    BY <1>4 DEF LoadReads
  <2> QED BY <1>1, <1>2, <2>1, OneFrame DEF Fresh
<1>5. ASSUME NEW u \in Urls, LoadLands(u) PROVE OneInv'
  <2>1. PICK entry \in {Blank, Ready(pending[u])} :
          /\ cache' = IF entry = Blank THEN cache ELSE [cache EXCEPT ![u] = entry]
          /\ visit' = [v \in Visitors |->
                         IF v \in Joined(u) THEN [visit[v] EXCEPT !.pc = "resumed", !.entry = entry]
                         ELSE visit[v]]
          /\ UNCHANGED fill
    BY <1>5 DEF LoadLands
  <2>2. entry # Stale /\ (entry = Blank \/ entry.status = "ready")
    BY <2>1, NotStale, EntryFields
  <2>3. \A x \in Urls : cache'[x] = cache[x] \/ (cache'[x] # Stale /\ cache'[x].status # "none")
    BY <1>2, <2>1, <2>2
  <2>4. \A v \in Visitors : visit'[v] = visit[v] \/ visit'[v].entry = entry
    BY <1>2, <2>1 DEF VisitSet, VisitStates
  <2>5. (\A x \in Urls : cache'[x] # Stale) /\ \A v \in Visitors : visit'[v].entry # Stale
    BY <1>2, <2>2, <2>3, <2>4 DEF Fresh
  <2> QED BY <1>1, <2>1, <2>3, <2>5, OneFrame
<1>6. ASSUME NEW v \in Visitors, Handle(v) PROVE OneInv'
  BY <1>1, <1>6, HandleOne
<1>7. ASSUME NEW f \in Fills, Download(f) PROVE OneInv'
  BY <1>1, <1>7, DownloadOne
<1>8. CASE Environment
  <2>1. ASSUME NEW w \in late, LateLands(w) PROVE OneInv'
    <3>1. UNCHANGED <<cache, visit, fill>>
      BY <2>1 DEF LateLands
    <3> QED BY <1>1, <1>2, <3>1, OneFrame DEF Fresh
  <2>2. ASSUME Crash PROVE OneInv'
    <3>1. /\ \A u \in Urls : cache'[u] = Blank
          /\ \A v \in Visitors : visit'[v] = Away
          /\ \A f \in Fills : fill'[f] = Unused
      BY <2>2 DEF Crash
    <3>2. Alone' /\ Claimed' /\ Fresh'
      BY <3>1, NotStale DEF Alone, Claimed, Fresh, Away, Unused, At
    <3> QED BY <1>1, <3>2 DEF OneInv
  <2>3. ~\E u \in Urls : AgeError(u)
    BY DEF AgeError, Undisturbed
  <2>4. ~\E u \in Urls, kind \in Losable : Lose(u, kind)
    BY DEF Undisturbed
  <2> QED BY <1>8, <2>1, <2>2, <2>3, <2>4 DEF Environment
<1>9. CASE UNCHANGED vars
  BY <1>1, <1>9 DEF vars, OneInv, Alone, Claimed, Fresh
<1> QED BY <1>3, <1>4, <1>5, <1>6, <1>7, <1>8, <1>9 DEF Next

\* While nobody refreshes, errors do not age and the storage neither loses an
\* object nor fails to read one, with any number of clients, workers, batches
\* and crashes: visits share the one download of a URL.
THEOREM VisitsShareAFill ==
  ASSUME Undisturbed
  PROVE  Spec => []OneFill
<1>1. OneInv /\ [Next]_vars => OneInv'
  BY OneStep
<1>2. Spec => []OneInv
  BY <1>1, OneInit, PTL DEF Spec
<1> QED BY <1>2, OneInvImplies, PTL

-----------------------------------------------------------------------------
(***************************************************************************)
(* Where, besides, no write takes effect after it was given up, memory and *)
(* index agree, and what they name is whole on a file system too: a URL    *)
(* that is in the index is never written again, since a download starts    *)
(* only for one that is not, and alone.                                    *)
(***************************************************************************)
IndexWhole(st) == \A u \in Urls : st[u]["index"] \in Names => st[u][st[u]["index"]] = Whole
Unindexed(st, u) == st[u]["index"] \notin Names
NameIndexed(st, u, n) == n \in Names => st[u]["index"] = n
EntryIndexed(st, u, e) == e.status = "ready" => st[u]["index"] = e.names
VisitIndexed(st, c, x) ==
  x.pc # "idle" =>
    /\ EntryIndexed(st, x.url, x.entry)
    /\ x.pc = "resumed" /\ x.entry.status = "none" /\ c[x.url].status = "none" => Unindexed(st, x.url)
FillTarget(x) == IF x.png THEN "processed" ELSE "source"
FillSole(st, x) ==
  x.pc # "idle" =>
    /\ x.write # "mixed"
    /\ x.pc \in Names /\ x.write = "landed" => st[x.url][x.pc] = Whole
    /\ x.pc = "index" => st[x.url][FillTarget(x)] = Whole
    /\ IF x.pc = "index" /\ x.write = "landed" THEN st[x.url]["index"] = FillTarget(x)
                                               ELSE Unindexed(st, x.url)

FileInv ==
  /\ OneInv
  /\ late = {}
  /\ IndexWhole(stored)
  /\ \A u \in Urls : /\ NameIndexed(stored, u, pending[u])
                     /\ EntryIndexed(stored, u, cache[u])
                     /\ cache[u].status = "none" /\ pending[u] = "missed" => Unindexed(stored, u)
  /\ \A v \in Visitors : VisitIndexed(stored, cache, visit[v])
  /\ \A f \in Fills : FillSole(stored, fill[f])
  /\ said.what = "bytes" => stored[said.url][said.names] = Whole

\* The invariant implies the properties.
LEMMA FileInvImplies ==
  FileInv => PointersWhole /\ ReadyIsIndexed /\ ServesWhole /\ ReadyMatchesIndex
<1> SUFFICES ASSUME FileInv PROVE PointersWhole /\ ReadyIsIndexed /\ ServesWhole /\ ReadyMatchesIndex
  OBVIOUS
<1>1. cache \in [Urls -> Entries]
  BY DEF FileInv, OneInv, WholeInv, Types
<1>2. \A u \in Urls : cache[u].status = "ready" => stored[u]["index"] = cache[u].names /\ cache[u].names \in Names
  BY <1>1, ReadyNames DEF FileInv, EntryIndexed
<1> QED BY <1>2 DEF FileInv, IndexWhole, NameIndexed, PointersWhole, ReadyIsIndexed, ServesWhole,
                    ReadyMatchesIndex

\* What a step owes that writes no object.
LEMMA FileFrame ==
  ASSUME FileInv, OneInv', UNCHANGED <<stored, late>>,
         \A u \in Urls : cache'[u] = cache[u]
                         \/ (cache'[u].status # "none" /\ EntryIndexed(stored, u, cache'[u])),
         \A u \in Urls : \/ pending'[u] \in {pending[u], "idle", "asked"}
                         \/ pending'[u] \in Names /\ NameIndexed(stored, u, pending'[u])
                         \/ pending'[u] = "missed" /\ Unindexed(stored, u),
         \A v \in Visitors : visit'[v] = visit[v] \/ VisitIndexed(stored, cache', visit'[v]),
         \A f \in Fills : fill'[f] = fill[f] \/ FillSole(stored, fill'[f]),
         said'.what = "bytes" => stored[said'.url][said'.names] = Whole
  PROVE  FileInv'
<1>1. stored' = stored /\ late' = late
  OBVIOUS
<1>2. ASSUME NEW u \in Urls
      PROVE  /\ NameIndexed(stored, u, pending'[u]) /\ EntryIndexed(stored, u, cache'[u])
             /\ cache'[u].status = "none" /\ pending'[u] = "missed" => Unindexed(stored, u)
  BY DEF FileInv, NameIndexed, Names
<1>3. ASSUME NEW v \in Visitors PROVE VisitIndexed(stored, cache', visit'[v])
  <2>1. CASE visit'[v] = visit[v] /\ visit[v].pc # "idle"
    <3>1. visit[v].url \in Urls
      BY <2>1, BusyVisit DEF FileInv, OneInv, WholeInv
    <3> QED BY <2>1, <3>1 DEF FileInv, VisitIndexed
  <2>2. CASE visit'[v] = visit[v] /\ visit[v].pc = "idle"
    BY <2>2 DEF VisitIndexed
  <2> QED BY <2>1, <2>2
<1>4. \A f \in Fills : FillSole(stored, fill'[f])
  BY DEF FileInv
<1> QED BY <1>1, <1>2, <1>3, <1>4 DEF FileInv

\* A lookup knows what the cache knows.
LEMMA LooksFile ==
  ASSUME NEW c \in [Urls -> Entries], \A u \in Urls : EntryIndexed(stored, u, c[u]), Looks(c),
         NEW v \in Visitors
  PROVE  visit'[v] = visit[v] \/ VisitIndexed(stored, c, visit'[v])
<1>1. VisitIndexed(stored, c, Away)
  BY DEF VisitIndexed, Away
<1>2. ASSUME NEW u \in Urls PROVE VisitIndexed(stored, c, Looking(c, u))
  <2>1. /\ Looking(c, u).url = u /\ Looking(c, u).entry = c[u]
        /\ Looking(c, u).pc = "resumed" => c[u].status # "none"
    BY DEF Looking
  <2> QED BY <2>1 DEF VisitIndexed
<1> QED BY <1>1, <1>2 DEF Looks

\* The last step of a handler.
LEMMA FinishFile ==
  ASSUME FileInv, OneInv', UNCHANGED <<stored, late>>,
         NEW v \in Visitors, NEW c \in [Urls -> Entries], NEW a, Finish(v, c, a),
         \A u \in Urls : c[u] = cache[u] \/ (c[u].status # "none" /\ EntryIndexed(stored, u, c[u])),
         \A f \in Fills : fill'[f] = fill[f] \/ FillSole(stored, fill'[f]),
         a.what = "bytes" => stored[a.url][a.names] = Whole
  PROVE  FileInv'
<1>1. Looks(c) /\ Asks /\ cache' = c /\ said' = a
  BY FinishLooks DEF FileInv, OneInv, WholeInv
<1>2. \A u \in Urls : EntryIndexed(stored, u, c[u])
  BY DEF FileInv
<1>3. \A x \in Visitors : visit'[x] = visit[x] \/ VisitIndexed(stored, c, visit'[x])
  BY <1>1, <1>2, LooksFile
<1> QED BY <1>1, <1>3, FileFrame DEF Asks

\* A new download of a URL that is not in the index.
LEMMA StartFile ==
  ASSUME FileInv, OneInv', NEW v \in Visitors, StartFill(v)
  PROVE  FileInv'
<1>1. /\ visit[v].pc = "resumed" /\ visit[v].url \in Urls
      /\ visit[v].entry.status = "none" /\ cache[visit[v].url].status = "none"
  BY StartAlone DEF FileInv
<1>2. Unindexed(stored, visit[v].url)
  BY <1>1 DEF FileInv, VisitIndexed
<1>3. \A pc \in {"acquire", "refused"} : FillSole(stored, At(pc, visit[v].url))
  BY <1>2 DEF FillSole, At, Names
<1>4. fill \in [Fills -> FillSet] /\ cache \in [Urls -> Entries]
  BY DEF FileInv, OneInv, WholeInv, Types
<1>5. PICK f \in Free, pc \in {"acquire", "refused"} : fill' = [fill EXCEPT ![f] = At(pc, visit[v].url)]
  BY DEF StartFill, Launch
<1>6. \A g \in Fills : fill'[g] = fill[g] \/ FillSole(stored, fill'[g])
  BY <1>3, <1>4, <1>5
<1>7. Started(visit[v].url) \in [Urls -> Entries]
  BY <1>1, StartedType DEF FileInv, OneInv, WholeInv
<1>8. \A u \in Urls : \/ Started(visit[v].url)[u] = cache[u]
                      \/ /\ Started(visit[v].url)[u].status # "none"
                         /\ EntryIndexed(stored, u, Started(visit[v].url)[u])
  <2>1. \A u \in Urls : Started(visit[v].url)[u] \in {cache[u], Processing("queued")}
    BY <1>1, <1>4 DEF Started
  <2>2. \A u : EntryIndexed(stored, u, Processing("queued")) /\ Processing("queued").status # "none"
    BY EntryFields DEF EntryIndexed
  <2> QED BY <2>1, <2>2
<1>9. Say("processing", visit[v].url, None).what # "bytes"
  BY DEF Say
<1>10. Finish(v, Started(visit[v].url), Say("processing", visit[v].url, None)) /\ UNCHANGED <<stored, late>>
  BY DEF StartFill
<1> QED BY <1>6, <1>7, <1>8, <1>9, <1>10, FinishFile

\* Handlers keep the invariant.
LEMMA HandleFile ==
  ASSUME FileInv, OneInv', Undisturbed, NEW v \in Visitors, Handle(v)
  PROVE  FileInv'
<1>1. Types /\ WholeInv /\ cache \in [Urls -> Entries] /\ visit \in [Visitors -> VisitSet]
  BY DEF FileInv, OneInv, WholeInv, Types
<1>2. ASSUME NEW a, Finish(v, cache, a), UNCHANGED <<fill, stored, late>>,
             a.what = "bytes" => stored[a.url][a.names] = Whole
      PROVE  FileInv'
  BY <1>1, <1>2, FinishFile
<1>3. ASSUME NEW x, visit' = [visit EXCEPT ![v] = x], VisitIndexed(stored, cache, x), said' = Silence,
             UNCHANGED <<cache, pending, fill, stored, late>>
      PROVE  FileInv'
  <2>1. \A y \in Visitors : visit'[y] = visit[y] \/ VisitIndexed(stored, cache', visit'[y])
    BY <1>1, <1>3
  <2>2. said'.what # "bytes"
    BY <1>3 DEF Silence
  <2> QED BY <1>3, <2>1, <2>2, FileFrame
<1>4. ASSUME ServeReady(v) PROVE FileInv'
  <2> DEFINE x == [visit[v] EXCEPT !.pc = IF Redirects THEN "redirect" ELSE "read", !.entry = Found(v)]
  <2>1. x.url = visit[v].url /\ x.entry = Found(v) /\ x.pc # "resumed"
    BY <1>1 DEF VisitSet, VisitStates
  <2>2. visit[v].pc # "idle" /\ visit[v].url \in Urls
    BY <1>1, <1>4, BusyVisit DEF ServeReady
  <2>3. EntryIndexed(stored, visit[v].url, Found(v))
    BY <2>2 DEF FileInv, VisitIndexed, Found
  <2>4. VisitIndexed(stored, cache, x)
    BY <2>1, <2>3 DEF VisitIndexed
  <2>5. visit' = [visit EXCEPT ![v] = x]
    BY <1>4 DEF ServeReady
  <2> HIDE DEF x
  <2> QED BY <1>3, <1>4, <2>4, <2>5 DEF ServeReady
<1>5. ASSUME NoRedirect(v) PROVE FileInv'
  <2> DEFINE x == [visit[v] EXCEPT !.pc = "read"]
  <2>1. x.url = visit[v].url /\ x.entry = visit[v].entry /\ x.pc = "read"
    BY <1>1 DEF VisitSet, VisitStates
  <2>2. VisitIndexed(stored, cache, x)
    BY <1>5, <2>1 DEF NoRedirect, FileInv, VisitIndexed
  <2>3. visit' = [visit EXCEPT ![v] = x]
    BY <1>1, <1>5 DEF NoRedirect
  <2> HIDE DEF x
  <2> QED BY <1>3, <1>5, <2>2, <2>3 DEF NoRedirect
<1>6. ASSUME Stream(v) PROVE FileInv'
  <2>1. visit[v].pc = "read" /\ visit[v].entry.status = "ready" /\ visit[v].url \in Urls
    BY <1>1, <1>6, BusyVisit DEF Stream, VisitSet
  <2>2. stored[visit[v].url]["index"] = visit[v].entry.names /\ visit[v].entry.names \in Names
    BY <1>1, <2>1, BusyVisit, ReadyNames DEF FileInv, VisitIndexed, EntryIndexed
  <2>3. stored[visit[v].url][visit[v].entry.names] = Whole
    BY <2>1, <2>2 DEF FileInv, IndexWhole
  <2> DEFINE a == Say("bytes", visit[v].url, visit[v].entry.names)
  <2>4. stored[a.url][a.names] = Whole
    BY <2>3 DEF Say
  <2>5. Finish(v, cache, a) /\ UNCHANGED <<fill, stored, late>>
    BY <1>6 DEF Stream
  <2> HIDE DEF a
  <2> QED BY <1>2, <2>4, <2>5
<1>7. ASSUME ReportReady(v) \/ ReportRunning(v) \/ ReportError(v) \/ OfferRedirect(v) PROVE FileInv'
  <2>1. PICK what, n : /\ what # "bytes" /\ UNCHANGED <<fill, stored, late>>
                       /\ Finish(v, cache, Say(what, visit[v].url, n))
    BY <1>7 DEF ReportReady, ReportRunning, ReportError, OfferRedirect
  <2>2. Say(what, visit[v].url, n).what # "bytes"
    BY <2>1 DEF Say
  <2> QED BY <1>2, <2>1, <2>2
<1>8. ~ReadFails(v)
  BY <1>1, ReadsSucceed DEF Undisturbed
<1> QED BY <1>4, <1>5, <1>6, <1>7, <1>8, StartFile DEF Handle

\* What a write owes, of a download whose URL is not in the index: no entry,
\* load or visit knows an object of it, and no other download writes there.
LEMMA WriteFile ==
  ASSUME FileInv, OneInv', NEW f \in Fills, fill[f].pc # "idle", Unindexed(stored, fill[f].url),
         \A y \in Urls : y # fill[f].url => stored'[y] = stored[y],
         \/ Unindexed(stored', fill[f].url)
         \/ stored'[fill[f].url][stored'[fill[f].url]["index"]] = Whole,
         \A g \in Fills : g # f => fill'[g] = fill[g],
         FillSole(stored', fill'[f]),
         UNCHANGED <<cache, pending, visit, late>>, said' = Silence
  PROVE  FileInv'
<1>1. /\ Types /\ Alone /\ cache[fill[f].url].status # "none" /\ fill[f].url \in Urls
      /\ cache \in [Urls -> Entries]
  BY BusyFill DEF FileInv, OneInv, WholeInv, Claimed, Types
<1>2. IndexWhole(stored')
  BY DEF FileInv, IndexWhole, Unindexed
<1>3. ASSUME NEW u \in Urls
      PROVE  /\ NameIndexed(stored', u, pending[u])
             /\ EntryIndexed(stored', u, cache[u])
             /\ cache[u].status = "none" /\ pending[u] = "missed" => Unindexed(stored', u)
  <2>1. CASE u = fill[f].url
    BY <1>1, <2>1, ReadyNames DEF FileInv, NameIndexed, EntryIndexed, Unindexed
  <2>2. CASE u # fill[f].url
    BY <2>2 DEF FileInv, NameIndexed, EntryIndexed, Unindexed
  <2> QED BY <2>1, <2>2
<1>4. ASSUME NEW v \in Visitors PROVE VisitIndexed(stored', cache, visit[v])
  <2> SUFFICES ASSUME visit[v].pc # "idle" PROVE VisitIndexed(stored', cache, visit[v])
    BY DEF VisitIndexed
  <2>1. visit[v].url \in Urls /\ visit[v].entry \in Entries /\ VisitIndexed(stored, cache, visit[v])
    BY <1>1, BusyVisit DEF FileInv
  <2>2. CASE visit[v].url = fill[f].url
    BY <1>1, <2>1, <2>2, ReadyNames DEF VisitIndexed, EntryIndexed, Unindexed
  <2>3. CASE visit[v].url # fill[f].url
    BY <2>1, <2>3 DEF VisitIndexed, EntryIndexed, Unindexed
  <2> QED BY <2>2, <2>3
<1>5. ASSUME NEW g \in Fills PROVE FillSole(stored', fill'[g])
  <2>1. CASE g # f /\ fill[g].pc # "idle"
    <3>1. fill[g].url # fill[f].url /\ fill[g].url \in Urls
      BY <1>1, <2>1, BusyFill DEF Alone
    <3>2. stored'[fill[g].url] = stored[fill[g].url] /\ fill'[g] = fill[g]
      BY <2>1, <3>1
    <3> QED BY <3>2 DEF FileInv, FillSole, Unindexed
  <2>2. CASE g # f /\ fill[g].pc = "idle"
    BY <2>2 DEF FillSole
  <2> QED BY <2>1, <2>2
<1>6. said'.what # "bytes"
  BY DEF Silence
<1> QED BY <1>2, <1>3, <1>4, <1>5, <1>6 DEF FileInv

\* A write that begins.
LEMMA BeginFile == ASSUME FileInv, OneInv', NEW f \in Fills, WriteBegins(f) PROVE FileInv'
<1>1. /\ fill \in [Fills -> FillSet] /\ stored \in [Urls -> [Kinds -> Contents]]
      /\ Alone /\ FillSole(stored, fill[f])
  BY DEF FileInv, OneInv, WholeInv, Types
<1>2. PICK u \in Urls, k \in Kinds : fill[f].url = u /\ fill[f].pc = k
  BY <1>1 DEF WriteBegins, FillSet, Kinds
<1>3. fill[f].pc # "idle" /\ Unindexed(stored, u) /\ (k = "index" => stored[u][FillTarget(fill[f])] = Whole)
  BY <1>1, <1>2 DEF WriteBegins, FillSole, Kinds
<1>4. stored' = [stored EXCEPT ![u][k] = Torn]
  BY <1>2 DEF WriteBegins
<1>5. (\A y \in Urls : y # u => stored'[y] = stored[y])
      /\ \A n \in Kinds : stored'[u][n] = IF n = k THEN Torn ELSE stored[u][n]
  BY <1>1, <1>4
<1>6. Unindexed(stored', u)
  BY <1>3, <1>5, FillAssumption DEF Unindexed, Kinds
<1>7. Rivals(f) = {}
  <2> SUFFICES ASSUME NEW g \in Rivals(f) PROVE FALSE
    OBVIOUS
  <2>1. g = f
    BY <1>1, <1>3 DEF Rivals, Alone
  <2> QED BY <2>1 DEF Rivals, WriteBegins
<1>8. fill'[f] = [fill[f] EXCEPT !.write = "begun"] /\ \A g \in Fills : g # f => fill'[g] = fill[g]
  BY <1>7 DEF WriteBegins
<1>9. fill'[f].pc = k /\ fill'[f].url = u /\ fill'[f].write = "begun" /\ fill'[f].png = fill[f].png
  BY <1>1, <1>2, <1>8 DEF FillSet, FillStates
<1>10. FillTarget(fill'[f]) = FillTarget(fill[f]) /\ FillTarget(fill[f]) \in Kinds \ {"index"}
  BY <1>9 DEF FillTarget, Kinds
<1>11. k = "index" => stored'[u][FillTarget(fill'[f])] = Whole
  BY <1>3, <1>5, <1>10
<1>12. FillSole(stored', fill'[f])
  BY <1>6, <1>9, <1>11 DEF FillSole
<1>13. UNCHANGED <<cache, pending, visit, late>> /\ said' = Silence
  BY DEF WriteBegins
<1> QED BY <1>2, <1>3, <1>5, <1>6, <1>8, <1>12, <1>13, WriteFile

\* A write that takes effect: alone, it leaves what it wrote.
LEMMA LandFile == ASSUME FileInv, OneInv', NEW f \in Fills, WriteLands(f) PROVE FileInv'
<1>1. /\ fill \in [Fills -> FillSet] /\ stored \in [Urls -> [Kinds -> Contents]]
      /\ FillSole(stored, fill[f])
  BY DEF FileInv, OneInv, WholeInv, Types
<1>2. PICK u \in Urls, k \in Kinds : fill[f].url = u /\ fill[f].pc = k
  BY <1>1 DEF WriteLands, FillSet, Kinds
<1>3. fill[f].write \notin {"landed", "mixed"} /\ fill[f].pc # "idle"
  BY <1>1, <1>2 DEF WriteLands, FillSole, Kinds
<1>4. Unindexed(stored, u) /\ (k = "index" => stored[u][FillTarget(fill[f])] = Whole)
  BY <1>1, <1>2, <1>3 DEF FillSole
<1>5. stored' = [stored EXCEPT ![u][k] = Object(f)]
  BY <1>2, <1>3 DEF WriteLands
<1>6. Object(f) = IF k = "index" THEN FillTarget(fill[f]) ELSE Whole
  BY <1>2 DEF Object, Target, FillTarget
<1>7. (\A y \in Urls : y # u => stored'[y] = stored[y])
      /\ \A n \in Kinds : stored'[u][n] = IF n = k THEN Object(f) ELSE stored[u][n]
  BY <1>1, <1>5
<1>8. fill' = [fill EXCEPT ![f] = [fill[f] EXCEPT !.write = "landed"]]
  BY <1>1 DEF WriteLands
<1>9. \A g \in Fills : g # f => fill'[g] = fill[g]
  BY <1>1, <1>8
<1>10. fill'[f].pc = k /\ fill'[f].url = u /\ fill'[f].write = "landed" /\ fill'[f].png = fill[f].png
  BY <1>1, <1>2, <1>8 DEF FillSet, FillStates
<1>11. FillTarget(fill'[f]) = FillTarget(fill[f]) /\ FillTarget(fill[f]) \in Kinds \ {"index"}
  BY <1>10 DEF FillTarget, Kinds
<1>12. CASE k = "index"
  <2>1. stored'[u]["index"] = FillTarget(fill'[f]) /\ stored'[u][FillTarget(fill'[f])] = Whole
    BY <1>4, <1>6, <1>7, <1>11, <1>12
  <2>2. FillSole(stored', fill'[f])
    BY <1>10, <1>12, <2>1 DEF FillSole, Names
  <2> QED BY <1>2, <1>3, <1>4, <1>7, <1>9, <2>1, <2>2, WriteFile DEF WriteLands
<1>13. CASE k # "index"
  <2>1. Unindexed(stored', u)
    BY <1>4, <1>7, <1>13 DEF Unindexed, Kinds
  <2>2. stored'[u][k] = Whole
    BY <1>6, <1>7, <1>13
  <2>3. FillSole(stored', fill'[f])
    BY <1>10, <1>13, <2>1, <2>2 DEF FillSole
  <2> QED BY <1>2, <1>3, <1>4, <1>7, <1>9, <2>1, <2>3, WriteFile DEF WriteLands
<1> QED BY <1>12, <1>13

\* Without late writes nothing is left of one that is given up.
LEMMA NothingHeld == ASSUME LateWrites = FALSE, NEW fs, GiveUp(fs) PROVE late' = late
BY DEF GiveUp

\* A download that moves on, its write behind it.
LEMMA MoveFile ==
  ASSUME FileInv, OneInv', NEW f \in Fills, NEW x, FillSole(stored, x), fill' = [fill EXCEPT ![f] = x],
         \A u \in Urls : cache'[u] = cache[u]
                         \/ (cache'[u].status # "none" /\ EntryIndexed(stored, u, cache'[u])),
         said' = Silence, UNCHANGED <<pending, visit, stored, late>>
  PROVE  FileInv'
<1>1. fill \in [Fills -> FillSet]
  BY DEF FileInv, OneInv, WholeInv, Types
<1>2. \A g \in Fills : fill'[g] = fill[g] \/ FillSole(stored, fill'[g])
  BY <1>1
<1>3. said'.what # "bytes"
  BY DEF Silence
<1> QED BY <1>2, <1>3, FileFrame

\* Downloads keep the invariant.
LEMMA DownloadFile ==
  ASSUME FileInv, OneInv', LateWrites = FALSE, NEW f \in Fills, Download(f)
  PROVE  FileInv'
<1>1. /\ Types /\ cache \in [Urls -> Entries] /\ fill \in [Fills -> FillSet]
      /\ FillSafe(stored, fill[f]) /\ FillSole(stored, fill[f])
  BY DEF FileInv, OneInv, WholeInv, Types
<1>2. fill[f].pc # "idle" /\ fill[f] \in FillSet /\ fill[f].url \in Urls
  BY <1>1, BusyFill DEF Download, GetSlot, Respond, Retry, BackoffEnds, BodyEnds, WriteBegins, WriteLands,
         SourceWritten, Transformed, ProcessedWritten, IndexWritten, Refused, FillFails, MayFail,
         Kinds
<1>3. \A u, p : Processing(p).status # "none" /\ EntryIndexed(stored, u, Processing(p))
  BY EntryFields DEF EntryIndexed
<1>4. ASSUME NEW x, FillSole(stored, x), fill' = [fill EXCEPT ![f] = x],
             cache' = cache \/ \E p : cache' = Progress(f, p),
             said' = Silence, UNCHANGED <<pending, visit, stored, late>>
      PROVE  FileInv'
  <2>1. \A u \in Urls : cache'[u] = cache[u] \/ \E p : cache'[u] = Processing(p)
    BY <1>1, <1>2, <1>4 DEF Progress
  <2>2. \A u \in Urls : cache'[u] = cache[u]
                        \/ (cache'[u].status # "none" /\ EntryIndexed(stored, u, cache'[u]))
    BY <1>3, <2>1
  <2> QED BY <1>4, <2>2, MoveFile
<1>5. ASSUME NEW pc, Moves(f, pc, cache) \/ \E p : Moves(f, pc, Progress(f, p)), fill[f].pc # "index",
             pc = "index" => stored[fill[f].url][FillTarget(fill[f])] = Whole
      PROVE  FileInv'
  <2> DEFINE x == [fill[f] EXCEPT !.pc = pc, !.write = "sent"]
  <2>1. x.pc = pc /\ x.write = "sent" /\ x.url = fill[f].url /\ x.png = fill[f].png
    BY <1>2 DEF FillSet, FillStates
  <2>2. /\ fill' = [fill EXCEPT ![f] = x] /\ said' = Silence
        /\ UNCHANGED <<pending, visit, stored, late>>
    BY <1>5 DEF Moves
  <2>3. cache' = cache \/ \E p : cache' = Progress(f, p)
    BY <1>5 DEF Moves
  <2> HIDE DEF x
  <2>4. Unindexed(stored, fill[f].url)
    BY <1>1, <1>2, <1>5 DEF FillSole
  <2>5. FillSole(stored, x)
    BY <1>5, <2>1, <2>4 DEF FillSole, FillTarget
  <2> QED BY <1>4, <2>2, <2>3, <2>5
<1>6. ASSUME GetSlot(f) \/ Respond(f) \/ BackoffEnds(f) \/ Transformed(f) PROVE FileInv'
  BY <1>5, <1>6 DEF GetSlot, Respond, BackoffEnds, Transformed
<1>7. ASSUME Retry(f) \/ BodyEnds(f) PROVE FileInv'
  <2>1. PICK x \in {[fill[f] EXCEPT !.pc = "backoff", !.attempt = Counted(f)]}
                   \cup {[fill[f] EXCEPT !.pc = "source", !.png = png] : png \in Formats} :
          fill' = [fill EXCEPT ![f] = x]
    BY <1>1, <1>7 DEF Retry, BodyEnds
  <2>2. x.url = fill[f].url /\ x.write = fill[f].write /\ x.pc \in {"backoff", "source"}
    BY <1>2, <2>1 DEF FillSet, FillStates
  <2>3. fill[f].write = "sent" /\ fill[f].pc # "index"
    BY <1>1, <1>7 DEF Retry, BodyEnds, FillSafe, Kinds
  <2>4. FillSole(stored, x)
    BY <1>1, <1>2, <2>2, <2>3 DEF FillSole
  <2>5. /\ \E p : cache' = Progress(f, p)
        /\ said' = Silence /\ UNCHANGED <<pending, visit, stored, late>>
    BY <1>7 DEF Retry, BodyEnds
  <2> QED BY <1>4, <2>1, <2>4, <2>5
<1>8. ASSUME WriteBegins(f) PROVE FileInv'
  BY <1>8, BeginFile
<1>9. ASSUME WriteLands(f) PROVE FileInv'
  BY <1>9, LandFile
<1>10. ASSUME SourceWritten(f) PROVE FileInv'
  <2>1. stored[fill[f].url]["source"] = Whole /\ fill[f].pc = "source"
    BY <1>1, <1>10 DEF SourceWritten, Written, FillSole, Names
  <2> QED BY <1>5, <1>10, <2>1 DEF SourceWritten, Indexing, FillTarget
<1>11. ASSUME ProcessedWritten(f) PROVE FileInv'
  <2>1. stored[fill[f].url]["processed"] = Whole /\ fill[f].pc = "processed" /\ fill[f].png = TRUE
    BY <1>1, <1>11 DEF ProcessedWritten, Written, FillSole, FillSafe, Names
  <2> QED BY <1>5, <1>11, <2>1 DEF ProcessedWritten, Indexing, FillTarget
<1>12. FillSole(stored, Unused)
  BY DEF FillSole, Unused, At
<1>13. ASSUME NEW e, e.status # "none", EntryIndexed(stored, fill[f].url, e), Ends(f, e), late' = late
       PROVE  FileInv'
  <2>1. \A u \in Urls : cache'[u] = cache[u]
                        \/ (cache'[u].status # "none" /\ EntryIndexed(stored, u, cache'[u]))
    BY <1>1, <1>13 DEF Ends
  <2> QED BY <1>12, <1>13, <2>1, MoveFile DEF Ends
<1>14. ASSUME IndexWritten(f) PROVE FileInv'
  <2>1. stored[fill[f].url]["index"] = Target(f)
    BY <1>1, <1>2, <1>14 DEF IndexWritten, Written, FillSole, FillTarget, Target
  <2>2. Ready(Target(f)).status # "none" /\ EntryIndexed(stored, fill[f].url, Ready(Target(f)))
    BY <2>1, EntryFields DEF EntryIndexed
  <2> QED BY <1>13, <1>14, <2>2 DEF IndexWritten
<1>15. ASSUME FillFails(f) PROVE FileInv'
  <2>1. Failed.status # "none" /\ EntryIndexed(stored, fill[f].url, Failed)
    BY EntryFields DEF EntryIndexed
  <2> QED BY <1>13, <1>15, <2>1, NothingHeld DEF FillFails
<1>16. ASSUME Refused(f) PROVE FileInv'
  <2>1. Failed.status # "none" /\ EntryIndexed(stored, fill[f].url, Failed)
    BY EntryFields DEF EntryIndexed
  <2> QED BY <1>13, <1>16, <2>1 DEF Refused
<1> QED BY <1>6, <1>7, <1>8, <1>9, <1>10, <1>11, <1>14, <1>15, <1>16 DEF Download

\* Loads keep the invariant: what is missed is not in the index.
LEMMA LoadFile ==
  ASSUME FileInv, OneInv', Undisturbed, NEW u \in Urls, LoadReads(u) \/ LoadLands(u)
  PROVE  FileInv'
<1>1. /\ cache \in [Urls -> Entries] /\ pending \in [Urls -> Loading] /\ visit \in [Visitors -> VisitSet]
  BY DEF FileInv, OneInv, WholeInv, Types
<1>2. Silence.what # "bytes"
  BY DEF Silence
<1>3. CASE LoadReads(u)
  <2>1. pending' = [pending EXCEPT ![u] = IF stored[u]["index"] \in Names THEN stored[u]["index"] ELSE "missed"]
    BY <1>3 DEF LoadReads, Undisturbed
  <2>2. \A x \in Urls : \/ pending'[x] \in {pending[x], "idle", "asked"}
                        \/ pending'[x] \in Names /\ NameIndexed(stored, x, pending'[x])
                        \/ pending'[x] = "missed" /\ Unindexed(stored, x)
    BY <1>1, <2>1 DEF NameIndexed, Unindexed
  <2>3. said' = Silence /\ UNCHANGED <<cache, visit, fill, stored, late>>
    BY <1>3 DEF LoadReads
  <2> QED BY <1>2, <2>2, <2>3, FileFrame
<1>4. CASE LoadLands(u)
  <2> DEFINE entry == IF pending[u] \in Names THEN Ready(pending[u]) ELSE Blank
  <2>1. EntryIndexed(stored, u, entry) /\ (entry = Blank \/ entry.status = "ready")
    BY EntryFields DEF EntryIndexed, FileInv, NameIndexed
  <2>2. pending[u] \in Names \cup {"missed"} /\ (entry.status = "none" => pending[u] = "missed")
    BY <1>4, EntryFields DEF LoadLands
  <2>3. /\ cache' = IF entry = Blank THEN cache ELSE [cache EXCEPT ![u] = entry]
        /\ visit' = [v \in Visitors |->
                       IF v \in Joined(u) THEN [visit[v] EXCEPT !.pc = "resumed", !.entry = entry]
                       ELSE visit[v]]
        /\ pending' = [pending EXCEPT ![u] = "idle"]
        /\ said' = Silence /\ UNCHANGED <<fill, stored, late>>
    BY <1>4 DEF LoadLands
  <2> HIDE DEF entry
  <2>4. \A x \in Urls : cache'[x] = cache[x]
                        \/ (cache'[x].status # "none" /\ EntryIndexed(stored, x, cache'[x]))
    BY <1>1, <2>1, <2>3
  <2>5. entry.status = "none" /\ cache'[u].status = "none" => Unindexed(stored, u)
    <3>1. cache'[u].status = "none" => cache[u].status = "none"
      BY <2>4
    <3> QED BY <2>2, <3>1 DEF FileInv
  <2>6. ASSUME NEW v \in Visitors
        PROVE  visit'[v] = visit[v] \/ VisitIndexed(stored, cache', visit'[v])
    <3>1. CASE v \in Joined(u)
      <4>1. visit'[v].url = u /\ visit'[v].entry = entry
        BY <1>1, <2>3, <3>1 DEF Joined, VisitSet, VisitStates
      <4> QED BY <2>1, <2>5, <4>1 DEF VisitIndexed
    <3>2. CASE v \notin Joined(u)
      BY <2>3, <3>2
    <3> QED BY <3>1, <3>2
  <2>7. \A x \in Urls : pending'[x] \in {pending[x], "idle"}
    BY <1>1, <2>3
  <2> QED BY <1>2, <2>3, <2>4, <2>6, <2>7, FileFrame
<1> QED BY <1>3, <1>4

\* Time and crashes keep the invariant.
LEMMA EnvironmentFile ==
  ASSUME FileInv, OneInv', Undisturbed, LateWrites = FALSE, Environment
  PROVE  FileInv'
<1>1. CASE Crash
  <2>1. /\ \A u \in Urls : cache'[u] = Blank /\ pending'[u] = "idle"
        /\ \A v \in Visitors : visit'[v] = Away
        /\ \A f \in Fills : fill'[f] = Unused
        /\ said' = Silence /\ stored' = stored /\ late' = late
    BY <1>1, NothingHeld DEF Crash
  <2>2. /\ \A u : EntryIndexed(stored, u, Blank) /\ NameIndexed(stored, u, "idle")
        /\ VisitIndexed(stored, cache', Away) /\ FillSole(stored, Unused) /\ Silence.what # "bytes"
    BY EntryFields DEF EntryIndexed, NameIndexed, VisitIndexed, FillSole, Away, Unused, At, Silence, Names
  <2> QED BY <2>1, <2>2 DEF FileInv
<1>2. ~\E w \in late : LateLands(w)
  BY DEF FileInv
<1>3. ~\E u \in Urls : AgeError(u)
  BY DEF AgeError, Undisturbed
<1>4. ~\E u \in Urls, kind \in Losable : Lose(u, kind)
  BY DEF Undisturbed
<1> QED BY <1>1, <1>2, <1>3, <1>4 DEF Environment

\* A new store names nothing.
LEMMA FileInit == Init => FileInv
<1> SUFFICES ASSUME Init PROVE FileInv
  OBVIOUS
<1>1. \A u \in Urls : Unindexed(stored, u)
  BY FillAssumption DEF Init, Unindexed, Kinds, Names
<1>2. IndexWhole(stored)
  BY <1>1 DEF IndexWhole, Unindexed
<1>3. \A u \in Urls : NameIndexed(stored, u, pending[u]) /\ EntryIndexed(stored, u, cache[u])
  BY EntryFields DEF Init, NameIndexed, EntryIndexed, Names
<1>4. (\A v \in Visitors : VisitIndexed(stored, cache, visit[v])) /\ \A f \in Fills : FillSole(stored, fill[f])
  BY DEF Init, VisitIndexed, FillSole, Away, Unused, At
<1>5. late = {} /\ said.what # "bytes"
  BY DEF Init, Silence
<1> QED BY <1>1, <1>2, <1>3, <1>4, <1>5, OneInit DEF FileInv

\* Every step keeps the invariant.
LEMMA FileStep ==
  ASSUME Undisturbed, LateWrites = FALSE
  PROVE  FileInv /\ [Next]_vars => FileInv'
<1> SUFFICES ASSUME FileInv, [Next]_vars PROVE FileInv'
  OBVIOUS
<1>1. OneInv'
  BY OneStep DEF FileInv
<1>2. Types /\ cache \in [Urls -> Entries]
  BY DEF FileInv, OneInv, WholeInv, Types
<1>3. CASE Request
  <2>1. Looks(cache) /\ Asks /\ said' = Silence /\ UNCHANGED <<cache, fill, stored, late>>
    BY <1>2, <1>3, RequestLooks DEF Undisturbed, Request, Refresh
  <2>2. \A x \in Visitors : visit'[x] = visit[x] \/ VisitIndexed(stored, cache', visit'[x])
    BY <1>2, <2>1, LooksFile DEF FileInv
  <2>3. said'.what # "bytes"
    BY <2>1 DEF Silence
  <2> QED BY <1>1, <2>1, <2>2, <2>3, FileFrame DEF Asks
<1>4. ASSUME NEW u \in Urls, LoadReads(u) \/ LoadLands(u) PROVE FileInv'
  BY <1>1, <1>4, LoadFile
<1>5. ASSUME NEW v \in Visitors, Handle(v) PROVE FileInv'
  BY <1>1, <1>5, HandleFile
<1>6. ASSUME NEW f \in Fills, Download(f) PROVE FileInv'
  BY <1>1, <1>6, DownloadFile
<1>7. CASE Environment
  BY <1>1, <1>7, EnvironmentFile
<1>8. CASE UNCHANGED vars
  BY <1>1, <1>8 DEF vars, FileInv, VisitIndexed
<1> QED BY <1>3, <1>4, <1>5, <1>6, <1>7, <1>8 DEF Next

\* Under the same conditions, where no write takes effect after it was given
\* up, on a file system as on S3, and with crashes in the middle of any write:
\* memory and index agree and name whole objects, and no half-written object
\* is streamed.
THEOREM MemoryMatchesIndex ==
  ASSUME Undisturbed, LateWrites = FALSE
  PROVE  Spec => [](PointersWhole /\ ReadyIsIndexed /\ ServesWhole /\ ReadyMatchesIndex)
<1>1. FileInv /\ [Next]_vars => FileInv'
  BY FileStep
<1>2. Spec => []FileInv
  BY <1>1, FileInit, PTL DEF Spec
<1> QED BY <1>2, FileInvImplies, PTL

-----------------------------------------------------------------------------
(***************************************************************************)
(* No handler is left behind: the part of VisitsAnswered that is safety.   *)
(***************************************************************************)
\* A visit that waits for a load has one under way, whose end resumes it; one
\* that may have to start a download finds room for it, so that the bound on
\* downloads never holds a handler up.
NobodyStranded ==
  \A v \in Visitors :
    /\ visit[v].pc = "load" => pending[visit[v].url] # "idle"
    /\ visit[v].pc \in {"resumed", "redirect", "read"} => Free # {}

Busy == {v \in Visitors : visit[v].pc # "idle"}
LoadsRun == \A v \in Visitors : visit[v].pc = "load" => pending[visit[v].url] # "idle"
RoomLeft == IsFiniteSet(Busy) /\ Cardinality(Free) >= Len(todo) + Cardinality(Busy)

GoesOn == Types /\ LoadsRun /\ RoomLeft

\* The numbers of RoomLeft.
LEMMA RoomNumbers ==
  ASSUME IsFiniteSet(Fills), Types, IsFiniteSet(Busy)
  PROVE  IsFiniteSet(Free) /\ {Cardinality(Free), Len(todo), Cardinality(Busy)} \subseteq Nat
<1>1. IsFiniteSet(Free)
  BY FS_Subset DEF Free
<1> QED BY <1>1, FS_CardinalityType DEF Types

\* The invariant implies the property.
LEMMA GoesOnImplies == ASSUME IsFiniteSet(Fills), GoesOn PROVE NobodyStranded
<1>1. ASSUME NEW v \in Visitors, visit[v].pc \in {"resumed", "redirect", "read"} PROVE Free # {}
  <2>1. v \in Busy
    BY <1>1 DEF Busy
  <2>2. Cardinality(Busy) # 0
    BY <2>1, FS_EmptySet DEF GoesOn, RoomLeft
  <2>3. Cardinality(Free) # 0
    BY <2>2, RoomNumbers DEF GoesOn, RoomLeft
  <2> QED BY <2>3, FS_EmptySet
<1> QED BY <1>1 DEF NobodyStranded, GoesOn, LoadsRun

\* What a step owes in which no visit begins and no download starts.
LEMMA RoomFrame ==
  ASSUME IsFiniteSet(Fills), Types, RoomLeft, todo' = todo, Free \subseteq Free', Busy' \subseteq Busy
  PROVE  RoomLeft'
<1>1. IsFiniteSet(Free') /\ Free' \subseteq Fills
  BY FS_Subset DEF Free
<1>2. Cardinality(Free) <= Cardinality(Free')
  BY <1>1, FS_Subset
<1>3. IsFiniteSet(Busy') /\ Cardinality(Busy') <= Cardinality(Busy)
  BY FS_Subset DEF RoomLeft
<1>4. {Cardinality(Free), Cardinality(Free'), Len(todo), Cardinality(Busy), Cardinality(Busy')} \subseteq Nat
  BY <1>1, <1>3, RoomNumbers, FS_CardinalityType DEF RoomLeft
<1> QED BY <1>2, <1>3, <1>4 DEF RoomLeft

\* Loads stay under way for whom waits for them, where visits only look up.
LEMMA LooksLoads ==
  ASSUME Types, LoadsRun, NEW c \in [Urls -> Entries], Looks(c), Asks
  PROVE  LoadsRun'
<1> SUFFICES ASSUME NEW v \in Visitors, visit'[v].pc = "load" PROVE pending'[visit'[v].url] # "idle"
  BY DEF LoadsRun
<1>1. CASE visit'[v] = visit[v]
  <2>1. visit[v].url \in Urls
    BY <1>1, BusyVisit
  <2> QED BY <1>1, <2>1 DEF LoadsRun, Asks
<1>2. CASE visit'[v] = Away
  BY <1>2 DEF Away
<1>3. ASSUME NEW u \in Urls, visit'[v] = Looking(c, u), c[u].status = "none" => pending'[u] # "idle"
      PROVE  pending'[visit'[v].url] # "idle"
  BY <1>3, LookingType
<1> QED BY <1>1, <1>2, <1>3 DEF Looks

\* Who answers makes room for one: its own visit is over, or its batch has one
\* URL less to look up.
LEMMA FinishRoom ==
  ASSUME Types, IsFiniteSet(Busy), NEW v \in Visitors, visit[v].pc # "idle", NEW c, NEW a, Finish(v, c, a)
  PROVE  /\ IsFiniteSet(Busy') /\ Cardinality(Busy') \in Nat /\ Len(todo') \in Nat
         /\ Len(todo') + Cardinality(Busy') + 1 = Len(todo) + Cardinality(Busy)
<1>1. visit \in [Visitors -> VisitSet] /\ todo \in Seq(Urls) /\ v \in Busy
  BY DEF Types, Busy
<1>2. Len(todo) \in Nat /\ Cardinality(Busy) \in Nat
  BY <1>1, FS_CardinalityType
<1>3. CASE v \in Workers /\ todo # <<>>
  <2>1. visit' = [visit EXCEPT ![v] = Looking(c, Head(todo))] /\ todo' = Tail(todo)
    BY <1>3 DEF Finish
  <2>2. Looking(c, Head(todo)).pc # "idle"
    BY DEF Looking
  <2>3. Busy' = Busy
    BY <1>1, <2>1, <2>2 DEF Busy
  <2>4. Len(todo') = Len(todo) - 1 /\ Len(todo) # 0
    BY <1>1, <1>3, <2>1
  <2> QED BY <1>2, <2>3, <2>4
<1>4. CASE ~(v \in Workers /\ todo # <<>>)
  <2>1. visit' = [visit EXCEPT ![v] = Away] /\ todo' = todo
    BY <1>4 DEF Finish
  <2>2. Busy' = Busy \ {v}
    BY <1>1, <2>1 DEF Busy, Away
  <2>3. IsFiniteSet(Busy') /\ Cardinality(Busy') = Cardinality(Busy) - 1
    BY <1>1, <2>2, FS_RemoveElement
  <2>4. Cardinality(Busy') \in Nat
    BY <2>3, FS_CardinalityType
  <2> QED BY <1>2, <2>1, <2>3, <2>4
<1> QED BY <1>3, <1>4

\* A download that starts takes one slot of the room.
LEMMA LaunchRoom ==
  ASSUME IsFiniteSet(Fills), Types, NEW u, \E f \in Free : Launch(f, u)
  PROVE  Cardinality(Free') \in Nat /\ Cardinality(Free') + 1 = Cardinality(Free)
<1>1. PICK f \in Free, pc \in {"acquire", "refused"} : fill' = [fill EXCEPT ![f] = At(pc, u)]
  BY DEF Launch
<1>2. Free' = Free \ {f}
  BY <1>1 DEF Types, Free, At
<1>3. IsFiniteSet(Free)
  BY FS_Subset DEF Free
<1>4. Cardinality(Free) \in Nat /\ Cardinality(Free') = Cardinality(Free) - 1 /\ IsFiniteSet(Free')
  BY <1>1, <1>2, <1>3, FS_RemoveElement, FS_CardinalityType
<1>5. Cardinality(Free') \in Nat
  BY <1>4, FS_CardinalityType
<1> QED BY <1>4, <1>5

\* Requests come only where there is room for them.
LEMMA RequestGoesOn == ASSUME IsFiniteSet(Fills), GoesOn, Types', Request PROVE GoesOn'
<1>1. /\ Types /\ LoadsRun /\ RoomLeft /\ cache \in [Urls -> Entries]
      /\ visit \in [Visitors -> VisitSet] /\ todo \in Seq(Urls)
  BY DEF GoesOn, Types
<1>2. IsFiniteSet(Busy) /\ {Cardinality(Free), Len(todo), Cardinality(Busy)} \subseteq Nat
  BY <1>1, RoomNumbers DEF RoomLeft
<1>3. ASSUME NEW v \in Clients, NEW u \in Urls, Visit(v, u) PROVE GoesOn'
  <2>1. Looks(cache) /\ Asks
    BY <1>1, <1>3, RequestLooks
  <2>2. LoadsRun'
    BY <1>1, <2>1, LooksLoads
  <2>3. v \in Visitors /\ v \notin Busy /\ Cardinality(Free) >= 1 + Len(todo) + Cardinality(Busy)
    BY <1>3 DEF Visit, RoomFor, Busy, Visitors
  <2>4. Busy' \subseteq Busy \cup {v}
    BY <1>1, <1>3 DEF Visit, Busy
  <2>5. IsFiniteSet(Busy \cup {v}) /\ Cardinality(Busy \cup {v}) = Cardinality(Busy) + 1
    BY <1>2, <2>3, FS_AddElement
  <2>6. IsFiniteSet(Busy') /\ Cardinality(Busy') <= Cardinality(Busy) + 1
    BY <2>4, <2>5, FS_Subset
  <2>7. Cardinality(Busy') \in Nat
    BY <2>6, FS_CardinalityType
  <2>8. Free' = Free /\ todo' = todo
    BY <1>3 DEF Visit, Free
  <2> QED BY <1>1, <1>2, <2>2, <2>3, <2>6, <2>7, <2>8 DEF GoesOn, RoomLeft
<1>4. ASSUME NEW urls \in Batches, Batch(urls) PROVE GoesOn'
  <2>1. Looks(cache) /\ Asks
    BY <1>1, <1>4, RequestLooks
  <2>2. LoadsRun'
    BY <1>1, <2>1, LooksLoads
  <2>3. PICK first \in [Workers -> 1..Cardinality(Workers)] :
          /\ \A w, x \in Workers : first[w] = first[x] => w = x
          /\ visit' = [v \in Visitors |->
                         IF v \in Workers /\ first[v] <= Len(urls) THEN Looking(cache, urls[first[v]])
                         ELSE visit[v]]
          /\ todo' = SubSeq(urls, Cardinality({w \in Workers : first[w] <= Len(urls)}) + 1, Len(urls))
    BY <1>4 DEF Batch
  <2> DEFINE takers == {w \in Workers : first[w] <= Len(urls)}
             n == Cardinality(takers)
  <2>4. urls \in Seq(Urls) /\ Len(urls) \in Nat /\ Cardinality(Workers) \in Nat
    BY FillAssumption, FS_CardinalityType
  <2>5. IsFiniteSet(takers)
    BY FillAssumption, FS_Subset
  <2>6. n \in Nat /\ n <= Len(urls)
    <3> DEFINE place == [w \in takers |-> first[w]]
    <3>1. place \in Injection(takers, 1..Len(urls))
      BY <2>3, <2>4 DEF Injection, IsInjective
    <3>2. IsFiniteSet(1..Len(urls)) /\ Cardinality(1..Len(urls)) = Len(urls)
      <4>1. ASSUME NEW k \in Nat PROVE IsFiniteSet(1..k) /\ Cardinality(1..k) = k
        <5>1. 1 \in Int /\ k \in Int
          OBVIOUS
        <5>2. IsFiniteSet(1..k) /\ Cardinality(1..k) = IF 1 > k THEN 0 ELSE k - 1 + 1
          BY <5>1, FS_Interval, Zenon
        <5>3. (IF 1 > k THEN 0 ELSE k - 1 + 1) = k
          OBVIOUS
        <5> QED BY <5>2, <5>3
      <4> QED BY <2>4, <4>1
    <3> HIDE DEF place, takers
    <3> QED BY <2>5, <3>1, <3>2, FS_Injection, FS_CardinalityType
  <2>7. todo' = SubSeq(urls, n + 1, Len(urls))
    BY <2>3
  <2>8. Busy' \subseteq Busy \cup takers
    BY <2>3 DEF Busy
  <2> HIDE DEF takers
  <2>9. Len(todo') = Len(urls) - n
    <3> HIDE DEF n
    <3> QED BY <2>4, <2>6, <2>7
  <2>10. IsFiniteSet(Busy \cup takers) /\ Cardinality(Busy \cup takers) <= Cardinality(Busy) + n
    <3>1. IsFiniteSet(Busy \cap takers) /\ Cardinality(Busy \cap takers) \in Nat
      BY <1>2, FS_Subset, FS_CardinalityType
    <3>2. /\ IsFiniteSet(Busy \cup takers)
          /\ Cardinality(Busy \cup takers)
               = Cardinality(Busy) + Cardinality(takers) - Cardinality(Busy \cap takers)
      BY <1>2, <2>5, FS_Union, Zenon
    <3>3. Cardinality(Busy) \in Nat /\ Cardinality(takers) \in Nat
      BY <1>2, <2>5, FS_CardinalityType
    <3> QED BY <3>1, <3>2, <3>3
  <2>11. IsFiniteSet(Busy') /\ Cardinality(Busy') <= Cardinality(Busy \cup takers)
    BY <2>8, <2>10, FS_Subset
  <2>12. Cardinality(Busy') \in Nat /\ Cardinality(Busy \cup takers) \in Nat
    BY <2>10, <2>11, FS_CardinalityType
  <2>13. Cardinality(Free) >= Len(urls) + Len(todo) + Cardinality(Busy) /\ Free' = Free
    BY <1>4 DEF Batch, RoomFor, Busy, Free
  <2> HIDE DEF n
  <2> QED BY <1>2, <2>2, <2>4, <2>6, <2>9, <2>10, <2>11, <2>12, <2>13 DEF GoesOn, RoomLeft
<1>5. ASSUME NEW u \in Urls, Refresh(u) PROVE GoesOn'
  <2>1. Cardinality(Free) >= 1 + Len(todo) + Cardinality(Busy)
    BY <1>5 DEF Refresh, RoomFor, Busy
  <2>2. Cardinality(Free') \in Nat /\ Cardinality(Free') + 1 = Cardinality(Free)
    BY <1>1, <1>5, LaunchRoom DEF Refresh
  <2>3. UNCHANGED <<pending, visit, todo>>
    BY <1>5 DEF Refresh
  <2>4. Busy' = Busy /\ LoadsRun'
    BY <1>1, <2>3 DEF Busy, LoadsRun
  <2> QED BY <1>2, <2>1, <2>2, <2>3, <2>4 DEF GoesOn, RoomLeft
<1> QED BY <1>3, <1>4, <1>5 DEF Request

\* Handlers keep the invariant.
LEMMA HandleGoesOn ==
  ASSUME IsFiniteSet(Fills), GoesOn, Types', NEW v \in Visitors, Handle(v)
  PROVE  GoesOn'
<1>1. /\ Types /\ LoadsRun /\ RoomLeft /\ cache \in [Urls -> Entries] /\ visit \in [Visitors -> VisitSet]
  BY DEF GoesOn, Types
<1>2. IsFiniteSet(Busy) /\ {Cardinality(Free), Len(todo), Cardinality(Busy)} \subseteq Nat
  BY <1>1, RoomNumbers DEF RoomLeft
<1>3. ASSUME visit[v].pc # "idle", NEW c \in [Urls -> Entries], NEW a, Finish(v, c, a),
             fill' = fill \/ \E f \in Free : Launch(f, visit[v].url)
      PROVE  GoesOn'
  <2>1. Looks(c) /\ Asks
    BY <1>1, <1>3, FinishLooks
  <2>2. LoadsRun'
    BY <1>1, <2>1, LooksLoads
  <2>3. /\ IsFiniteSet(Busy') /\ Cardinality(Busy') \in Nat /\ Len(todo') \in Nat
        /\ Len(todo') + Cardinality(Busy') + 1 = Len(todo) + Cardinality(Busy)
    BY <1>1, <1>2, <1>3, FinishRoom
  <2>4. CASE fill' = fill
    <3>1. Free' = Free
      BY <2>4 DEF Free
    <3> QED BY <1>1, <1>2, <2>2, <2>3, <3>1 DEF GoesOn, RoomLeft
  <2>5. CASE \E f \in Free : Launch(f, visit[v].url)
    <3>1. Cardinality(Free') \in Nat /\ Cardinality(Free') + 1 = Cardinality(Free)
      BY <1>1, <2>5, LaunchRoom
    <3> QED BY <1>1, <1>2, <2>2, <2>3, <3>1 DEF GoesOn, RoomLeft
  <2> QED BY <1>3, <2>4, <2>5
<1>4. ASSUME ServeReady(v) \/ NoRedirect(v) PROVE GoesOn'
  <2>1. /\ visit[v].pc # "idle" /\ visit'[v].pc # "load"
        /\ \A x \in Visitors \ {v} : visit'[x] = visit[x]
    <3>1. DOMAIN visit = Visitors
      BY <1>1
    <3>2. CASE ServeReady(v)
      BY <3>1, <3>2 DEF ServeReady
    <3>3. CASE NoRedirect(v)
      BY <3>1, <3>3 DEF NoRedirect
    <3> QED BY <1>4, <3>2, <3>3
  <2>2. UNCHANGED <<pending, todo, fill>>
    BY <1>4 DEF ServeReady, NoRedirect
  <2>3. LoadsRun' /\ Free' = Free
    BY <1>1, <2>1, <2>2 DEF LoadsRun, Free
  <2>4. Busy' \subseteq Busy
    BY <2>1 DEF Busy
  <2>5. RoomLeft'
    BY <1>1, <2>2, <2>3, <2>4, RoomFrame
  <2> QED BY <2>3, <2>5 DEF GoesOn
<1>5. ASSUME ReportReady(v) \/ ReportRunning(v) \/ ReportError(v) \/ OfferRedirect(v) \/ Stream(v)
      PROVE  GoesOn'
  <2>1. /\ visit[v].pc # "idle" /\ fill' = fill /\ \E a : Finish(v, cache, a)
    BY <1>5 DEF ReportReady, ReportRunning, ReportError, OfferRedirect, Stream
  <2> QED BY <1>1, <1>3, <2>1
<1>6. ASSUME StartFill(v) \/ ReadFails(v) PROVE GoesOn'
  <2>1. /\ visit[v].pc # "idle" /\ \E f \in Free : Launch(f, visit[v].url)
        /\ \E a : Finish(v, Started(visit[v].url), a)
    BY <1>6 DEF StartFill, ReadFails, Refetch
  <2>2. Started(visit[v].url) \in [Urls -> Entries]
    BY <1>1, <2>1, BusyVisit, StartedType
  <2> QED BY <1>3, <2>1, <2>2
<1> QED BY <1>4, <1>5, <1>6 DEF Handle

\* A load that is read stays under way, and one that lands resumes all that wait.
LEMMA LoadGoesOn ==
  ASSUME IsFiniteSet(Fills), GoesOn, Types', NEW u \in Urls, LoadReads(u) \/ LoadLands(u)
  PROVE  GoesOn'
<1>1. /\ Types /\ LoadsRun /\ RoomLeft /\ pending \in [Urls -> Loading] /\ visit \in [Visitors -> VisitSet]
  BY DEF GoesOn, Types
<1>2. UNCHANGED <<todo, fill>>
  BY DEF LoadReads, LoadLands
<1>3. Free' = Free
  BY <1>2 DEF Free
<1>4. CASE LoadReads(u)
  <2>1. visit' = visit /\ \A x \in Urls : pending'[x] = pending[x] \/ pending'[x] \in Names \cup {"missed"}
    BY <1>1, <1>4 DEF LoadReads
  <2>2. LoadsRun'
    <3> SUFFICES ASSUME NEW v \in Visitors, visit[v].pc = "load" PROVE pending'[visit[v].url] # "idle"
      BY <2>1 DEF LoadsRun
    <3>1. visit[v].url \in Urls /\ pending[visit[v].url] # "idle"
      BY <1>1, BusyVisit DEF LoadsRun
    <3> QED BY <2>1, <3>1 DEF Names
  <2>3. Busy' = Busy
    BY <2>1 DEF Busy
  <2> QED BY <1>1, <1>2, <1>3, <2>2, <2>3, RoomFrame DEF GoesOn
<1>5. CASE LoadLands(u)
  <2>1. PICK entry : visit' = [v \in Visitors |->
                       IF v \in Joined(u) THEN [visit[v] EXCEPT !.pc = "resumed", !.entry = entry]
                       ELSE visit[v]]
    BY <1>5 DEF LoadLands
  <2>2. \A v \in Visitors : \/ v \in Joined(u) /\ visit'[v].pc = "resumed"
                            \/ v \notin Joined(u) /\ visit'[v] = visit[v]
    BY <1>1, <2>1 DEF VisitSet, VisitStates
  <2>3. \A x \in Urls : x # u => pending'[x] = pending[x]
    BY <1>1, <1>5 DEF LoadLands
  <2>4. LoadsRun'
    <3> SUFFICES ASSUME NEW v \in Visitors, visit'[v].pc = "load" PROVE pending'[visit'[v].url] # "idle"
      BY DEF LoadsRun
    <3>1. visit'[v] = visit[v] /\ visit[v].url # u
      BY <2>2 DEF Joined
    <3>2. visit[v].url \in Urls
      BY <1>1, <3>1, BusyVisit
    <3> QED BY <1>1, <2>3, <3>1, <3>2 DEF LoadsRun
  <2>5. Busy' \subseteq Busy
    BY <2>2 DEF Busy, Joined
  <2> QED BY <1>1, <1>2, <1>3, <2>4, <2>5, RoomFrame DEF GoesOn
<1> QED BY <1>4, <1>5

\* Every step keeps the invariant.
LEMMA GoesOnStep ==
  ASSUME IsFiniteSet(Fills)
  PROVE  GoesOn /\ [Next]_vars => GoesOn'
<1> SUFFICES ASSUME GoesOn, [Next]_vars PROVE GoesOn'
  OBVIOUS
<1>1. Types /\ Types' /\ LoadsRun /\ RoomLeft
  BY StepType DEF GoesOn
<1>2. ASSUME UNCHANGED <<pending, visit, todo>>, Free \subseteq Free' PROVE GoesOn'
  <2>1. LoadsRun' /\ Busy' = Busy
    BY <1>1, <1>2 DEF LoadsRun, Busy
  <2> QED BY <1>1, <1>2, <2>1, RoomFrame DEF GoesOn
<1>3. CASE Request
  BY <1>1, <1>3, RequestGoesOn
<1>4. ASSUME NEW u \in Urls, LoadReads(u) \/ LoadLands(u) PROVE GoesOn'
  BY <1>1, <1>4, LoadGoesOn
<1>5. ASSUME NEW v \in Visitors, Handle(v) PROVE GoesOn'
  BY <1>1, <1>5, HandleGoesOn
<1>6. ASSUME NEW f \in Fills, Download(f) PROVE GoesOn'
  <2>1. Free \subseteq Free' /\ UNCHANGED <<pending, visit>>
    BY <1>1, <1>6, DownloadShape DEF Free
  <2>2. UNCHANGED todo
    BY <1>6 DEF Download, GetSlot, Respond, Retry, BackoffEnds, BodyEnds, WriteBegins, WriteLands,
         SourceWritten, Transformed, ProcessedWritten, IndexWritten, Refused, FillFails, Moves, Ends
  <2> QED BY <1>2, <2>1, <2>2
<1>7. CASE Environment
  <2>1. ASSUME ~Crash PROVE GoesOn'
    <3>1. UNCHANGED <<pending, visit, todo, fill>>
      BY <1>7, <2>1 DEF Environment, AgeError, Lose, LateLands
    <3> QED BY <1>2, <3>1 DEF Free
  <2>2. ASSUME Crash PROVE GoesOn'
    <3>1. (\A v \in Visitors : visit'[v] = Away) /\ todo' = <<>> /\ \A f \in Fills : fill'[f] = Unused
      BY <2>2 DEF Crash
    <3>2. Busy' = {} /\ LoadsRun'
      BY <3>1 DEF Busy, LoadsRun, Away
    <3>3. IsFiniteSet(Free')
      BY FS_Subset DEF Free
    <3>4. Cardinality(Free') \in Nat /\ IsFiniteSet(Busy') /\ Cardinality(Busy') = 0 /\ Len(todo') = 0
      BY <3>1, <3>2, <3>3, FS_CardinalityType, FS_EmptySet
    <3> QED BY <1>1, <3>2, <3>4 DEF GoesOn, RoomLeft
  <2> QED BY <2>1, <2>2
<1>8. CASE UNCHANGED vars
  BY <1>2, <1>8 DEF vars, Free
<1> QED BY <1>3, <1>4, <1>5, <1>6, <1>7, <1>8 DEF Next

\* For any finite number of downloads and with everything that may go wrong, a
\* handler that waits for an index load has one under way that will resume it
\* (the loads are shared), and one that has to start a download can.
THEOREM NoHandlerIsStranded ==
  ASSUME IsFiniteSet(Fills)
  PROVE  Spec => []NobodyStranded
<1>1. Init => GoesOn
  <2> SUFFICES ASSUME Init PROVE GoesOn
    OBVIOUS
  <2>1. Busy = {} /\ LoadsRun /\ Len(todo) = 0
    BY DEF Init, Busy, LoadsRun, Away
  <2>2. IsFiniteSet(Free)
    BY FS_Subset DEF Free
  <2>3. Cardinality(Free) \in Nat /\ IsFiniteSet(Busy) /\ Cardinality(Busy) = 0
    BY <2>1, <2>2, FS_CardinalityType, FS_EmptySet
  <2> QED BY <2>1, <2>3, InitType DEF GoesOn, RoomLeft
<1>2. GoesOn /\ [Next]_vars => GoesOn'
  BY GoesOnStep
<1>3. GoesOn => NobodyStranded
  BY GoesOnImplies
<1> QED BY <1>1, <1>2, <1>3, PTL DEF Spec
=============================================================================
