---------------------------- MODULE MigrateProofs ----------------------------
(***************************************************************************)
(* The migration tool, for any store, options and number of runs: every    *)
(* step of it is a step of the store it writes to, so that what            *)
(* KeyEnvelopeProofs shows of that store holds beside the tool; and a run  *)
(* replaces nothing it should not, and leaves nothing out that it does not *)
(* report.                                                                 *)
(***************************************************************************)
EXTENDS Migrate, KeyEnvelopeProofs

Before == {"idle", "starting", "listing", "knowing"}

\* What belongs to each stage of main().
StageInv ==
  /\ stage \notin {"idle", "starting"} => proc[Migrator].pc = "ready"
  /\ stage \in Before => known = {} /\ \A o \in Objects : step[o] = Idle
  /\ stage # "copying" => batch = {}
  /\ stage \notin {"knowing", "copying"} => todo = {}
  /\ stage = "knowing" => todo = opts.prefix
  /\ stage \in {"copying", "done"} =>
       \A o \in opts.prefix : o \in todo \/ o \in batch \/ step[o] \in Settled
  /\ \A o \in Objects : step[o] \in Working => o \in batch
  /\ \A o \in todo : step[o] = Idle

\* Who fills a file has opened the store, and the file is there; no file is torn
\* that nobody fills, but where writes overlapped or were given up.
FilesInv ==
  /\ \A p \in Procs, o \in Objects : <<p, o>> \in open =>
       proc[p].pc = "ready" /\ objects[o][proc[p].key] # None
  /\ \A o \in Objects, l \in Places : objects[o][l] = Torn =>
       <<o, l>> \in spoilt \/ \E p \in Procs : <<p, o>> \in open /\ proc[p].key = l

\* The tool fills only what it is at work on.
ToolOpens == \A o \in Objects : <<Migrator, o>> \in open => step[o] = "opened"

\* A server fills the file that the tool takes for o.
Busy(o) == \E p \in Servers : <<p, o>> \in open /\ proc[p].key = Place

\* What the tool copied is whole, and what it is filling is its own, unless a
\* server is at work there or has been.
Whole(o) ==
  "filled" \notin upsets =>
    /\ step[o] = "opened" /\ <<o, Place>> \in spoilt => Busy(o)
    /\ step[o] \in {"stored", "copied"} /\ ~opts.dryRun /\ objects[o][Place] = Torn => Busy(o)

\* What the tool takes to be at the destination is there.
There(o) ==
  /\ step[o] \in {"copied", "skipped", "stored"} /\ ~opts.dryRun => objects[o][Place] # None
  /\ o \in known => objects[o][Place] # None

\* What it is about to write may be written.
Missing(o) ==
  /\ opts.encrypt /\ stage = "copying" /\ o \in todo /\ o \notin known =>
       objects[o][Place] = None \/ "filled" \in upsets
  /\ step[o] \in {"reading", "writing", "opened", "stored", "pausing"} =>
       /\ ~opts.dryRun
       /\ \/ opts.overwrite
          \/ upsets \cap {"missed", "filled"} # {}
          \/ objects[o][Place] \in {None, Torn, run}

ObjectInv(o) ==
  /\ There(o) /\ Missing(o) /\ Whole(o)
  /\ step[o] = "pausing" => tries[o] < Attempts

RunInv == TypeOK /\ StageInv /\ FilesInv /\ ToolOpens /\ \A o \in Objects : ObjectInv(o)

MInv == IInv /\ RunInv

-----------------------------------------------------------------------------
\* Every step of the tool is a step of the store, or leaves it alone.
LEMMA StepRefines ==
  ASSUME TypeOK, [Next]_vars PROVE [EnvelopeNext]_envelopeVars
<1>1. Migrator \in Procs /\ 0 \in Versions /\ run \in Versions
  BY MigrateAssumption DEF TypeOK
<1>2. ASSUME NEW op \in Options, Launch(op) PROVE EnvelopeNext
  BY <1>1, <1>2 DEF Launch, EnvelopeNext
<1>3. ASSUME NEW o \in Objects, KeyStep(o) PROVE EnvelopeNext \/ UNCHANGED envelopeVars
  <2>1. CASE WriteOpens(o) BY <1>1, <2>1 DEF WriteOpens, Truncates, EnvelopeNext
  <2>2. CASE WriteStored(o) BY <1>1, <2>2 DEF WriteStored, Stores, EnvelopeNext
  <2>3. CASE ~WriteOpens(o) /\ ~WriteStored(o)
    BY <1>3, <2>3 DEF KeyStep, Looked, SourceRead, SourceFails, WriteOk, WriteFails, PauseEnds
  <2>. QED BY <2>1, <2>2, <2>3
<1>4. CASE Exit BY <1>1, <1>4 DEF Exit, EnvelopeNext
<1>5. CASE Opened \/ ListSource \/ ListDestination \/ BatchSettled
  BY <1>5 DEF Opened, ListSource, ListDestination, BatchSettled
<1>6. ASSUME NEW p \in Servers, ServerStep(p) PROVE EnvelopeNext \/ UNCHANGED envelopeVars
  <2>1. p \in Procs BY DEF Servers
  <2>2. ASSUME NEW o \in Objects, FillOpens(p, o) PROVE EnvelopeNext
    BY <2>1, <2>2 DEF FillOpens, Truncates, EnvelopeNext
  <2>3. ASSUME NEW o \in Objects, FillStored(p, o) PROVE EnvelopeNext
    BY <1>1, <2>1, <2>3 DEF FillStored, Stores, EnvelopeNext
  <2>4. ASSUME NEW o \in Objects, FillFails(p, o) PROVE UNCHANGED envelopeVars
    BY <2>4 DEF FillFails
  <2>5. ASSUME StartPlain(p) \/ (\E w \in Passphrases : Start(p, w)) \/ ServerCrash(p) PROVE EnvelopeNext
    BY <2>1, <2>5 DEF ServerCrash, EnvelopeNext
  <2>. QED BY <1>6, <2>2, <2>3, <2>4, <2>5 DEF ServerStep
<1>7. ASSUME NEW p \in Procs, Initialize(p) PROVE EnvelopeNext
  BY <1>7 DEF EnvelopeNext
<1>8. CASE RewrapStep BY <1>8 DEF EnvelopeNext
<1>9. ASSUME NEW p \in Procs, NEW o \in Objects, Blends(p, o) PROVE EnvelopeNext
  BY <1>9 DEF Blends, EnvelopeNext
<1>10. CASE UNCHANGED vars BY <1>10 DEF vars
<1>. QED
  BY <1>2, <1>3, <1>4, <1>5, <1>6, <1>7, <1>8, <1>9, <1>10 DEF Next, ToolStep, StoreStep

-----------------------------------------------------------------------------
\* A process puts o at its place, torn or whole; nothing else moves there.
LEMMA PutPlaces ==
  ASSUME TypeOK, NEW p \in Procs, NEW o \in Objects, NEW v, Put(p, o, v)
  PROVE  /\ proc' = proc /\ proc[p].key \in Places
         /\ objects'[o][proc[p].key] = v
         /\ \A b \in Objects, l \in Places :
              b # o \/ l # proc[p].key => objects'[b][l] = objects[b][l]
<1>1. proc[p].key \in Places /\ proc' = proc /\ objects' = [objects EXCEPT ![o][proc[p].key] = v]
  BY DEF TypeOK, EnvelopeTypeOK, Put
<1>. QED BY <1>1 DEF TypeOK, EnvelopeTypeOK

\* What a write does to its file, in one step of it.
Touches(p, o, v) ==
  \/ Truncates(p, o) \/ Stores(p, o, v)
  \/ Put(p, o, Torn) /\ <<o, proc[p].key>> \in spoilt /\ UNCHANGED fileVars

\* A write touches its own file alone, and keeps the books right.
LEMMA FileWritten ==
  ASSUME TypeOK, FilesInv, NEW p \in Procs, NEW o \in Objects, NEW v, v \notin {None, Torn},
         NEW cell, cell = proc[p].key, Touches(p, o, v)
  PROVE  /\ FilesInv' /\ proc' = proc /\ cell \in Places /\ proc[p].pc = "ready"
         /\ open' \subseteq Procs \X Objects /\ spoilt' \subseteq Objects \X Places
         /\ objects'[o][cell] # None
         /\ \A b \in Objects, l \in Places : b # o \/ l # cell =>
              objects'[b][l] = objects[b][l] /\ (<<b, l>> \in spoilt' <=> <<b, l>> \in spoilt)
         /\ \A q \in Procs, b \in Objects : q # p \/ b # o => (<<q, b>> \in open' <=> <<q, b>> \in open)
<1>1. PICK x : Put(p, o, x) /\ x # None
    /\ \/ x = Torn /\ open' = open \cup {<<p, o>>}
       \/ x = v /\ (open' = open \/ open' = open \ {<<p, o>>})
       \/ x = Torn /\ <<o, cell>> \in spoilt /\ <<o, cell>> \in spoilt' /\ (open' = open \/ open' = open \ {<<p, o>>})
    /\ \/ spoilt' = spoilt \/ spoilt' = spoilt \cup {<<o, cell>>} \/ spoilt' = spoilt \ {<<o, cell>>}
  <2>0. None # Torn BY EnvelopeAssumption
  <2>1. CASE Truncates(p, o) BY <2>0, <2>1 DEF Truncates
  <2>2. CASE Stores(p, o, v) /\ backend # "fs" BY <2>2 DEF Stores, fileVars
  <2>3. CASE Stores(p, o, v) /\ backend = "fs"
    <3>1. PICK x \in {v} \cup (IF <<o, cell>> \in spoilt THEN {Torn} ELSE {}) :
            /\ Put(p, o, x)
            /\ open' = open \ {<<p, o>>}
            /\ spoilt' = IF x = v /\ Others(p, o) = {} THEN spoilt \ {<<o, cell>>} ELSE spoilt
      BY <2>3 DEF Stores
    <3>. QED BY <2>0, <3>1
  <2>4. CASE Put(p, o, Torn) /\ <<o, cell>> \in spoilt /\ UNCHANGED fileVars
    BY <2>0, <2>4 DEF fileVars
  <2>. QED BY <2>1, <2>2, <2>3, <2>4 DEF Touches
<1>2. /\ proc' = proc /\ cell \in Places /\ proc[p].pc = "ready" /\ objects'[o][cell] = x
      /\ \A b \in Objects, l \in Places : b # o \/ l # cell => objects'[b][l] = objects[b][l]
  <2>1. proc[p].pc = "ready" BY <1>1 DEF Put
  <2>. QED BY <1>1, <2>1, PutPlaces
<1>3. \A b \in Objects, l \in Places : b # o \/ l # cell => (<<b, l>> \in spoilt' <=> <<b, l>> \in spoilt)
  BY <1>1
<1>4. \A q \in Procs, b \in Objects : q # p \/ b # o => (<<q, b>> \in open' <=> <<q, b>> \in open)
  BY <1>1
<1>5. open' \subseteq Procs \X Objects /\ spoilt' \subseteq Objects \X Places
  BY <1>1, <1>2 DEF TypeOK
<1>6. ASSUME NEW q \in Procs, NEW b \in Objects, <<q, b>> \in open'
      PROVE  proc'[q].pc = "ready" /\ objects'[b][proc'[q].key] # None
  <2>1. CASE b = o /\ proc[q].key = cell
    <3>1. q = p \/ <<q, b>> \in open BY <1>4, <1>6
    <3>. QED BY <1>1, <1>2, <2>1, <3>1 DEF FilesInv
  <2>2. CASE b # o \/ proc[q].key # cell
    <3>1. <<q, b>> \in open BY <1>4, <1>6, <2>2
    <3>2. proc[q].pc = "ready" /\ objects[b][proc[q].key] # None BY <3>1 DEF FilesInv
    <3>3. proc[q].key \in Places BY <3>2 DEF TypeOK, EnvelopeTypeOK
    <3>. QED BY <1>2, <2>2, <3>2, <3>3
  <2>. QED BY <2>1, <2>2
<1>7. ASSUME NEW b \in Objects, NEW l \in Places, objects'[b][l] = Torn
      PROVE  <<b, l>> \in spoilt' \/ \E q \in Procs : <<q, b>> \in open' /\ proc'[q].key = l
  <2>1. CASE b = o /\ l = cell
    <3>1. x = Torn BY <1>2, <1>7, <2>1
    <3>2. <<p, o>> \in open' \/ <<o, cell>> \in spoilt' BY <1>1, <3>1
    <3>. QED BY <1>2, <2>1, <3>2
  <2>2. CASE b # o \/ l # cell
    <3>1. objects[b][l] = Torn BY <1>2, <1>7, <2>2
    <3>2. CASE <<b, l>> \in spoilt BY <1>3, <2>2, <3>2
    <3>3. ASSUME NEW q \in Procs, <<q, b>> \in open, proc[q].key = l
          PROVE  <<q, b>> \in open' /\ proc'[q].key = l
      BY <1>2, <1>4, <2>2, <3>3
    <3>. QED BY <3>1, <3>2, <3>3 DEF FilesInv
  <2>. QED BY <2>1, <2>2
<1>. QED BY <1>1, <1>2, <1>3, <1>4, <1>5, <1>6, <1>7 DEF FilesInv

\* Writes are given up, perhaps with their process; others may start or end.
LEMMA FilesGivenUp ==
  ASSUME TypeOK, EnvelopeTypeOK', FilesInv, NEW gone, GivesUp(gone), objects' = objects,
         \A p \in Procs : proc'[p] = proc[p] \/ \A o \in Objects : <<p, o>> \in open => <<p, o>> \in gone
  PROVE  /\ FilesInv' /\ open' \subseteq open /\ spoilt \subseteq spoilt'
         /\ spoilt' \subseteq Objects \X Places
<1>1. open' = open \ gone
      /\ spoilt' = spoilt \cup {<<w[2], proc[w[1]].key>> : w \in open \cap gone}
  BY DEF GivesUp
<1>2. \A p \in Procs, o \in Objects : <<p, o>> \in open => proc[p].key \in Places
  BY DEF FilesInv, TypeOK, EnvelopeTypeOK
<1>3. ASSUME NEW w \in open \cap gone PROVE <<w[2], proc[w[1]].key>> \in Objects \X Places
  <2>1. w \in Procs \X Objects /\ w = <<w[1], w[2]>> BY DEF TypeOK
  <2>. QED BY <1>2, <2>1
<1>4. ASSUME NEW o \in Objects, NEW l \in Places, objects[o][l] = Torn
      PROVE  <<o, l>> \in spoilt' \/ \E p \in Procs : <<p, o>> \in open' /\ proc'[p].key = l
  <2>1. CASE <<o, l>> \in spoilt BY <1>1, <2>1
  <2>2. ASSUME NEW p \in Procs, <<p, o>> \in open, proc[p].key = l
        PROVE  <<o, l>> \in spoilt' \/ (<<p, o>> \in open' /\ proc'[p].key = l)
    <3>1. CASE <<p, o>> \in gone
      <4>1. <<p, o>> \in open \cap gone /\ <<p, o>>[1] = p /\ <<p, o>>[2] = o BY <2>2, <3>1
      <4>. QED BY <1>1, <2>2, <4>1
    <3>2. CASE <<p, o>> \notin gone BY <1>1, <2>2, <3>2
    <3>. QED BY <3>1, <3>2
  <2>. QED BY <1>4, <2>1, <2>2 DEF FilesInv
<1>5. ASSUME NEW p \in Procs, NEW o \in Objects, <<p, o>> \in open'
      PROVE  proc'[p].pc = "ready" /\ objects'[o][proc'[p].key] # None
  BY <1>1, <1>5 DEF FilesInv
<1>6. spoilt' \subseteq Objects \X Places BY <1>1, <1>3 DEF TypeOK
<1>7. FilesInv' BY <1>4, <1>5 DEF FilesInv
<1>. QED BY <1>1, <1>6, <1>7

\* Files nobody touches, while processes without a key come and go.
LEMMA FilesQuiet ==
  ASSUME FilesInv, UNCHANGED <<open, spoilt, objects>>,
         \A p \in Procs : proc[p].pc = "ready" => proc'[p] = proc[p]
  PROVE  FilesInv'
<1>1. ASSUME NEW p \in Procs, NEW o \in Objects, <<p, o>> \in open
      PROVE  proc'[p] = proc[p] /\ proc[p].pc = "ready" /\ objects[o][proc[p].key] # None
  BY <1>1 DEF FilesInv
<1>2. open' = open /\ spoilt' = spoilt /\ objects' = objects OBVIOUS
<1>3. ASSUME NEW o \in Objects, NEW l \in Places, objects[o][l] = Torn, <<o, l>> \notin spoilt
      PROVE  \E p \in Procs : <<p, o>> \in open /\ proc'[p].key = l
  <2>1. PICK p \in Procs : <<p, o>> \in open /\ proc[p].key = l BY <1>3 DEF FilesInv
  <2>. QED BY <1>1, <2>1
<1>4. ASSUME NEW p \in Procs, NEW o \in Objects, <<p, o>> \in open'
      PROVE  proc'[p].pc = "ready" /\ objects'[o][proc'[p].key] # None
  BY <1>1, <1>2, <1>4
<1>5. ASSUME NEW o \in Objects, NEW l \in Places, objects'[o][l] = Torn
      PROVE  <<o, l>> \in spoilt' \/ \E p \in Procs : <<p, o>> \in open' /\ proc'[p].key = l
  BY <1>2, <1>3, <1>5
<1>. QED BY <1>4, <1>5 DEF FilesInv

\* What main() knows when it forms its next batch of the keys rest.
LEMMA NextBatchKeeps ==
  ASSUME RunInv, EnvelopeTypeOK', NEW rest, NEW there, NextBatch(rest, there),
         stage \in {"listing", "knowing", "copying"},
         rest \subseteq opts.prefix, known' \subseteq Objects,
         \A o \in Objects : step[o] \in Settled \cup {Idle},
         \A o \in rest : step[o] = Idle,
         \A o \in opts.prefix : o \in rest \/ step[o] \in Settled,
         \A o \in known' : objects[o][Place] # None,
         opts.encrypt => there = known',
         opts.encrypt => \A o \in rest : o \notin known' => objects[o][Place] = None \/ "filled" \in upsets,
         UNCHANGED <<envelopeVars, opts, run, tries, fileVars, upsets, sealed>>
  PROVE  RunInv'
<1>1. /\ proc' = proc /\ objects' = objects /\ opts' = opts /\ run' = run /\ sealed' = sealed
      /\ tries' = tries /\ upsets' = upsets /\ opts.prefix \subseteq Objects
      /\ proc[Migrator].pc = "ready" /\ open' = open /\ spoilt' = spoilt
  BY DEF RunInv, TypeOK, StageInv, OptionRecords, envelopeVars, storeVars, fileVars
<1>. FilesInv' BY <1>1, FilesQuiet DEF RunInv
<1>. ToolOpens'
  <2>1. \A o \in Objects : <<Migrator, o>> \notin open
    BY DEF RunInv, ToolOpens, Settled, Idle
  <2>. QED BY <1>1, <2>1 DEF ToolOpens
<1>2. CASE rest = {}
  <2>1. stage' = "done" /\ todo' = {} /\ batch' = {} /\ step' = step BY <1>2 DEF NextBatch
  <2>2. TypeOK' BY <1>1, <2>1 DEF RunInv, TypeOK
  <2>3. StageInv' BY <1>1, <1>2, <2>1 DEF StageInv, Settled, Working, Idle, Before
  <2>4. ASSUME NEW o \in Objects PROVE ObjectInv(o)'
    BY <1>1, <2>1 DEF RunInv, ObjectInv, There, Missing, Whole, Busy, Place
  <2>. QED BY <2>2, <2>3, <2>4 DEF RunInv
<1>3. CASE rest # {}
  <2>1. PICK B \in SUBSET rest :
          /\ stage' = "copying" /\ todo' = rest \ B /\ batch' = B
          /\ step' = [o \in Objects |->
               IF o \notin B THEN step[o]
               ELSE IF opts.encrypt THEN Decided(opts, o \in there) ELSE "looking"]
    BY <1>3 DEF NextBatch
  <2>2. ASSUME NEW o \in Objects
        PROVE  /\ o \notin B => step'[o] = step[o]
               /\ o \in B /\ ~opts.encrypt => step'[o] = "looking"
               /\ o \in B /\ opts.encrypt => step'[o] = Decided(opts, o \in known')
    BY <2>1
  <2>3. ASSUME NEW x PROVE Decided(opts, x) \in {"skipped", "copied", "reading"}
    BY DEF Decided
  <2>4. TypeOK'
    <3>1. \A o \in Objects : step'[o] \in Settled \cup Working \cup {Idle}
      BY <2>2, <2>3 DEF Settled, Working
    <3>2. step' \in [Objects -> Settled \cup Working \cup {Idle}] BY <2>1, <3>1
    <3>. QED BY <1>1, <2>1, <3>2 DEF RunInv, TypeOK
  <2>5. StageInv'
    BY <1>1, <2>1, <2>2, <2>3 DEF RunInv, StageInv, Settled, Working, Idle, Before
  <2>6. ASSUME NEW o \in Objects PROVE ObjectInv(o)'
    <3>1. ObjectInv(o) BY DEF RunInv
    <3>2. CASE o \notin B
      <4>1. step'[o] = step[o] BY <2>2, <3>2
      <4>2. Whole(o)' BY <1>1, <3>1, <4>1 DEF ObjectInv, Whole, Busy, Place
      <4>3. There(o)' BY <1>1, <3>1, <4>1 DEF ObjectInv, There, Place
      <4>4. Missing(o)' BY <1>1, <2>1, <3>1, <4>1 DEF ObjectInv, Missing, Place
      <4>. QED BY <1>1, <3>1, <4>1, <4>2, <4>3, <4>4 DEF ObjectInv
    <3>3. CASE o \in B
      <4>1. step[o] = Idle BY <2>1, <3>3
      <4>2. Whole(o)' BY <1>1, <2>2, <3>3 DEF Whole, Decided
      <4>3. There(o)'
        BY <1>1, <2>2, <3>3 DEF There, Place, Decided
      <4>4. Missing(o)'
        BY <1>1, <2>1, <2>2, <3>3 DEF Missing, Place, Decided
      <4>5. step'[o] # "pausing" BY <2>2, <2>3, <3>3
      <4>. QED BY <4>2, <4>3, <4>4, <4>5 DEF ObjectInv
    <3>. QED BY <3>2, <3>3
  <2>. QED BY <2>4, <2>5, <2>6 DEF RunInv
<1>. QED BY <1>2, <1>3

-----------------------------------------------------------------------------
\* migrateKey() of o goes from one place to another, perhaps storing o.
LEMMA MoveKeeps ==
  ASSUME RunInv, EnvelopeTypeOK', NEW o \in Objects, NEW from \in Working,
         NEW to \in Settled \cup Working, Moves(o, from, to),
         proc' = proc, sealed' = sealed,
         tries' \in [Objects -> 0..Attempts], \A b \in Objects : b # o => tries'[b] = tries[b],
         \A b \in Objects, l \in Places : b # o =>
           objects'[b][l] = objects[b][l] /\ (<<b, l>> \in spoilt' => <<b, l>> \in spoilt),
         \A p \in Procs, b \in Objects : b # o => (<<p, b>> \in open' <=> <<p, b>> \in open),
         open' \subseteq Procs \X Objects, spoilt' \subseteq Objects \X Places,
         upsets \subseteq upsets', upsets' \subseteq {"missed", "filled"},
         <<Migrator, o>> \in open' => to = "opened",
         FilesInv', There(o)', Missing(o)', Whole(o)',
         to = "pausing" => tries'[o] < Attempts
  PROVE  RunInv'
<1>1. /\ o \in batch /\ step[o] = from /\ step' = [step EXCEPT ![o] = to]
      /\ stage' = stage /\ opts' = opts /\ run' = run /\ todo' = todo /\ batch' = batch
      /\ known' = known
  BY DEF Moves
<1>2. /\ step'[o] = to
      /\ \A b \in Objects : b # o => step'[b] = step[b]
      /\ step' \in [Objects -> Settled \cup Working \cup {Idle}]
  BY <1>1 DEF RunInv, TypeOK
<1>3. TypeOK' BY <1>1, <1>2 DEF RunInv, TypeOK
<1>. ToolOpens' BY <1>2, MigrateAssumption DEF RunInv, ToolOpens
<1>4. StageInv'
  BY <1>1, <1>2 DEF RunInv, TypeOK, StageInv, Settled, Working, Idle, Before, OptionRecords
<1>5. ASSUME NEW b \in Objects PROVE ObjectInv(b)'
  <2>1. CASE b = o BY <1>2, <2>1 DEF ObjectInv
  <2>2. CASE b # o
    <3>1. ObjectInv(b) /\ step'[b] = step[b] /\ tries'[b] = tries[b] BY <1>2, <2>2 DEF RunInv
    <3>2. \A l \in Places : objects'[b][l] = objects[b][l] BY <2>2
    <3>3. Busy(b) => Busy(b)' BY <2>2 DEF Busy, Place, Servers
    <3>4. step[b] # Idle => Place \in Places
      <4>. SUFFICES ASSUME step[b] # Idle PROVE proc[Migrator].pc = "ready"
        BY MigrateAssumption DEF RunInv, TypeOK, EnvelopeTypeOK, Place
      <4>. QED BY DEF RunInv, StageInv, Before
    <3>5. stage \in {"copying", "done"} => Place \in Places
      BY MigrateAssumption DEF RunInv, TypeOK, EnvelopeTypeOK, Place, StageInv
    <3>6. stage \notin {"copying", "done"} => b \notin known /\ step[b] = Idle
      BY DEF RunInv, TypeOK, StageInv, Before
    <3>7. There(b)'
      BY <1>1, <3>1, <3>2, <3>5, <3>6 DEF ObjectInv, There, Place, Idle
    <3>8. Missing(b)'
      BY <1>1, <3>1, <3>2, <3>5, <3>6 DEF ObjectInv, Missing, Place, Idle
    <3>9. Whole(b)'
      BY <1>1, <2>2, <3>1, <3>2, <3>3, <3>5, <3>6 DEF ObjectInv, Whole, Place, Idle
    <3>. QED BY <1>1, <3>1, <3>7, <3>8, <3>9 DEF ObjectInv
  <2>. QED BY <2>1, <2>2
<1>. QED BY <1>3, <1>4, <1>5 DEF RunInv

\* While a key is under way the tool has its key.
LEMMA PlaceKnown ==
  ASSUME RunInv, NEW o \in batch
  PROVE  /\ stage = "copying" /\ proc[Migrator].pc = "ready" /\ Place \in Places
         /\ o \notin todo \/ step[o] = Idle
BY MigrateAssumption DEF RunInv, TypeOK, EnvelopeTypeOK, Place, StageInv

\* The moves that leave the store alone, but for the write that failed.
LEMMA QuietKeyKeeps ==
  ASSUME RunInv, EnvelopeTypeOK', NEW o \in Objects, UNCHANGED sealed,
         \/ \E there \in BOOLEAN : Looked(o, there)
         \/ SourceRead(o) \/ SourceFails(o) \/ WriteOk(o) \/ PauseEnds(o)
  PROVE  RunInv'
<1>. USE DEF Working, Settled
<1>1. ObjectInv(o) /\ (o \in batch => Place \in Places /\ (o \in todo => step[o] = Idle))
  BY PlaceKnown DEF RunInv
<1>2. step \in [Objects -> Settled \cup Working \cup {Idle}] /\ tries \in [Objects -> 0..Attempts]
      /\ upsets \subseteq {"missed", "filled"} /\ Attempts \in Nat \ {0}
      /\ open \subseteq Procs \X Objects /\ spoilt \subseteq Objects \X Places
      /\ (<<Migrator, o>> \in open => step[o] = "opened")
  BY MigrateAssumption DEF RunInv, TypeOK, ToolOpens
<1>3. ASSUME NEW there \in BOOLEAN, Looked(o, there) PROVE RunInv'
  <2>1. PICK to : to = Decided(opts, there) BY Zenon
  <2>2. Moves(o, "looking", to) BY <1>3, <2>1 DEF Looked
  <2>3. /\ to \in {"skipped", "copied", "reading"}
        /\ to = "skipped" => there
        /\ to = "copied" => opts.dryRun
        /\ to = "reading" => ~opts.dryRun /\ (there => opts.overwrite)
    BY <2>1 DEF Decided
  <2>4. /\ proc' = proc /\ objects' = objects /\ tries' = tries /\ open' = open /\ spoilt' = spoilt
        /\ upsets' \subseteq {"missed", "filled"} /\ upsets \subseteq upsets'
        /\ there => objects[o][Place] # None
        /\ ~there => objects[o][Place] = None \/ "missed" \in upsets'
    BY <1>2, <1>3 DEF Looked, envelopeVars, storeVars, fileVars
  <2>5. step[o] = "looking" /\ o \in batch /\ step'[o] = to /\ opts' = opts /\ known' = known
        /\ todo' = todo /\ run' = run
    BY <1>2, <2>2 DEF Moves
  <2>6. Whole(o)' BY <2>3, <2>5 DEF Whole
  <2>7. There(o)' BY <1>1, <2>3, <2>4, <2>5 DEF ObjectInv, There, Place
  <2>8. Missing(o)' BY <1>1, <2>3, <2>4, <2>5 DEF ObjectInv, Missing, Place, Idle
  <2>9. "looking" \in Working /\ to \in Settled \cup Working BY <2>3
  <2>10. FilesInv' /\ <<Migrator, o>> \notin open BY <1>2, <2>4, <2>5, FilesQuiet DEF RunInv
  <2>. QED BY <1>2, <2>2, <2>3, <2>4, <2>6, <2>7, <2>8, <2>9, <2>10, MoveKeeps
<1>4. ASSUME NEW from \in {"reading", "stored", "pausing"}, NEW to \in {"writing", "failed", "copied"},
             Moves(o, from, to), to = "writing" => from \in {"reading", "pausing"},
             to = "copied" => from = "stored", to = "failed" => from = "reading",
             NEW n \in 0..Attempts, tries' = [tries EXCEPT ![o] = n],
             UNCHANGED <<envelopeVars, fileVars, upsets>>
      PROVE  RunInv'
  <2>1. proc' = proc /\ objects' = objects /\ upsets' = upsets /\ open' = open /\ spoilt' = spoilt
    BY <1>4 DEF envelopeVars, storeVars, fileVars
  <2>2. step[o] = from /\ o \in batch /\ step'[o] = to /\ opts' = opts /\ known' = known
        /\ todo' = todo /\ run' = run
    BY <1>2, <1>4 DEF Moves
  <2>3. Whole(o)' BY <1>1, <1>4, <2>1, <2>2 DEF ObjectInv, Whole, Busy, Place
  <2>4. There(o)' BY <1>1, <1>4, <2>1, <2>2 DEF ObjectInv, There, Place
  <2>5. Missing(o)' BY <1>1, <1>4, <2>1, <2>2 DEF ObjectInv, Missing, Place, Idle
  <2>6. from \in Working /\ to \in Settled \cup Working /\ to # "pausing" OBVIOUS
  <2>7. tries' \in [Objects -> 0..Attempts] /\ \A b \in Objects : b # o => tries'[b] = tries[b]
    BY <1>2, <1>4
  <2>8. FilesInv' /\ <<Migrator, o>> \notin open BY <1>2, <1>4, <2>1, <2>2, FilesQuiet DEF RunInv
  <2>. QED BY <1>2, <1>4, <2>1, <2>3, <2>4, <2>5, <2>6, <2>7, <2>8, MoveKeeps
<1>5. ASSUME tries' = tries PROVE tries' = [tries EXCEPT ![o] = tries[o]] /\ tries[o] \in 0..Attempts
  BY <1>2, <1>5
<1>6. CASE SourceRead(o)
  <2>1. 1 \in 0..Attempts BY <1>2
  <2>. QED BY <1>4, <1>6, <2>1 DEF SourceRead
<1>7. CASE SourceFails(o) BY <1>4, <1>5, <1>7 DEF SourceFails
<1>8. CASE WriteOk(o)
  <2>1. 0 \in 0..Attempts BY <1>2
  <2>. QED BY <1>4, <1>8, <2>1 DEF WriteOk
<1>9. CASE PauseEnds(o)
  <2>1. step[o] = "pausing" BY <1>9 DEF PauseEnds, Moves
  <2>2. tries[o] + 1 \in 0..Attempts BY <1>1, <1>2, <2>1 DEF ObjectInv
  <2>3. tries' = [tries EXCEPT ![o] = tries[o] + 1] BY <1>9 DEF PauseEnds
  <2>. QED BY <1>4, <1>9, <2>2, <2>3 DEF PauseEnds
<1>. QED BY <1>3, <1>6, <1>7, <1>8, <1>9

\* dest.write(): torn first on a file system, then whole unless a server is there.
LEMMA WriteKeeps ==
  ASSUME RunInv, EnvelopeTypeOK', NEW o \in Objects, UNCHANGED sealed,
         WriteOpens(o) \/ WriteStored(o)
  PROVE  RunInv'
<1>. USE DEF Working, Settled
<1>0. Migrator \in Procs /\ run \notin {None, Torn} /\ None # Torn
  BY MigrateAssumption, EnvelopeAssumption DEF RunInv, TypeOK
<1>1. PICK from \in {"writing", "opened"}, to \in {"opened", "stored"}, v \in {Torn, run} :
        /\ Moves(o, from, to) /\ Put(Migrator, o, v)
        /\ to = "opened" => Others(Migrator, o) # {} \/ <<o, Place>> \notin spoilt'
        /\ to = "stored" => <<Migrator, o>> \notin open'
        /\ to = "stored" /\ v = Torn => from = "opened" /\ <<o, Place>> \in spoilt
        /\ tries' = tries /\ upsets' = upsets
  <2>1. CASE WriteOpens(o)
    <3>1. Others(Migrator, o) = {} => <<o, Place>> \notin spoilt'
      BY <2>1 DEF WriteOpens, Truncates, Place
    <3>. QED BY <2>1, <3>1 DEF WriteOpens, Truncates
  <2>2. CASE WriteStored(o) /\ backend = "fs"
    <3>1. PICK x \in {run} \cup (IF <<o, Place>> \in spoilt THEN {Torn} ELSE {}) :
            Put(Migrator, o, x) /\ open' = open \ {<<Migrator, o>>}
      BY <2>2 DEF WriteStored, Stores, Place
    <3>. QED BY <1>0, <2>2, <3>1 DEF WriteStored
  <2>3. CASE WriteStored(o) /\ backend # "fs"
    <3>1. Moves(o, "writing", "stored") /\ Put(Migrator, o, run) /\ open' = open
      BY <2>3 DEF WriteStored, Stores, fileVars
    <3>2. <<Migrator, o>> \notin open BY <3>1 DEF Moves, RunInv, ToolOpens
    <3>. QED BY <1>0, <2>3, <3>1, <3>2 DEF WriteStored
  <2>. QED BY <2>1, <2>2, <2>3
<1>2. /\ tries' \in [Objects -> 0..Attempts] /\ upsets' \subseteq {"missed", "filled"}
      /\ step \in [Objects -> Settled \cup Working \cup {Idle}]
  BY <1>1 DEF RunInv, TypeOK
<1>3. /\ FilesInv' /\ Place \in Places
      /\ open' \subseteq Procs \X Objects /\ spoilt' \subseteq Objects \X Places
      /\ \A b \in Objects, l \in Places : b # o \/ l # Place =>
           objects'[b][l] = objects[b][l] /\ (<<b, l>> \in spoilt' <=> <<b, l>> \in spoilt)
      /\ \A q \in Procs, b \in Objects : q # Migrator \/ b # o =>
           (<<q, b>> \in open' <=> <<q, b>> \in open)
  <2>1. Touches(Migrator, o, run) BY DEF WriteOpens, WriteStored, Touches
  <2>. QED BY <1>0, <2>1, FileWritten DEF RunInv, Place
<1>4. step[o] = from /\ o \in batch /\ step'[o] = to /\ opts' = opts /\ known' = known
      /\ todo' = todo /\ run' = run
  BY <1>1, <1>2 DEF Moves
<1>5. ObjectInv(o) /\ v # None /\ (o \in todo => step[o] = Idle)
  BY PlaceKnown, <1>0, <1>4 DEF RunInv
<1>6. proc' = proc /\ objects'[o][Place] = v
  BY <1>0, <1>1, PutPlaces DEF RunInv, Place
<1>7. Whole(o)'
  <2>1. Busy(o) => Busy(o)' BY <1>3, <1>6 DEF Busy, Servers, Place
  <2>2. Others(Migrator, o) # {} => Busy(o) BY DEF Others, Busy, Servers, Place
  <2>3. CASE to = "opened" BY <1>1, <1>4, <1>6, <2>1, <2>2, <2>3 DEF Whole, Place
  <2>4. CASE to = "stored"
    <3>1. v = Torn /\ "filled" \notin upsets => Busy(o)
      BY <1>1, <1>4, <1>5, <2>4 DEF ObjectInv, Whole
    <3>. QED BY <1>1, <1>4, <1>6, <2>1, <2>4, <3>1 DEF Whole, Place
  <2>. QED BY <2>3, <2>4
<1>8. There(o)' BY <1>1, <1>4, <1>5, <1>6 DEF There, Place
<1>9. Missing(o)'
  <2>1. ~opts.dryRun BY <1>1, <1>4, <1>5 DEF ObjectInv, Missing
  <2>2. v \in {None, Torn, run} OBVIOUS
  <2>. QED BY <1>1, <1>4, <1>5, <1>6, <2>1, <2>2 DEF Missing, Place, Idle
<1>10. /\ <<Migrator, o>> \in open' => to = "opened"
       /\ to # "pausing" /\ from \in Working /\ to \in Settled \cup Working
       /\ \A b \in Objects, l \in Places : b # o =>
            objects'[b][l] = objects[b][l] /\ (<<b, l>> \in spoilt' => <<b, l>> \in spoilt)
       /\ \A q \in Procs, b \in Objects : b # o => (<<q, b>> \in open' <=> <<q, b>> \in open)
  BY <1>1, <1>3
<1>11. Moves(o, from, to) /\ tries' = tries /\ upsets' = upsets BY <1>1
<1>. QED BY <1>2, <1>3, <1>6, <1>7, <1>8, <1>9, <1>10, <1>11, MoveKeeps

\* A failed write is tried again, or given up: with what it left behind.
LEMMA WriteFailsKeeps ==
  ASSUME RunInv, EnvelopeTypeOK', NEW o \in Objects, UNCHANGED sealed, WriteFails(o)
  PROVE  RunInv'
<1>. USE DEF Working, Settled
<1>1. PICK to : to = AfterFailure(tries[o]) BY Zenon
<1>2. PICK from \in {"writing", "opened", "stored"} : Moves(o, from, to)
  BY <1>1 DEF WriteFails
<1>3. PICK n : n = IF to = "pausing" THEN tries[o] ELSE 0 BY Zenon
<1>4. /\ upsets' = upsets /\ UNCHANGED envelopeVars /\ tries' = [tries EXCEPT ![o] = n]
      /\ GivesUp({<<Migrator, o>>})
  BY <1>1, <1>3, Zenon DEF WriteFails
<1>5. to \in {"pausing", "failed"} /\ (to = "pausing" => tries[o] < Attempts)
  BY <1>1 DEF AfterFailure
<1>6. /\ tries \in [Objects -> 0..Attempts] /\ upsets \subseteq {"missed", "filled"}
      /\ step \in [Objects -> Settled \cup Working \cup {Idle}] /\ 0 \in 0..Attempts
      /\ Migrator \in Procs
  BY MigrateAssumption DEF RunInv, TypeOK
<1>7. /\ proc' = proc /\ objects' = objects
      /\ n \in 0..Attempts /\ tries' \in [Objects -> 0..Attempts]
      /\ \A b \in Objects : b # o => tries'[b] = tries[b]
      /\ to = "pausing" => tries'[o] < Attempts
  BY <1>3, <1>4, <1>5, <1>6 DEF envelopeVars, storeVars
<1>8. /\ FilesInv' /\ open' \subseteq Procs \X Objects /\ spoilt' \subseteq Objects \X Places
      /\ open' = open \ {<<Migrator, o>>}
      /\ \A b \in Objects, l \in Places : b # o => (<<b, l>> \in spoilt' => <<b, l>> \in spoilt)
  <2>1. FilesInv' /\ open' \subseteq open /\ spoilt' \subseteq Objects \X Places
    BY <1>4, <1>7, FilesGivenUp DEF RunInv
  <2>2. ASSUME NEW w \in open \cap {<<Migrator, o>>} PROVE w[2] = o
    OBVIOUS
  <2>. QED BY <1>4, <2>1, <2>2 DEF GivesUp, RunInv, TypeOK
<1>9. step[o] = from /\ o \in batch /\ step'[o] = to /\ opts' = opts /\ known' = known
      /\ todo' = todo /\ run' = run
  BY <1>2, <1>6 DEF Moves
<1>10. ObjectInv(o) /\ (o \in todo => step[o] = Idle) BY PlaceKnown, <1>9 DEF RunInv
<1>11. Whole(o)' BY <1>5, <1>9 DEF Whole
<1>12. There(o)' BY <1>5, <1>7, <1>9, <1>10 DEF ObjectInv, There, Place
<1>13. Missing(o)' BY <1>2, <1>4, <1>5, <1>7, <1>9, <1>10 DEF ObjectInv, Missing, Place, Idle
<1>14. /\ <<Migrator, o>> \notin open' /\ from \in Working /\ to \in Settled \cup Working
       /\ \A b \in Objects, l \in Places : b # o =>
            objects'[b][l] = objects[b][l] /\ (<<b, l>> \in spoilt' => <<b, l>> \in spoilt)
       /\ \A q \in Procs, b \in Objects : b # o => (<<q, b>> \in open' <=> <<q, b>> \in open)
       /\ upsets \subseteq upsets' /\ upsets' \subseteq {"missed", "filled"}
  BY <1>4, <1>5, <1>6, <1>7, <1>8
<1>. QED BY <1>2, <1>7, <1>8, <1>11, <1>12, <1>13, <1>14, MoveKeeps

-----------------------------------------------------------------------------
\* main() from its start to its loop.
LEMMA LaunchKeeps ==
  ASSUME RunInv, EnvelopeTypeOK', NEW op \in Options, Launch(op), UNCHANGED sealed PROVE RunInv'
<1>1. /\ stage = "idle" /\ run' = run + 1 /\ run < MaxRuns /\ opts' = op
      /\ stage' \in {"starting", "listing"}
      /\ UNCHANGED <<todo, batch, known, step, tries, open, spoilt, upsets, objects>>
      /\ proc[Migrator].pc = "off" /\ \A p \in Procs : p # Migrator => proc'[p] = proc[p]
  BY MigrateAssumption DEF Launch, Start, StartPlain, storeVars, fileVars, RunInv, TypeOK, EnvelopeTypeOK
<1>2. todo = {} /\ batch = {} /\ known = {} /\ \A o \in Objects : step[o] = Idle
  BY <1>1 DEF RunInv, StageInv, Before
<1>3. run' \in 0..MaxRuns BY <1>1, MigrateAssumption DEF RunInv, TypeOK
<1>4. op \in OptionRecords /\ Migrator \in Procs BY MigrateAssumption
<1>5. TypeOK' BY <1>1, <1>2, <1>3, <1>4 DEF RunInv, TypeOK
<1>6. stage' = "listing" => proc'[Migrator].pc = "ready"
  BY <1>4 DEF Launch, StartPlain, RunInv, TypeOK, EnvelopeTypeOK
<1>7. StageInv' BY <1>1, <1>2, <1>6 DEF StageInv, Before, Working, Idle
<1>8. ASSUME NEW o \in Objects PROVE ObjectInv(o)'
  BY <1>1, <1>2 DEF RunInv, ObjectInv, There, Missing, Whole, Idle
<1>9. FilesInv' BY <1>1, FilesQuiet DEF RunInv
<1>10. ToolOpens' BY <1>1 DEF RunInv, ToolOpens
<1>. QED BY <1>5, <1>7, <1>8, <1>9, <1>10 DEF RunInv

LEMMA OpenedKeeps ==
  ASSUME RunInv, EnvelopeTypeOK', Opened, UNCHANGED sealed PROVE RunInv'
<1>1. /\ stage = "starting" /\ proc[Migrator].pc = "ready" /\ stage' = "listing"
      /\ UNCHANGED <<opts, run, todo, batch, known, step, tries, open, spoilt, upsets, objects, proc>>
  BY DEF Opened, envelopeVars, storeVars, fileVars
<1>2. TypeOK' BY <1>1 DEF RunInv, TypeOK
<1>3. StageInv' BY <1>1 DEF RunInv, StageInv, Before
<1>4. ASSUME NEW o \in Objects PROVE ObjectInv(o)'
  BY <1>1 DEF RunInv, ObjectInv, There, Missing, Whole, Busy, Place
<1>5. FilesInv' /\ ToolOpens' BY <1>1, FilesQuiet DEF RunInv, ToolOpens
<1>. QED BY <1>2, <1>3, <1>4, <1>5 DEF RunInv

LEMMA ListSourceKeeps ==
  ASSUME RunInv, EnvelopeTypeOK', ListSource, UNCHANGED sealed PROVE RunInv'
<1>1. /\ stage = "listing" /\ todo = {} /\ batch = {} /\ known = {} /\ known' = known
      /\ proc[Migrator].pc = "ready" /\ \A o \in Objects : step[o] = Idle
      /\ UNCHANGED <<envelopeVars, opts, run, tries, fileVars, upsets, sealed>>
  BY DEF RunInv, StageInv, Before, ListSource
<1>2. CASE opts.encrypt
  <2>1. stage' = "knowing" /\ todo' = opts.prefix /\ batch' = batch /\ step' = step
    BY <1>2 DEF ListSource
  <2>2. objects' = objects /\ proc' = proc /\ opts.prefix \subseteq Objects
    BY <1>1 DEF envelopeVars, storeVars, RunInv, TypeOK, OptionRecords
  <2>. open' = open /\ spoilt' = spoilt BY <1>1 DEF fileVars
  <2>3. TypeOK' BY <1>1, <2>1, <2>2 DEF RunInv, TypeOK
  <2>4. StageInv' BY <1>1, <2>1, <2>2 DEF StageInv, Before, Working, Idle
  <2>5. ASSUME NEW o \in Objects PROVE ObjectInv(o)'
    BY <1>1, <2>1, <2>2 DEF RunInv, ObjectInv, There, Missing, Whole, Busy, Place
  <2>6. FilesInv' /\ ToolOpens' BY <2>1, <2>2, FilesQuiet DEF RunInv, ToolOpens
  <2>. QED BY <2>3, <2>4, <2>5, <2>6 DEF RunInv
<1>3. CASE ~opts.encrypt
  <2>1. NextBatch(opts.prefix, {}) BY <1>3 DEF ListSource
  <2>2. opts.prefix \subseteq Objects BY DEF RunInv, TypeOK, OptionRecords
  <2>. QED BY <1>1, <1>3, <2>1, <2>2, NextBatchKeeps
<1>. QED BY <1>2, <1>3

LEMMA ListDestinationKeeps ==
  ASSUME RunInv, EnvelopeTypeOK', ListDestination, UNCHANGED sealed PROVE RunInv'
<1>1. /\ stage = "knowing" /\ todo = opts.prefix /\ known' = Listed
      /\ NextBatch(todo, Listed) /\ \A o \in Objects : step[o] = Idle
      /\ UNCHANGED <<envelopeVars, opts, run, tries, fileVars, upsets, sealed>>
  BY DEF RunInv, StageInv, Before, ListDestination
<1>2. opts.prefix \subseteq Objects BY DEF RunInv, TypeOK, OptionRecords
<1>3. /\ Listed \subseteq Objects /\ \A o \in Listed : objects[o][Place] # None
      /\ \A o \in todo : o \notin Listed => objects[o][Place] = None
  BY <1>1, <1>2 DEF Listed
<1>. QED BY <1>1, <1>2, <1>3, NextBatchKeeps

LEMMA BatchSettledKeeps ==
  ASSUME RunInv, EnvelopeTypeOK', BatchSettled, UNCHANGED sealed PROVE RunInv'
<1>1. /\ stage = "copying" /\ \A o \in batch : step[o] \in Settled
      /\ NextBatch(todo, known) /\ known' = known
      /\ UNCHANGED <<envelopeVars, opts, run, tries, fileVars, upsets, sealed>>
  BY DEF BatchSettled
<1>2. /\ todo \subseteq opts.prefix /\ known \subseteq Objects /\ opts.prefix \subseteq Objects
      /\ \A o \in Objects : step[o] \in Settled \cup Working \cup {Idle}
  BY DEF RunInv, TypeOK, OptionRecords
<1>3. \A o \in Objects : step[o] \in Settled \cup {Idle}
  BY <1>1, <1>2 DEF RunInv, StageInv
<1>4. \A o \in opts.prefix : o \in todo \/ step[o] \in Settled
  BY <1>1 DEF RunInv, StageInv
<1>5. \A o \in todo : step[o] = Idle BY DEF RunInv, StageInv
<1>6. \A o \in known : objects[o][Place] # None
  BY <1>2 DEF RunInv, ObjectInv, There
<1>7. opts.encrypt => \A o \in todo : o \notin known => objects[o][Place] = None \/ "filled" \in upsets
  BY <1>1, <1>2 DEF RunInv, ObjectInv, Missing
<1>. QED BY <1>1, <1>2, <1>3, <1>4, <1>5, <1>6, <1>7, NextBatchKeeps

\* A tool that ends gives up what it was writing.
LEMMA ExitKeeps ==
  ASSUME RunInv, EnvelopeTypeOK', Exit, UNCHANGED sealed PROVE RunInv'
<1>1. /\ stage' = "idle" /\ opts' = NoOptions /\ todo' = {} /\ batch' = {} /\ known' = {}
      /\ step' = [o \in Objects |-> Idle] /\ tries' = [o \in Objects |-> 0]
      /\ upsets' = {} /\ run' = run /\ objects' = objects
      /\ GivesUp({Migrator} \X Objects) /\ proc' = [proc EXCEPT ![Migrator] = Off]
  BY DEF Exit, Crash
<1>2. \A p \in Procs : proc'[p] = proc[p] \/ \A o \in Objects : <<p, o>> \in open => <<p, o>> \in {Migrator} \X Objects
  BY <1>1 DEF RunInv, TypeOK, EnvelopeTypeOK
<1>3. FilesInv' /\ open' \subseteq open /\ spoilt' \subseteq Objects \X Places
  BY <1>1, <1>2, FilesGivenUp DEF RunInv
<1>4. TypeOK'
  BY <1>1, <1>3, MigrateAssumption DEF RunInv, TypeOK, OptionRecords, NoOptions
<1>5. StageInv' BY <1>1 DEF StageInv, Before, Working, Idle
<1>6. ToolOpens' BY <1>1 DEF ToolOpens, GivesUp
<1>7. ASSUME NEW o \in Objects PROVE ObjectInv(o)'
  BY <1>1 DEF ObjectInv, There, Missing, Whole, Idle
<1>. QED BY <1>3, <1>4, <1>5, <1>6, <1>7 DEF RunInv

-----------------------------------------------------------------------------
\* Servers and the passphrase tool; and initialize(), the tool's own included.
LEMMA OthersKeep ==
  ASSUME RunInv, EnvelopeTypeOK', UNCHANGED <<migrateVars, sealed, objects>>,
         \A p \in Procs : proc[p].pc = "ready" => proc'[p] = proc[p],
         proc'[Migrator] = proc[Migrator] \/ stage \in {"idle", "starting"}
  PROVE  RunInv'
<1>1. /\ stage' = stage /\ opts' = opts /\ run' = run /\ todo' = todo /\ batch' = batch
      /\ known' = known /\ step' = step /\ tries' = tries /\ upsets' = upsets
      /\ sealed' = sealed /\ objects' = objects /\ open' = open /\ spoilt' = spoilt
  BY DEF migrateVars, fileVars
<1>2. TypeOK' BY <1>1 DEF RunInv, TypeOK
<1>3. StageInv' BY <1>1 DEF RunInv, StageInv, Before
<1>4. FilesInv' /\ ToolOpens' BY <1>1, FilesQuiet DEF RunInv, ToolOpens
<1>5. ASSUME NEW o \in Objects PROVE ObjectInv(o)'
  <2>1. CASE proc'[Migrator] = proc[Migrator]
    <3>1. Busy(o) => Busy(o)' BY <1>1, <2>1 DEF Busy, Servers, Place, RunInv, FilesInv
    <3>. QED BY <1>1, <2>1, <3>1 DEF RunInv, ObjectInv, There, Missing, Whole, Place
  <2>2. CASE stage \in {"idle", "starting"}
    BY <1>1, <2>2 DEF RunInv, StageInv, Before, ObjectInv, There, Missing, Whole, Idle
  <2>. QED BY <2>1, <2>2
<1>. QED BY <1>2, <1>3, <1>4, <1>5 DEF RunInv

\* What a server does to the files leaves what the tool knows; a tool under way
\* has its "filled" from then on.
LEMMA FillsKeep ==
  ASSUME RunInv, EnvelopeTypeOK', FilesInv', ToolOpens', Fills, UNCHANGED sealed,
         proc'[Migrator] = proc[Migrator],
         open' \subseteq Procs \X Objects, spoilt' \subseteq Objects \X Places,
         \A o \in Objects, l \in Places : objects[o][l] # None => objects'[o][l] # None
  PROVE  RunInv'
<1>1. /\ stage' = stage /\ opts' = opts /\ run' = run /\ todo' = todo /\ batch' = batch
      /\ known' = known /\ step' = step /\ tries' = tries
      /\ upsets' \subseteq upsets \cup {"filled"} /\ upsets \subseteq upsets'
      /\ stage # "idle" => "filled" \in upsets'
  BY DEF Fills
<1>2. TypeOK' BY <1>1 DEF RunInv, TypeOK
<1>3. StageInv' BY <1>1 DEF RunInv, StageInv, Before
<1>4. ASSUME NEW o \in Objects PROVE ObjectInv(o)'
  <2>1. ObjectInv(o) BY DEF RunInv
  <2>2. CASE stage \in {"idle", "starting"}
    BY <1>1, <2>1, <2>2 DEF RunInv, StageInv, Before, ObjectInv, There, Missing, Whole, Idle
  <2>3. CASE stage \notin {"idle", "starting"}
    <3>1. Place \in Places
      BY <2>3, MigrateAssumption DEF RunInv, TypeOK, EnvelopeTypeOK, Place, StageInv
    <3>2. There(o)' BY <1>1, <2>1, <3>1 DEF ObjectInv, There, Place
    <3>3. Missing(o)' BY <1>1, <2>1, <2>3 DEF ObjectInv, Missing
    <3>4. Whole(o)' BY <1>1, <2>3 DEF Whole
    <3>. QED BY <1>1, <2>1, <3>2, <3>3, <3>4 DEF ObjectInv
  <2>. QED BY <2>2, <2>3
<1>. QED BY <1>2, <1>3, <1>4 DEF RunInv

LEMMA FillKeeps ==
  ASSUME RunInv, EnvelopeTypeOK', NEW p \in Servers, NEW o \in Objects, UNCHANGED sealed,
         FillOpens(p, o) \/ FillStored(p, o)
  PROVE  RunInv'
<1>1. p \in Procs /\ p # Migrator /\ 0 \notin {None, Torn} /\ Fills
      /\ (Truncates(p, o) \/ Stores(p, o, 0))
  BY MigrateAssumption, EnvelopeAssumption DEF Servers, FillOpens, FillStored
<1>2. PICK cell : cell = proc[p].key BY Zenon
<1>3. /\ FilesInv' /\ proc' = proc /\ cell \in Places
      /\ open' \subseteq Procs \X Objects /\ spoilt' \subseteq Objects \X Places
      /\ objects'[o][cell] # None
      /\ \A b \in Objects, l \in Places : b # o \/ l # cell =>
           objects'[b][l] = objects[b][l] /\ (<<b, l>> \in spoilt' <=> <<b, l>> \in spoilt)
      /\ \A q \in Procs, b \in Objects : q # p \/ b # o => (<<q, b>> \in open' <=> <<q, b>> \in open)
  <2>1. TypeOK /\ FilesInv BY DEF RunInv
  <2>2. PICK v : v = 0 BY Zenon
  <2>3. Touches(p, o, v) /\ v \notin {None, Torn} BY <1>1, <2>2 DEF Touches
  <2>. QED BY <1>1, <1>2, <2>1, <2>3, FileWritten
<1>4. \A b \in Objects, l \in Places : objects[b][l] # None => objects'[b][l] # None
  BY <1>3
<1>5. ToolOpens'
  BY <1>1, <1>3, MigrateAssumption DEF RunInv, ToolOpens, Fills
<1>. QED BY <1>1, <1>3, <1>4, <1>5, FillsKeep

\* A server gives up a write, or ends.
LEMMA FillGivenUpKeeps ==
  ASSUME RunInv, EnvelopeTypeOK', NEW p \in Servers, NEW o \in Objects, UNCHANGED sealed,
         FillFails(p, o)
  PROVE  RunInv'
<1>1. Fills /\ GivesUp({<<p, o>>}) /\ proc' = proc /\ objects' = objects
  BY DEF FillFails, envelopeVars, storeVars
<1>2. FilesInv' /\ open' \subseteq open /\ spoilt' \subseteq Objects \X Places
  BY <1>1, FilesGivenUp DEF RunInv
<1>3. open' \subseteq Procs \X Objects /\ ToolOpens'
  BY <1>1, <1>2 DEF RunInv, TypeOK, ToolOpens, Fills
<1>. QED BY <1>1, <1>2, <1>3, FillsKeep

LEMMA ServerCrashKeeps ==
  ASSUME RunInv, EnvelopeTypeOK', NEW p \in Servers, UNCHANGED sealed, ServerCrash(p)
  PROVE  RunInv'
<1>1. /\ p \in Procs /\ p # Migrator /\ GivesUp({p} \X Objects) /\ objects' = objects
      /\ proc' = [proc EXCEPT ![p] = Off]
  BY DEF Servers, ServerCrash, Crash
<1>2. /\ proc'[Migrator] = proc[Migrator]
      /\ \A q \in Procs : proc'[q] = proc[q] \/ \A o \in Objects : <<q, o>> \in open => <<q, o>> \in {p} \X Objects
  BY <1>1, MigrateAssumption DEF RunInv, TypeOK, EnvelopeTypeOK
<1>3. FilesInv' /\ open' \subseteq open /\ spoilt' \subseteq Objects \X Places
  BY <1>1, <1>2, FilesGivenUp DEF RunInv
<1>4. open' \subseteq Procs \X Objects /\ ToolOpens'
  <2>1. step' = step BY DEF ServerCrash, Fills
  <2>. QED BY <1>3, <2>1 DEF RunInv, TypeOK, ToolOpens
<1>5. CASE Fills BY <1>1, <1>2, <1>3, <1>4, <1>5, FillsKeep
<1>6. CASE ~Fills
  <2>1. /\ open \cap ({p} \X Objects) = {}
        /\ UNCHANGED <<stage, opts, run, todo, batch, known, step, tries, upsets>>
    BY <1>6 DEF ServerCrash
  <2>2. open' = open /\ spoilt' = spoilt BY <1>1, <2>1 DEF GivesUp
  <2>3. TypeOK' BY <1>3, <1>4, <2>1 DEF RunInv, TypeOK
  <2>4. StageInv' BY <1>2, <2>1 DEF RunInv, StageInv, Before
  <2>5. ASSUME NEW o \in Objects PROVE ObjectInv(o)'
    <3>1. Busy(o) => Busy(o)' BY <1>1, <1>2, <2>1, <2>2 DEF Busy, Servers, Place, RunInv, TypeOK, EnvelopeTypeOK
    <3>. QED BY <1>1, <1>2, <2>1, <2>2, <3>1 DEF RunInv, ObjectInv, There, Missing, Whole, Place
  <2>. QED BY <1>3, <1>4, <2>3, <2>4, <2>5 DEF RunInv
<1>. QED BY <1>5, <1>6

\* A mixture can be torn only while somebody fills the file.
LEMMA BlendsKeeps ==
  ASSUME RunInv, EnvelopeTypeOK', NEW p \in Procs, NEW o \in Objects, Blends(p, o), UNCHANGED sealed
  PROVE  RunInv'
<1>1. /\ stage' = stage /\ opts' = opts /\ run' = run /\ todo' = todo /\ batch' = batch
      /\ known' = known /\ step' = step /\ tries' = tries /\ upsets' = upsets
      /\ open' = open /\ spoilt' = spoilt
  BY DEF Blends, migrateVars, fileVars
<1>2. PICK cell : cell = proc[p].key BY Zenon
<1>3. PICK v : v \notin {None, Torn} BY MigrateAssumption, EnvelopeAssumption
<1>4. Put(p, o, Torn) /\ <<o, cell>> \in spoilt /\ UNCHANGED fileVars /\ <<p, o>> \in open
  BY <1>2 DEF Blends, migrateVars
<1>5. /\ FilesInv' /\ proc' = proc /\ cell \in Places /\ objects'[o][cell] # None
      /\ \A b \in Objects, l \in Places : b # o \/ l # cell =>
           objects'[b][l] = objects[b][l] /\ (<<b, l>> \in spoilt' <=> <<b, l>> \in spoilt)
  <2>1. TypeOK /\ FilesInv BY DEF RunInv
  <2>2. Touches(p, o, v) BY <1>2, <1>4 DEF Touches
  <2>. QED BY <1>2, <1>3, <2>1, <2>2, FileWritten
<1>6. objects[o][cell] # None /\ objects'[o][cell] = Torn
  BY <1>2, <1>4, PutPlaces DEF RunInv, FilesInv
<1>7. TypeOK' BY <1>1 DEF RunInv, TypeOK
<1>8. StageInv' BY <1>1, <1>5 DEF RunInv, StageInv, Before
<1>9. ToolOpens' BY <1>1 DEF RunInv, ToolOpens
<1>10. ASSUME NEW b \in Objects PROVE ObjectInv(b)'
  <2>1. ObjectInv(b) BY DEF RunInv
  <2>2. CASE stage \in {"idle", "starting"}
    BY <1>1, <2>1, <2>2 DEF RunInv, StageInv, Before, ObjectInv, There, Missing, Whole, Idle
  <2>3. CASE stage \notin {"idle", "starting"}
    <3>1. Place \in Places
      BY <2>3, MigrateAssumption DEF RunInv, TypeOK, EnvelopeTypeOK, Place, StageInv
    <3>2. \/ objects'[b][Place] = objects[b][Place]
          \/ b = o /\ cell = Place /\ objects[b][Place] # None /\ objects'[b][Place] = Torn
      BY <1>5, <1>6, <3>1
    <3>3. There(b)' BY <1>1, <1>5, <2>1, <3>2, EnvelopeAssumption DEF ObjectInv, There, Place
    <3>4. Missing(b)' BY <1>1, <1>5, <2>1, <3>2 DEF ObjectInv, Missing, Place
    <3>5. Busy(b) => Busy(b)' BY <1>1, <1>5 DEF Busy, Place
    <3>6. b = o /\ cell = Place /\ step[b] \in {"stored", "copied"} => Busy(b)
      BY <1>2, <1>4 DEF RunInv, ToolOpens, Busy, Servers
    <3>7. Whole(b)' BY <1>1, <1>5, <2>1, <3>2, <3>5, <3>6 DEF ObjectInv, Whole, Place
    <3>. QED BY <1>1, <2>1, <3>3, <3>4, <3>7 DEF ObjectInv
  <2>. QED BY <2>2, <2>3
<1>. QED BY <1>5, <1>7, <1>8, <1>9, <1>10 DEF RunInv

LEMMA InitializeKeeps ==
  ASSUME RunInv, EnvelopeTypeOK', NEW p \in Procs, Initialize(p), UNCHANGED <<migrateVars, sealed>>
  PROVE  RunInv'
<1>1. /\ proc[p].pc # "ready" /\ objects' = objects
      /\ \A q \in Procs : q # p => proc'[q] = proc[q]
  <2>. USE DEF RunInv, TypeOK, EnvelopeTypeOK, storeVars
  <2>1. CASE EnvelopeFound(p) BY <2>1 DEF EnvelopeFound
  <2>2. ASSUME NEW k \in Keys, DrawKey(p, k)
        PROVE  /\ proc[p].pc # "ready" /\ objects' = objects
               /\ \A q \in Procs : q # p => proc'[q] = proc[q]
    BY <2>2 DEF DrawKey
  <2>3. CASE Unlock(p) BY <2>3 DEF Unlock
  <2>4. CASE UnlockFails(p) BY <2>4 DEF UnlockFails
  <2>5. CASE CreateOpens(p) BY <2>5 DEF CreateOpens
  <2>6. CASE CreateStored(p) BY <2>6 DEF CreateStored
  <2>7. CASE Created(p) BY <2>7 DEF Created
  <2>8. CASE CreateFails(p) BY <2>8 DEF CreateFails
  <2>. QED BY <2>1, <2>2, <2>3, <2>4, <2>5, <2>6, <2>7, <2>8 DEF Initialize
<1>2. p # Migrator => proc'[Migrator] = proc[Migrator] BY <1>1, MigrateAssumption
<1>3. p = Migrator => stage \in {"idle", "starting"} BY <1>1 DEF RunInv, StageInv
<1>. QED BY <1>1, <1>2, <1>3, OthersKeep

LEMMA StoreStepKeeps ==
  ASSUME RunInv, EnvelopeTypeOK', StoreStep, UNCHANGED sealed PROVE RunInv'
<1>1. ASSUME NEW p \in Servers, ServerStep(p) PROVE RunInv'
  <2>1. p \in Procs /\ p # Migrator /\ Migrator \in Procs BY MigrateAssumption DEF Servers
  <2>2. ASSUME NEW o \in Objects, FillOpens(p, o) \/ FillStored(p, o) \/ FillFails(p, o) PROVE RunInv'
    BY <2>2, FillKeeps, FillGivenUpKeeps
  <2>3. CASE \/ StartPlain(p) /\ UNCHANGED migrateVars
             \/ (\E w \in Passphrases : Start(p, w)) /\ UNCHANGED migrateVars
    <3>1. /\ objects' = objects /\ UNCHANGED migrateVars /\ proc[p].pc = "off"
          /\ \A q \in Procs : q # p => proc'[q] = proc[q]
      BY <2>1, <2>3 DEF StartPlain, Start, storeVars, RunInv, TypeOK, EnvelopeTypeOK
    <3>. QED BY <2>1, <3>1, OthersKeep
  <2>. QED BY <1>1, <2>2, <2>3, ServerCrashKeeps DEF ServerStep
<1>2. CASE RewrapStep /\ UNCHANGED migrateVars
  <2>1. objects' = objects /\ proc' = proc
    BY <1>2 DEF RewrapStep, Rewrap, RewrapUnlocks, RewrapOpens, RewrapStored, RewrapEnds, storeVars
  <2>. QED BY <1>2, <2>1, OthersKeep
<1>. QED BY <1>1, <1>2, InitializeKeeps, BlendsKeeps DEF StoreStep

-----------------------------------------------------------------------------
LEMMA MigrateInit == Init => MInv
<1>. SUFFICES ASSUME Init PROVE MInv
  OBVIOUS
<1>1. IInv BY EnvelopeInitInv DEF Init
<1>2. TypeOK
  BY <1>1, MigrateAssumption DEF Init, IInv, TypeOK, OptionRecords, NoOptions
<1>3. StageInv BY DEF Init, StageInv, Working, Idle
<1>4. \A o \in Objects, l \in Places : objects[o][l] = None BY DEF Init, EnvelopeInit
<1>5. ASSUME NEW o \in Objects PROVE ObjectInv(o)
  BY <1>4, EnvelopeAssumption DEF Init, ObjectInv, There, Missing, Whole, Idle
<1>6. FilesInv /\ ToolOpens BY <1>4, EnvelopeAssumption DEF Init, FilesInv, ToolOpens
<1>. QED BY <1>1, <1>2, <1>3, <1>5, <1>6 DEF MInv, RunInv

LEMMA MigrateNext == MInv /\ [Next]_vars => MInv'
<1>. SUFFICES ASSUME MInv, [Next]_vars PROVE MInv'
  OBVIOUS
<1>1. RunInv /\ TypeOK BY DEF MInv, RunInv
<1>2. IInv' BY <1>1, StepRefines, EnvelopeNextKeeps DEF MInv
<1>3. EnvelopeTypeOK' BY <1>2 DEF IInv
<1>. SUFFICES RunInv' BY <1>2 DEF MInv
<1>4. CASE ToolStep /\ UNCHANGED sealed
  <2>1. ASSUME NEW o \in Objects, KeyStep(o) PROVE RunInv'
    BY <1>1, <1>3, <1>4, <2>1, QuietKeyKeeps, WriteKeeps, WriteFailsKeeps DEF KeyStep
  <2>. QED
    BY <1>1, <1>3, <1>4, <2>1, LaunchKeeps, OpenedKeeps, ListSourceKeeps, ListDestinationKeeps,
       BatchSettledKeeps, ExitKeeps DEF ToolStep
<1>5. CASE StoreStep /\ UNCHANGED sealed BY <1>1, <1>3, <1>5, StoreStepKeeps
<1>6. CASE UNCHANGED vars
  <2>1. UNCHANGED <<migrateVars, sealed, objects, proc>>
    BY <1>6 DEF vars, envelopeVars, storeVars
  <2>. QED BY <1>1, <1>3, <2>1, OthersKeep
<1>. QED BY <1>4, <1>5, <1>6 DEF Next

LEMMA MigrateInvariance == Spec => []MInv
BY MigrateInit, MigrateNext, PTL DEF Spec

\* The types of the tool's state.
THEOREM MigrateTypeCorrect == Spec => []TypeOK
<1>1. MInv => TypeOK BY DEF MInv, RunInv
<1>. QED BY <1>1, MigrateInvariance, PTL

\* migrate.ts opens the store as a server does and writes to it as a server does:
\* every behaviour of the tool beside servers is one of the encrypted store.
THEOREM ToolIsAProcess == Spec => EnvelopeSpec
<1>1. Init => EnvelopeInit BY DEF Init
<1>2. MInv /\ [Next]_vars => [EnvelopeNext]_envelopeVars
  BY StepRefines DEF MInv, RunInv
<1>. QED BY <1>1, <1>2, MigrateInvariance, PTL DEF Spec, EnvelopeSpec

\* So with the tool beside them too, whoever has opened the store works with the
\* key in the envelope (initialize(), migrate.ts opening its destination).
THEOREM ToolKeepsKey == Spec => []ReadyHasKey
BY ToolIsAProcess, KeyIsOne, PTL

\* And what the tool has stored is sealed with it.
THEOREM ToolStoresOpen == Spec => []StoredOpens
BY ToolIsAProcess, KeyIsOne, PTL

LEMMA CleanFromInv == MInv => CleanRunMeansCopied
<1>. SUFFICES ASSUME MInv, stage = "done", ~opts.dryRun,
                     NEW o \in opts.prefix, step[o] # "failed"
              PROVE  /\ objects[o][Place] # None
                     /\ LeftTorn(o, Place) => <<o, Place>> \in spoilt /\ (step[o] = "skipped" \/ "filled" \in upsets)
                     /\ KeySafe /\ Place # Plain => HoldsKey(Place)
  BY DEF CleanRunMeansCopied
<1>1. o \in Objects /\ Place \in Places
  BY MigrateAssumption DEF MInv, RunInv, TypeOK, OptionRecords, EnvelopeTypeOK, StageInv, Place
<1>2. step[o] \in {"copied", "skipped"} BY DEF MInv, RunInv, StageInv, Settled
<1>3. objects[o][Place] # None BY <1>1, <1>2 DEF MInv, RunInv, ObjectInv, There
<1>4. ASSUME LeftTorn(o, Place) PROVE <<o, Place>> \in spoilt /\ (step[o] = "skipped" \/ "filled" \in upsets)
  <2>1. ~Busy(o) BY <1>4 DEF LeftTorn, Busy
  <2>2. <<Migrator, o>> \notin open BY <1>1, <1>2 DEF MInv, RunInv, ToolOpens
  <2>3. \A p \in Procs : <<p, o>> \in open => proc[p].key # Place
    BY <2>1, <2>2 DEF Busy, Servers
  <2>4. <<o, Place>> \in spoilt
    BY <1>1, <1>4, <2>3 DEF MInv, RunInv, FilesInv, LeftTorn
  <2>5. Whole(o) BY <1>1 DEF MInv, RunInv, ObjectInv
  <2>. QED BY <1>2, <1>4, <2>1, <2>4, <2>5 DEF Whole, LeftTorn
<1>5. ReadyHasKey /\ proc[Migrator].pc = "ready"
  BY KeysFromInv DEF MInv, RunInv, StageInv
<1>6. KeySafe /\ Place # Plain => HoldsKey(Place)
  BY <1>5, MigrateAssumption DEF ReadyHasKey, Place
<1>. QED BY <1>3, <1>4, <1>6

\* A run that reports no failure has every key at the destination and readable,
\* whatever was skipped, retried, or filled by a server meanwhile; and the only
\* files torn are those a server is filling, and those it skipped or a server
\* wrote too in which writes had overlapped or been given up: migrateKey() and
\* the loop of main() beside FsStorage.write().
THEOREM CleanRunIsComplete == Spec => []CleanRunMeansCopied
BY MigrateInvariance, CleanFromInv, PTL

\* The change of one object that WritesOnlyMissing allows.
MayChange(o, l) ==
  objects'[o][l] # objects[o][l] /\ step' # step =>
    /\ ~opts.dryRun
    /\ \/ opts.overwrite
       \/ upsets \cap {"missed", "filled"} # {}
       \/ objects[o][l] \in {None, Torn, run}

LEMMA StepWritesMissing ==
  ASSUME MInv, [Next]_vars, NEW o \in Objects, NEW l \in Places PROVE MayChange(o, l)
<1>1. ASSUME NEW b \in Objects, WriteOpens(b) \/ WriteStored(b) PROVE MayChange(o, l)
  <2>1. PICK v : Put(Migrator, b, v) BY <1>1 DEF WriteOpens, WriteStored, Truncates, Stores
  <2>2. b # o \/ l # Place => objects'[o][l] = objects[o][l]
    BY <2>1, PutPlaces, MigrateAssumption DEF MInv, RunInv, Place
  <2>3. step[b] \in {"writing", "opened"} BY <1>1 DEF WriteOpens, WriteStored, Moves
  <2>4. Missing(b) BY DEF MInv, RunInv, ObjectInv
  <2>. QED BY <2>2, <2>3, <2>4 DEF MayChange, Missing
<1>2. ASSUME step' = step PROVE MayChange(o, l) BY <1>2 DEF MayChange
<1>3. ASSUME objects' = objects PROVE MayChange(o, l) BY <1>3 DEF MayChange
<1>4. CASE ToolStep
  <2>1. ASSUME NEW b \in Objects, KeyStep(b) PROVE MayChange(o, l)
    <3>1. CASE WriteOpens(b) \/ WriteStored(b) BY <1>1, <3>1
    <3>2. CASE ~(WriteOpens(b) \/ WriteStored(b))
      <4>1. UNCHANGED envelopeVars
        BY <2>1, <3>2 DEF KeyStep, Looked, SourceRead, SourceFails, WriteOk, WriteFails, PauseEnds
      <4>. QED BY <1>3, <4>1 DEF envelopeVars, storeVars
    <3>. QED BY <3>1, <3>2
  <2>2. CASE Opened \/ ListSource \/ ListDestination \/ BatchSettled \/ Exit
    BY <1>3, <2>2 DEF Opened, ListSource, ListDestination, BatchSettled, Exit, Crash, envelopeVars, storeVars
  <2>3. ASSUME NEW op \in Options, Launch(op) PROVE MayChange(o, l)
    BY <1>3, <2>3 DEF Launch, Start, StartPlain, storeVars
  <2>. QED BY <1>4, <2>1, <2>2, <2>3 DEF ToolStep
<1>5. CASE StoreStep
  <2>1. ASSUME NEW p \in Procs, Initialize(p) PROVE MayChange(o, l)
    BY <1>3, <2>1 DEF Initialize, EnvelopeFound, DrawKey, Unlock, UnlockFails, CreateOpens,
                      CreateStored, Created, CreateFails, storeVars
  <2>2. CASE RewrapStep
    BY <1>3, <2>2 DEF RewrapStep, Rewrap, RewrapUnlocks, RewrapOpens, RewrapStored, RewrapEnds, storeVars
  <2>3. ASSUME NEW p \in Servers, ServerStep(p) PROVE MayChange(o, l)
    BY <1>2, <2>3 DEF ServerStep, ServerCrash, FillOpens, FillStored, FillFails, Fills, migrateVars
  <2>4. ASSUME NEW p \in Procs, NEW b \in Objects, Blends(p, b) PROVE MayChange(o, l)
    BY <1>2, <2>4 DEF Blends, migrateVars
  <2>. QED BY <1>5, <2>1, <2>2, <2>3, <2>4 DEF StoreStep
<1>6. CASE UNCHANGED vars BY <1>3, <1>6 DEF vars, envelopeVars, storeVars
<1>. QED BY <1>4, <1>5, <1>6 DEF Next

\* Without --overwrite nothing stored is replaced, in a dry run nothing is
\* written: the decisions of migrateKey() hold until its write is done.
THEOREM OnlyMissingWritten == Spec => WritesOnlyMissing
<1>1. MInv /\ [Next]_vars =>
        [\A o \in Objects, l \in Places : MayChange(o, l)]_vars
  BY StepWritesMissing
<1>. QED BY <1>1, MigrateInvariance, PTL DEF Spec, WritesOnlyMissing, MayChange
=============================================================================
