------------------------------- MODULE Migrate -------------------------------
(***************************************************************************)
(* The migration tool: it copies the objects of a source backend to a      *)
(* destination, in batches, skipping what is there, retrying failed        *)
(* writes. The destination is the store of KeyEnvelope; with               *)
(* --encrypt-destination the tool opens it like a server does, so that     *)
(* every step here is a step of that store or leaves it alone.             *)
(*                                                                         *)
(* The tool can be run again after it ended or was killed. What run n      *)
(* writes is version n of an object; what servers write is version 0.      *)
(*                                                                         *)
(* A write to the file system, of the tool or of a server, truncates the   *)
(* file and fills it later; it may be given up between, and two of them    *)
(* may overlap: open and spoilt keep book of that.                         *)
(*                                                                         *)
(* upsets is history, like mishaps, of the current run: "missed", and      *)
(* "filled" (a server was writing during the run).                         *)
(***************************************************************************)
EXTENDS KeyEnvelope

CONSTANTS
  Migrator,  \* the migration tool among Procs
  Options,   \* the options a run may be given
  Attempts,  \* the attempts to write one object, 3 in the program
  MaxRuns    \* bound: how often the tool is run

OptionRecords ==
  [encrypt : BOOLEAN, overwrite : BOOLEAN, dryRun : BOOLEAN,
   concurrency : Nat \ {0}, prefix : SUBSET Objects]

ASSUME MigrateAssumption ==
  /\ Migrator \in Procs
  /\ \A op \in Options :
       /\ op.encrypt \in BOOLEAN /\ op.overwrite \in BOOLEAN /\ op.dryRun \in BOOLEAN
       /\ op.concurrency \in Nat \ {0} /\ op.prefix \subseteq Objects
       /\ op \in OptionRecords
  /\ Attempts \in Nat \ {0}
  /\ MaxRuns \in Nat
  /\ Versions = 0..MaxRuns
  /\ IsFiniteSet(Objects)

VARIABLES
  sealed, \* whether the servers of the destination encrypt; bound: all or none
  stage,  \* where main() stands
  opts,   \* the options of the run; prefix: the source objects list(prefix) finds
  run,    \* which run it is
  todo,   \* the keys not yet in a batch; their order says nothing
  batch,  \* the keys of the running Promise.allSettled()
  known,  \* knownExisting
  step,   \* each key: where its migrateKey() stands, or how it was settled
  tries,  \* attempt; 0 outside the loop
  open,   \* <<p, o>>: p has truncated the file of o and is filling it; bound:
          \*   a server writes an object once at a time
  spoilt, \* history: <<o, l>>: of the file of o at l two writes have overlapped
          \*   or one was given up, and no write has replaced it since
  upsets  \* history: what has gone wrong in this run

fileVars == <<open, spoilt>>
migrateVars == <<stage, opts, run, todo, batch, known, step, tries, fileVars, upsets>>
vars == <<envelopeVars, migrateVars, sealed>>

Settled == {"copied", "skipped", "failed"}
Working == {"looking", "reading", "writing", "opened", "stored", "pausing"}
Idle == "no"

\* The names the tool gives its objects: encrypted with its key, or plain.
Place == proc[Migrator].key

TypeOK ==
  /\ EnvelopeTypeOK
  /\ sealed \in BOOLEAN
  /\ stage \in {"idle", "starting", "listing", "knowing", "copying", "done"}
  /\ opts \in OptionRecords
  /\ run \in 0..MaxRuns
  /\ todo \subseteq opts.prefix /\ batch \subseteq opts.prefix /\ known \subseteq Objects
  /\ step \in [Objects -> Settled \cup Working \cup {Idle}]
  /\ tries \in [Objects -> 0..Attempts]
  /\ open \subseteq Procs \X Objects /\ spoilt \subseteq Objects \X Places
  /\ upsets \subseteq {"missed", "filled"}

-----------------------------------------------------------------------------
(***************************************************************************)
(* write() of an object: a PUT to S3 takes effect at once; a file is       *)
(* truncated, then filled.                                                 *)
(***************************************************************************)
\* Who, p aside, is filling the file that p writes o to.
Others(p, o) == {q \in Procs \ {p} : <<q, o>> \in open /\ proc[q].key = proc[p].key}

\* A write that starts alone has the file to itself; later ones blend with it.
Truncates(p, o) ==
  /\ backend = "fs"
  /\ Put(p, o, Torn)
  /\ open' = open \cup {<<p, o>>}
  /\ spoilt' = IF Others(p, o) = {} THEN spoilt \ {<<o, proc[p].key>>}
               ELSE spoilt \cup {<<o, proc[p].key>>}

\* The write ends; if others overlapped it the file may be a mixture.
Stores(p, o, v) ==
  LET cell == <<o, proc[p].key>>
  IN  IF backend = "fs"
      THEN \E x \in {v} \cup (IF cell \in spoilt THEN {Torn} ELSE {}) :
             /\ <<p, o>> \in open
             /\ Put(p, o, x)
             /\ open' = open \ {<<p, o>>}
             /\ spoilt' = IF x = v /\ Others(p, o) = {} THEN spoilt \ {cell} ELSE spoilt
      ELSE Put(p, o, v) /\ UNCHANGED fileVars

\* Writes that are given up, by an error or with their process.
GivesUp(writes) ==
  /\ open' = open \ writes
  /\ spoilt' = spoilt \cup {<<w[2], proc[w[1]].key>> : w \in open \cap writes}

-----------------------------------------------------------------------------
(***************************************************************************)
(* main() up to its loop.                                                  *)
(***************************************************************************)
\* A new run; with encryption it has first to open the destination.
Launch(op) ==
  /\ stage = "idle"
  /\ run < MaxRuns
  /\ run' = run + 1
  /\ opts' = op
  /\ UNCHANGED <<todo, batch, known, step, tries, fileVars, upsets>>
  /\ IF op.encrypt
     THEN stage' = "starting" /\ \E w \in Passphrases : Start(Migrator, w)
     ELSE stage' = "listing" /\ StartPlain(Migrator)

\* ensureReady()
Opened ==
  /\ stage = "starting"
  /\ proc[Migrator].pc = "ready"
  /\ stage' = "listing"
  /\ UNCHANGED <<envelopeVars, opts, run, todo, batch, known, step, tries, fileVars, upsets>>

\* migrateKey() once it knows whether the object is there.
Decided(op, there) ==
  IF there /\ ~op.overwrite THEN "skipped" ELSE IF op.dryRun THEN "copied" ELSE "reading"

\* The next batch of the keys rest, or the end of the loop. With encryption
\* knownExisting tells at once what is there, else exists() is asked.
NextBatch(rest, there) ==
  IF rest = {}
  THEN /\ stage' = "done" /\ todo' = {} /\ batch' = {}
       /\ UNCHANGED step
  ELSE \E B \in SUBSET rest :
         /\ B # {}
         /\ Cardinality(B) = opts.concurrency \/ (B = rest /\ Cardinality(B) < opts.concurrency)
         /\ stage' = "copying" /\ todo' = rest \ B /\ batch' = B
         /\ step' = [o \in Objects |->
              IF o \notin B THEN step[o]
              ELSE IF opts.encrypt THEN Decided(opts, o \in there) ELSE "looking"]

ListSource ==
  /\ stage = "listing"
  /\ IF opts.encrypt
     THEN stage' = "knowing" /\ todo' = opts.prefix /\ UNCHANGED <<batch, step>>
     ELSE NextBatch(opts.prefix, {})
  /\ UNCHANGED <<envelopeVars, opts, run, known, tries, fileVars, upsets>>

\* Mutant of Listed: the names are looked up as they are.
ListedPlain == {o \in opts.prefix : objects[o][Plain] # None}

\* list() of the encrypted destination: the names that decrypt with the key.
Listed == {o \in opts.prefix : objects[o][Place] # None}

ListDestination ==
  /\ stage = "knowing"
  /\ known' = Listed
  /\ NextBatch(todo, Listed)
  /\ UNCHANGED <<envelopeVars, opts, run, tries, fileVars, upsets>>

-----------------------------------------------------------------------------
(***************************************************************************)
(* migrateKey()                                                            *)
(***************************************************************************)
Moves(o, from, to) ==
  /\ o \in batch /\ step[o] = from
  /\ step' = [step EXCEPT ![o] = to]
  /\ UNCHANGED <<stage, opts, run, todo, batch, known>>

\* exists(), which may answer false for an object that is there.
Looked(o, there) ==
  LET missed == IF objects[o][Place] # None /\ ~there THEN {"missed"} ELSE {}
  IN  /\ Moves(o, "looking", Decided(opts, there))
      /\ there => objects[o][Place] # None
      /\ missed \subseteq Faults
      /\ upsets' = upsets \cup missed
      /\ UNCHANGED <<envelopeVars, tries, fileVars>>

SourceRead(o) ==
  /\ Moves(o, "reading", "writing")
  /\ tries' = [tries EXCEPT ![o] = 1]
  /\ UNCHANGED <<envelopeVars, fileVars, upsets>>

SourceFails(o) == Moves(o, "reading", "failed") /\ UNCHANGED <<envelopeVars, tries, fileVars, upsets>>

\* dest.write()
WriteOpens(o) ==
  /\ Moves(o, "writing", "opened")
  /\ Truncates(Migrator, o)
  /\ UNCHANGED <<tries, upsets>>

WriteStored(o) ==
  /\ Moves(o, IF backend = "fs" THEN "opened" ELSE "writing", "stored")
  /\ Stores(Migrator, o, run)
  /\ UNCHANGED <<tries, upsets>>

WriteOk(o) ==
  /\ Moves(o, "stored", "copied")
  /\ tries' = [tries EXCEPT ![o] = 0]
  /\ UNCHANGED <<envelopeVars, fileVars, upsets>>

\* Mutants of AfterFailure: the last error is dropped; one attempt more.
AfterFailureDropped(n) == IF n < Attempts THEN "pausing" ELSE "copied"
AfterFailureOnce(n) == IF n <= Attempts THEN "pausing" ELSE "failed"

AfterFailure(n) == IF n < Attempts THEN "pausing" ELSE "failed"

\* write() rejects: before it took effect, half-way, or after (a timeout).
WriteFails(o) ==
  LET after == AfterFailure(tries[o])
  IN  /\ \E from \in {"writing", "opened", "stored"} : Moves(o, from, after)
      /\ GivesUp({<<Migrator, o>>})
      /\ tries' = [tries EXCEPT ![o] = IF after = "pausing" THEN @ ELSE 0]
      /\ UNCHANGED <<envelopeVars, upsets>>

PauseEnds(o) ==
  /\ Moves(o, "pausing", "writing")
  /\ tries' = [tries EXCEPT ![o] = @ + 1]
  /\ UNCHANGED <<envelopeVars, fileVars, upsets>>

\* Every promise of the batch is settled: the next one, or the end.
BatchSettled ==
  /\ stage = "copying"
  /\ \A o \in batch : step[o] \in Settled
  /\ NextBatch(todo, known)
  /\ UNCHANGED <<envelopeVars, opts, run, known, tries, fileVars, upsets>>

NoOptions == [encrypt |-> FALSE, overwrite |-> FALSE, dryRun |-> FALSE, concurrency |-> 1, prefix |-> {}]

\* The tool exits: it is done, a listing failed, the destination could not be
\* opened, or it is killed at any point.
Exit ==
  /\ stage # "idle"
  /\ Crash(Migrator)
  /\ GivesUp({Migrator} \X Objects)
  /\ stage' = "idle" /\ opts' = NoOptions
  /\ todo' = {} /\ batch' = {} /\ known' = {}
  /\ step' = [o \in Objects |-> Idle]
  /\ tries' = [o \in Objects |-> 0]
  /\ upsets' = {}
  /\ UNCHANGED run

-----------------------------------------------------------------------------
(***************************************************************************)
(* The servers of the destination.                                         *)
(***************************************************************************)
\* A server is busy with the objects; a tool that runs will have seen that.
Fills ==
  /\ upsets' = IF stage = "idle" THEN upsets ELSE upsets \cup {"filled"}
  /\ UNCHANGED <<stage, opts, run, todo, batch, known, step, tries>>

FillOpens(p, o) == <<p, o>> \notin open /\ Truncates(p, o) /\ Fills

FillStored(p, o) == Stores(p, o, 0) /\ Fills

FillFails(p, o) ==
  /\ <<p, o>> \in open
  /\ GivesUp({<<p, o>>})
  /\ Fills
  /\ UNCHANGED envelopeVars

\* A server that ends gives up what it was writing.
ServerCrash(p) ==
  /\ Crash(p)
  /\ GivesUp({p} \X Objects)
  /\ IF open \cap ({p} \X Objects) = {}
     THEN UNCHANGED <<stage, opts, run, todo, batch, known, step, tries, upsets>>
     ELSE Fills

\* While writes overlap, whole contents may be torn again, whoever writes.
Blends(p, o) ==
  /\ <<p, o>> \in open /\ <<o, proc[p].key>> \in spoilt
  /\ Put(p, o, Torn)
  /\ UNCHANGED migrateVars

-----------------------------------------------------------------------------
Init ==
  /\ EnvelopeInit
  /\ sealed \in BOOLEAN
  /\ stage = "idle" /\ opts = NoOptions /\ run = 0
  /\ todo = {} /\ batch = {} /\ known = {}
  /\ step = [o \in Objects |-> Idle]
  /\ tries = [o \in Objects |-> 0]
  /\ open = {} /\ spoilt = {} /\ upsets = {}

KeyStep(o) ==
  \/ \E there \in BOOLEAN : Looked(o, there)
  \/ SourceRead(o)
  \/ SourceFails(o)
  \/ WriteOpens(o)
  \/ WriteStored(o)
  \/ WriteOk(o)
  \/ WriteFails(o)
  \/ PauseEnds(o)

ToolStep ==
  \/ \E op \in Options : Launch(op)
  \/ Opened
  \/ ListSource
  \/ ListDestination
  \/ BatchSettled
  \/ Exit
  \/ \E o \in Objects : KeyStep(o)

Servers == Procs \ {Migrator}

ServerStep(p) ==
  \/ ~sealed /\ StartPlain(p) /\ UNCHANGED migrateVars
  \/ sealed /\ (\E w \in Passphrases : Start(p, w)) /\ UNCHANGED migrateVars
  \/ ServerCrash(p)
  \/ \E o \in Objects : FillOpens(p, o) \/ FillStored(p, o) \/ FillFails(p, o)

StoreStep ==
  \/ \E p \in Servers : ServerStep(p)
  \/ \E p \in Procs : Initialize(p) /\ UNCHANGED migrateVars
  \/ \E p \in Procs, o \in Objects : Blends(p, o)
  \/ RewrapStep /\ UNCHANGED migrateVars

Next == (ToolStep \/ StoreStep) /\ UNCHANGED sealed

Spec == Init /\ [][Next]_vars

-----------------------------------------------------------------------------
\* The files torn with no server still at work on them.
LeftTorn(o, l) ==
  /\ objects[o][l] = Torn
  /\ \A p \in Servers : <<p, o>> \in open => proc[p].key # l

\* A run that reports no failure has every key of the source at the destination,
\* under names and a key that later processes will find and open: whether copied
\* now, skipped because an earlier run or a server had stored it, or retried
\* after a write that took effect. What it copied is whole unless a server wrote
\* it too; what it skipped is whole unless a write of it was given up half-way
\* or overlapped another. What a server is writing may be torn until it is done.
CleanRunMeansCopied ==
  stage = "done" /\ ~opts.dryRun =>
    \A o \in opts.prefix :
      step[o] # "failed" =>
        /\ objects[o][Place] # None
        /\ LeftTorn(o, Place) =>
             /\ <<o, Place>> \in spoilt
             /\ step[o] = "skipped" \/ "filled" \in upsets
        /\ KeySafe /\ Place # Plain => HoldsKey(Place)

\* Without --overwrite the tool replaces nothing that an earlier run or a server
\* has stored, and in a dry run it stores no object at all; unless exists() was
\* wrong or a server fills the destination while the tool runs.
WritesOnlyMissing ==
  [][\A o \in Objects, l \in Places :
       objects'[o][l] # objects[o][l] /\ step' # step =>
         /\ ~opts.dryRun
         /\ \/ opts.overwrite
            \/ upsets \cap {"missed", "filled"} # {}
            \/ objects[o][l] \in {None, Torn, run}]_vars
=============================================================================
