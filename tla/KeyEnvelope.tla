----------------------------- MODULE KeyEnvelope -----------------------------
(***************************************************************************)
(* An encrypted store: the master key all objects are sealed and named     *)
(* with, wrapped by a passphrase in one object of the store (the envelope),*)
(* the processes that open the store (servers; in Migrate the migration    *)
(* tool), each of which reads the envelope or, if there is none, draws a   *)
(* key and writes one, and the passphrase tool, which wraps the key anew.  *)
(*                                                                         *)
(* Paths are encrypted with the key, so an object has one place for each   *)
(* key and one, Plain, where processes without encryption keep it.         *)
(*                                                                         *)
(* What nothing in the program prevents is a step like any other, and is   *)
(* remembered in mishaps:                                                  *)
(*   "cut"    a write of the envelope's file was cut short                 *)
(*   "missed" exists() answered false for an object that is there          *)
(*   "rival"  a process drew a key while another was writing its own       *)
(***************************************************************************)
EXTENDS Naturals, FiniteSets

CONSTANTS
  Procs,       \* processes that open the store
  Keys,        \* master keys that may be drawn; bound: one per first start
  Passphrases,
  Objects,     \* logical keys, other than that of the envelope
  Versions,    \* whole contents an object may have
  Faults,      \* the mishaps that may happen
  Plain,       \* the place of unencrypted objects; also: no passphrase
  None, Torn   \* no object; an object that is not whole

ASSUME EnvelopeAssumption ==
  /\ Plain \notin Keys \cup Passphrases
  /\ None \notin Keys \cup Passphrases \cup {Plain}
  /\ {None, Torn} \cap Versions = {} /\ None # Torn
  /\ Torn \notin [key : Keys, pass : Passphrases]
  /\ None \notin [key : Keys, pass : Passphrases]
  /\ Faults \subseteq {"cut", "missed", "rival"}

VARIABLES
  backend,   \* "fs" or "s3": what a write does before it is complete
  envelope,  \* the object MASTER_KEY_OBJECT
  proc,      \* each process: its initialize(), passphrase and masterKey
  objects,   \* the objects at their places
  drawn,     \* the keys randomBytes() has returned
  rewrap,    \* the passphrase tool
  mishaps    \* history: what has gone wrong

storeVars == <<backend, envelope, objects, mishaps>>
envelopeVars == <<storeVars, proc, drawn, rewrap>>

Envelopes == [key : Keys, pass : Passphrases]
Places == Keys \cup {Plain}
Wrapped(k, w) == [key |-> k, pass |-> w]
Off == [pc |-> "off", pass |-> Plain, key |-> None]

ProcStates ==
  [pc : {"off", "looking", "reading", "creating", "opened", "stored", "ready"},
   pass : Passphrases \cup {Plain}, key : Places \cup {None}]

\* The type invariant: a process past its key has one; so has the tool.
EnvelopeTypeOK ==
  /\ backend \in {"fs", "s3"}
  /\ envelope \in Envelopes \cup {None, Torn}
  /\ proc \in [Procs -> ProcStates]
  /\ \A p \in Procs :
       /\ proc[p].pc \in {"creating", "opened", "stored"} => proc[p].key \in Keys
       /\ proc[p].pc \in {"looking", "reading", "creating", "opened", "stored"} => proc[p].pass \in Passphrases
       /\ proc[p].pc = "ready" => proc[p].key \in Places
  /\ objects \in [Objects -> [Places -> Versions \cup {None, Torn}]]
  /\ drawn \subseteq Keys
  /\ rewrap \in [pc : {"off", "reading", "writing", "opened"}, key : Keys \cup {None},
                 old : Passphrases \cup {None}, new : Passphrases \cup {None}]
  /\ rewrap.pc # "off" => rewrap.old \in Passphrases /\ rewrap.new \in Passphrases
  /\ rewrap.pc \in {"writing", "opened"} => rewrap.key \in Keys
  /\ mishaps \subseteq Faults

-----------------------------------------------------------------------------
(***************************************************************************)
(* initialize()                                                            *)
(***************************************************************************)
\* A process starts with the passphrase w of its environment, or without
\* encryption.
StartPlain(p) ==
  /\ proc[p].pc = "off"
  /\ proc' = [proc EXCEPT ![p] = [pc |-> "ready", pass |-> Plain, key |-> Plain]]
  /\ UNCHANGED <<storeVars, drawn, rewrap>>

Start(p, w) ==
  /\ proc[p].pc = "off"
  /\ proc' = [proc EXCEPT ![p] = [pc |-> "looking", pass |-> w, key |-> None]]
  /\ UNCHANGED <<storeVars, drawn, rewrap>>

EnvelopeFound(p) ==
  /\ proc[p].pc = "looking"
  /\ envelope # None
  /\ proc' = [proc EXCEPT ![p].pc = "reading"]
  /\ UNCHANGED <<storeVars, drawn, rewrap>>

\* exists() answers false for any failure; two processes may both find nothing.
WhatGoesWrong(p) ==
  (IF envelope # None THEN {"missed"} ELSE {}) \cup
  (IF \E q \in Procs \ {p} : proc[q].pc \in {"creating", "opened"} THEN {"rival"} ELSE {})

\* exists() answered false: a new key is drawn and the envelope is written.
DrawKey(p, k) ==
  /\ proc[p].pc = "looking"
  /\ WhatGoesWrong(p) \subseteq Faults
  /\ k \in Keys \ drawn
  /\ proc' = [proc EXCEPT ![p].pc = "creating", ![p].key = k]
  /\ drawn' = drawn \cup {k}
  /\ mishaps' = mishaps \cup WhatGoesWrong(p)
  /\ UNCHANGED <<backend, envelope, objects, rewrap>>

\* unwrapMasterKey(): the authenticated cipher opens with the right passphrase.
Opens(w) == envelope \in Envelopes /\ envelope.pass = w

Unlock(p) ==
  /\ proc[p].pc = "reading"
  /\ Opens(proc[p].pass)
  /\ proc' = [proc EXCEPT ![p].pc = "ready", ![p].key = envelope.key]
  /\ UNCHANGED <<storeVars, drawn, rewrap>>

\* Mutant of UnlockFails: an envelope that cannot be opened is replaced.
UnlockFailsAnew(p) ==
  /\ proc[p].pc = "reading"
  /\ \E k \in Keys \ drawn :
       /\ proc' = [proc EXCEPT ![p].pc = "creating", ![p].key = k]
       /\ drawn' = drawn \cup {k}
  /\ UNCHANGED <<storeVars, rewrap>>

\* Wrong passphrase, an envelope that does not parse, or a read that fails: the
\* process ends.
UnlockFails(p) ==
  /\ proc[p].pc = "reading"
  /\ proc' = [proc EXCEPT ![p] = Off]
  /\ UNCHANGED <<storeVars, drawn, rewrap>>

\* writeFile() truncates the file before it writes; a PUT has no such moment.
CreateOpens(p) ==
  /\ backend = "fs"
  /\ proc[p].pc = "creating"
  /\ envelope' = Torn
  /\ proc' = [proc EXCEPT ![p].pc = "opened"]
  /\ UNCHANGED <<backend, objects, drawn, rewrap, mishaps>>

CreateStored(p) ==
  /\ proc[p].pc = IF backend = "fs" THEN "opened" ELSE "creating"
  /\ envelope' = Wrapped(proc[p].key, proc[p].pass)
  /\ proc' = [proc EXCEPT ![p].pc = "stored"]
  /\ UNCHANGED <<backend, objects, drawn, rewrap, mishaps>>

Created(p) ==
  /\ proc[p].pc = "stored"
  /\ proc' = [proc EXCEPT ![p].pc = "ready"]
  /\ UNCHANGED <<storeVars, drawn, rewrap>>

\* A write that is given up half-way leaves a torn file.
CutBy(pc) == IF pc = "opened" THEN {"cut"} ELSE {}

\* write() rejects, perhaps after it has taken effect.
CreateFails(p) ==
  /\ proc[p].pc \in {"creating", "opened", "stored"}
  /\ CutBy(proc[p].pc) \subseteq Faults
  /\ mishaps' = mishaps \cup CutBy(proc[p].pc)
  /\ proc' = [proc EXCEPT ![p] = Off]
  /\ UNCHANGED <<backend, envelope, objects, drawn, rewrap>>

\* The process ends, wherever it stands.
Crash(p) ==
  /\ CutBy(proc[p].pc) \subseteq Faults
  /\ mishaps' = mishaps \cup CutBy(proc[p].pc)
  /\ proc' = [proc EXCEPT ![p] = Off]
  /\ UNCHANGED <<backend, envelope, objects, drawn, rewrap>>

\* write(): awaits ready, then stores the object under the process's own key;
\* half-way through, and after a failure, it may be torn.
Put(p, o, v) ==
  /\ proc[p].pc = "ready"
  /\ objects' = [objects EXCEPT ![o][proc[p].key] = v]
  /\ UNCHANGED <<backend, envelope, proc, drawn, rewrap, mishaps>>

-----------------------------------------------------------------------------
(***************************************************************************)
(* change-passphrase.ts                                                    *)
(***************************************************************************)
NoRewrap == [pc |-> "off", key |-> None, old |-> None, new |-> None]

Rewrap(old, new) ==
  /\ rewrap.pc = "off"
  /\ rewrap' = [NoRewrap EXCEPT !.pc = "reading", !.old = old, !.new = new]
  /\ UNCHANGED <<storeVars, proc, drawn>>

\* Mutant of RewrapKey: the tool wraps a key of its own.
RewrapFreshKey == IF Keys \ drawn = {} THEN envelope.key ELSE CHOOSE k \in Keys \ drawn : TRUE

RewrapKey == envelope.key

RewrapUnlocks ==
  /\ rewrap.pc = "reading"
  /\ Opens(rewrap.old)
  /\ rewrap' = [rewrap EXCEPT !.pc = "writing", !.key = RewrapKey]
  /\ UNCHANGED <<storeVars, proc, drawn>>

RewrapOpens ==
  /\ backend = "fs"
  /\ rewrap.pc = "writing"
  /\ envelope' = Torn
  /\ rewrap' = [rewrap EXCEPT !.pc = "opened"]
  /\ UNCHANGED <<backend, objects, proc, drawn, mishaps>>

RewrapStored ==
  /\ rewrap.pc = IF backend = "fs" THEN "opened" ELSE "writing"
  /\ envelope' = Wrapped(rewrap.key, rewrap.new)
  /\ rewrap' = NoRewrap
  /\ UNCHANGED <<backend, objects, proc, drawn, mishaps>>

\* A read or write fails, the old passphrase is wrong, or the tool is killed
\* before its write took effect.
RewrapEnds ==
  /\ rewrap.pc # "off"
  /\ CutBy(rewrap.pc) \subseteq Faults
  /\ mishaps' = mishaps \cup CutBy(rewrap.pc)
  /\ rewrap' = NoRewrap
  /\ UNCHANGED <<backend, envelope, objects, proc, drawn>>

-----------------------------------------------------------------------------
EnvelopeInit ==
  /\ backend \in {"fs", "s3"}
  /\ envelope = None
  /\ proc = [p \in Procs |-> Off]
  /\ objects = [o \in Objects |-> [l \in Places |-> None]]
  /\ drawn = {}
  /\ rewrap = NoRewrap
  /\ mishaps = {}

\* What initialize() does on its own once it is called.
Initialize(p) ==
  \/ EnvelopeFound(p)
  \/ \E k \in Keys : DrawKey(p, k)
  \/ Unlock(p)
  \/ UnlockFails(p)
  \/ CreateOpens(p)
  \/ CreateStored(p)
  \/ Created(p)
  \/ CreateFails(p)

RewrapStep ==
  \/ \E old, new \in Passphrases : Rewrap(old, new)
  \/ RewrapUnlocks
  \/ RewrapOpens
  \/ RewrapStored
  \/ RewrapEnds

EnvelopeNext ==
  \/ \E p \in Procs :
       \/ StartPlain(p)
       \/ \E w \in Passphrases : Start(p, w)
       \/ Initialize(p)
       \/ Crash(p)
       \/ \E o \in Objects, v \in Versions \cup {Torn} : Put(p, o, v)
  \/ RewrapStep

EnvelopeSpec == EnvelopeInit /\ [][EnvelopeNext]_envelopeVars

-----------------------------------------------------------------------------
(***************************************************************************)
(* What the envelope is for.                                               *)
(***************************************************************************)
\* The envelope holds k, or the passphrase tool is just writing it back.
HoldsKey(k) ==
  \/ envelope \in Envelopes /\ envelope.key = k
  \/ envelope = Torn /\ rewrap.pc = "opened" /\ rewrap.key = k

\* No write of the envelope was cut short, no answer of exists() was wrong, and
\* the first start was that of one process alone (the README asks for that).
KeySafe == mishaps \cap {"cut", "missed", "rival"} = {}

\* Whoever has opened the store works with the key in the envelope, so that what
\* it writes can be opened by the browser and by every later process: through
\* crashes, failed writes that took effect, and a passphrase tool beside it.
ReadyHasKey ==
  KeySafe => \A p \in Procs :
    proc[p].pc = "ready" /\ proc[p].key # Plain => HoldsKey(proc[p].key)

\* Every object of the store is sealed with the key in the envelope.
StoredOpens ==
  KeySafe => \A o \in Objects, k \in Keys : objects[o][k] # None => HoldsKey(k)
=============================================================================
