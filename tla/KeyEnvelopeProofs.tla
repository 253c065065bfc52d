-------------------------- MODULE KeyEnvelopeProofs --------------------------
(***************************************************************************)
(* The key envelope, for any number of processes, passphrases, keys and    *)
(* objects: as long as no write of it was cut short, no exists() was wrong *)
(* and no two first starts met, everybody works with the key in it.        *)
(***************************************************************************)
EXTENDS KeyEnvelope, TLAPS

Makers == {"creating", "opened"}

\* Who makes the envelope is alone and there is none, or its own torn file.
MakerAlone ==
  /\ \A p \in Procs : proc[p].pc = "creating" => envelope = None
  /\ \A p \in Procs : proc[p].pc = "opened" => envelope = Torn /\ rewrap.pc # "opened"
  /\ \A p, q \in Procs : proc[p].pc \in Makers /\ proc[q].pc \in Makers => p = q

\* Every key in use is the one in the envelope.
UsersHold ==
  \A p \in Procs : proc[p].pc \in {"stored", "ready"} /\ proc[p].key \in Keys => HoldsKey(proc[p].key)
ToolHolds == rewrap.pc \in {"writing", "opened"} => HoldsKey(rewrap.key)
ObjectsHold == \A o \in Objects, k \in Keys : objects[o][k] # None => HoldsKey(k)

KeyInv == KeySafe => MakerAlone /\ UsersHold /\ ToolHolds /\ ObjectsHold

IInv == EnvelopeTypeOK /\ KeyInv

-----------------------------------------------------------------------------
\* A step of process p that leaves the store and the passphrase tool alone.
LEMMA QuietKeeps ==
  ASSUME IInv, NEW p \in Procs, NEW st,
         st \in ProcStates,
         st.pc \in {"looking", "reading"} => st.pass \in Passphrases,
         st.pc \notin {"creating", "opened", "stored"},
         st.pc = "ready" => st.key \in Places,
         st.pc = "ready" /\ st.key \in Keys /\ KeySafe => HoldsKey(st.key),
         proc' = [proc EXCEPT ![p] = st],
         mishaps \subseteq mishaps', mishaps' \subseteq Faults,
         UNCHANGED <<backend, envelope, objects, drawn, rewrap>>
  PROVE  IInv'
<1>1. \A q \in Procs : proc'[q] = IF q = p THEN st ELSE proc[q]
  BY DEF IInv, EnvelopeTypeOK
<1>2. EnvelopeTypeOK' BY <1>1 DEF IInv, EnvelopeTypeOK
<1>3. KeySafe' => KeySafe BY DEF KeySafe
<1>4. ASSUME NEW k PROVE HoldsKey(k) <=> HoldsKey(k)' BY DEF HoldsKey, Envelopes
<1>5. KeyInv'
  <2>. SUFFICES ASSUME KeySafe' PROVE (MakerAlone /\ UsersHold /\ ToolHolds /\ ObjectsHold)'
    BY DEF KeyInv
  <2>1. MakerAlone /\ UsersHold /\ ToolHolds /\ ObjectsHold BY <1>3 DEF IInv, KeyInv
  <2>2. MakerAlone' BY <1>1, <2>1 DEF MakerAlone, Makers
  <2>3. UsersHold' BY <1>1, <1>3, <1>4, <2>1 DEF UsersHold
  <2>4. ToolHolds' /\ ObjectsHold' BY <1>4, <2>1 DEF ToolHolds, ObjectsHold
  <2>. QED BY <2>2, <2>3, <2>4
<1>. QED BY <1>2, <1>5 DEF IInv

\* A process does not open a store whose envelope is being made.
LEMMA DrawKeyKeeps ==
  ASSUME IInv, NEW p \in Procs, NEW k \in Keys, DrawKey(p, k) PROVE IInv'
<1>1. /\ proc[p].pc = "looking" /\ proc' = [proc EXCEPT ![p].pc = "creating", ![p].key = k]
      /\ mishaps' = mishaps \cup WhatGoesWrong(p) /\ WhatGoesWrong(p) \subseteq Faults
      /\ drawn' = drawn \cup {k} /\ UNCHANGED <<backend, envelope, objects, rewrap>>
  BY DEF DrawKey
<1>2. /\ proc' \in [Procs -> ProcStates]
      /\ proc'[p].pc = "creating" /\ proc'[p].key = k /\ proc'[p].pass = proc[p].pass
      /\ \A q \in Procs : q # p => proc'[q] = proc[q]
  BY <1>1 DEF IInv, EnvelopeTypeOK, ProcStates, Places
<1>3. EnvelopeTypeOK' BY <1>1, <1>2 DEF IInv, EnvelopeTypeOK
<1>4. KeyInv'
  <2>. SUFFICES ASSUME KeySafe' PROVE (MakerAlone /\ UsersHold /\ ToolHolds /\ ObjectsHold)'
    BY DEF KeyInv
  <2>1. KeySafe /\ envelope = None /\ \A q \in Procs \ {p} : proc[q].pc \notin Makers
    BY <1>1 DEF KeySafe, WhatGoesWrong, Makers
  <2>2. MakerAlone /\ UsersHold /\ ToolHolds /\ ObjectsHold BY <2>1 DEF IInv, KeyInv
  <2>3. ASSUME NEW l PROVE HoldsKey(l) <=> HoldsKey(l)' BY <1>1 DEF HoldsKey, Envelopes
  <2>4. MakerAlone' BY <1>1, <1>2, <2>1, <2>2 DEF MakerAlone, Makers
  <2>5. UsersHold' BY <1>2, <2>2, <2>3 DEF UsersHold
  <2>6. ToolHolds' /\ ObjectsHold' BY <1>1, <2>2, <2>3 DEF ToolHolds, ObjectsHold
  <2>. QED BY <2>4, <2>5, <2>6
<1>. QED BY <1>3, <1>4 DEF IInv

LEMMA StartsKeep ==
  ASSUME IInv, NEW p \in Procs, StartPlain(p) \/ \E w \in Passphrases : Start(p, w) PROVE IInv'
<1>1. CASE StartPlain(p)
  <2>1. PICK st : st = [pc |-> "ready", pass |-> Plain, key |-> Plain] BY Zenon
  <2>2. /\ st \in ProcStates /\ st.pc = "ready" /\ st.key \in Places /\ st.key \notin Keys
        /\ proc' = [proc EXCEPT ![p] = st]
        /\ UNCHANGED <<backend, envelope, objects, mishaps, drawn, rewrap>>
    BY <1>1, <2>1, EnvelopeAssumption DEF StartPlain, ProcStates, Places, storeVars
  <2>. QED BY <2>2, QuietKeeps DEF IInv, EnvelopeTypeOK
<1>2. ASSUME NEW w \in Passphrases, Start(p, w) PROVE IInv'
  <2>1. PICK st : st = [pc |-> "looking", pass |-> w, key |-> None] BY Zenon
  <2>2. /\ st \in ProcStates /\ st.pc = "looking" /\ st.pass \in Passphrases
        /\ proc' = [proc EXCEPT ![p] = st]
        /\ UNCHANGED <<backend, envelope, objects, mishaps, drawn, rewrap>>
    BY <1>2, <2>1 DEF Start, ProcStates, storeVars
  <2>. QED BY <2>2, QuietKeeps DEF IInv, EnvelopeTypeOK
<1>. QED BY <1>1, <1>2

LEMMA FoundKeeps == ASSUME IInv, NEW p \in Procs, EnvelopeFound(p) PROVE IInv'
<1>1. PICK st : st = [proc[p] EXCEPT !.pc = "reading"] BY Zenon
<1>2. /\ st \in ProcStates /\ st.pc = "reading" /\ st.pass \in Passphrases
      /\ proc' = [proc EXCEPT ![p] = st]
      /\ UNCHANGED <<backend, envelope, objects, mishaps, drawn, rewrap>>
  BY <1>1 DEF IInv, EnvelopeTypeOK, EnvelopeFound, ProcStates, storeVars
<1>. QED BY <1>2, QuietKeeps DEF IInv, EnvelopeTypeOK

\* Whoever opens the envelope works with the key in it.
LEMMA UnlockKeeps == ASSUME IInv, NEW p \in Procs, Unlock(p) PROVE IInv'
<1>1. PICK st : st = [proc[p] EXCEPT !.pc = "ready", !.key = envelope.key] BY Zenon
<1>2. envelope \in Envelopes /\ envelope.key \in Keys BY DEF Unlock, Opens, Envelopes
<1>3. /\ st \in ProcStates /\ st.pc = "ready" /\ st.key = envelope.key /\ st.key \in Places
      /\ proc' = [proc EXCEPT ![p] = st]
      /\ UNCHANGED <<backend, envelope, objects, mishaps, drawn, rewrap>>
  <2>1. proc \in [Procs -> ProcStates] BY DEF IInv, EnvelopeTypeOK
  <2>2. proc[p] \in ProcStates BY <2>1
  <2>3. st \in ProcStates /\ st.pc = "ready" /\ st.key = envelope.key
    BY <1>1, <1>2, <2>2 DEF ProcStates, Places
  <2>4. proc' = [proc EXCEPT ![p] = st] BY <1>1, <2>1 DEF Unlock
  <2>5. UNCHANGED <<backend, envelope, objects, mishaps, drawn, rewrap>> BY DEF Unlock, storeVars
  <2>. QED BY <1>2, <2>3, <2>4, <2>5 DEF Places
<1>4. HoldsKey(st.key) BY <1>2, <1>3 DEF HoldsKey
<1>. QED BY <1>3, <1>4, QuietKeeps DEF IInv, EnvelopeTypeOK

LEMMA OffIsState == Off \in ProcStates /\ Off.pc = "off"
BY DEF Off, ProcStates

LEMMA UnlockFailsKeeps == ASSUME IInv, NEW p \in Procs, UnlockFails(p) PROVE IInv'
<1>1. /\ proc' = [proc EXCEPT ![p] = Off]
      /\ UNCHANGED <<backend, envelope, objects, mishaps, drawn, rewrap>>
  BY DEF UnlockFails, storeVars
<1>. QED BY <1>1, OffIsState, QuietKeeps DEF IInv, EnvelopeTypeOK

LEMMA CreatedKeeps == ASSUME IInv, NEW p \in Procs, Created(p) PROVE IInv'
<1>1. PICK st : st = [proc[p] EXCEPT !.pc = "ready"] BY Zenon
<1>2. /\ st \in ProcStates /\ st.pc = "ready" /\ st.key \in Keys /\ st.key = proc[p].key
      /\ proc' = [proc EXCEPT ![p] = st]
      /\ UNCHANGED <<backend, envelope, objects, mishaps, drawn, rewrap>>
  BY <1>1 DEF IInv, EnvelopeTypeOK, Created, ProcStates, Places, storeVars
<1>3. KeySafe => HoldsKey(st.key) BY <1>2 DEF IInv, KeyInv, UsersHold, Created
<1>4. st.key \in Places BY <1>2 DEF Places
<1>. QED BY <1>2, <1>3, <1>4, QuietKeeps DEF IInv, EnvelopeTypeOK

\* A process that gives up: a torn envelope it leaves is remembered as "cut".
LEMMA EndsKeeps ==
  ASSUME IInv, NEW p \in Procs, CreateFails(p) \/ Crash(p) PROVE IInv'
<1>1. /\ proc' = [proc EXCEPT ![p] = Off]
      /\ mishaps \subseteq mishaps' /\ mishaps' \subseteq Faults
      /\ UNCHANGED <<backend, envelope, objects, drawn, rewrap>>
  BY DEF IInv, EnvelopeTypeOK, CreateFails, Crash
<1>. QED BY <1>1, OffIsState, QuietKeeps

-----------------------------------------------------------------------------
\* The maker's own steps; nobody else uses a key then.
LEMMA CreateOpensKeeps == ASSUME IInv, NEW p \in Procs, CreateOpens(p) PROVE IInv'
<1>1. /\ proc[p].pc = "creating" /\ envelope' = Torn
      /\ proc' = [proc EXCEPT ![p].pc = "opened"]
      /\ UNCHANGED <<backend, objects, drawn, rewrap, mishaps>>
  BY DEF CreateOpens
<1>2. /\ proc' \in [Procs -> ProcStates]
      /\ proc'[p].pc = "opened" /\ proc'[p].key = proc[p].key /\ proc'[p].pass = proc[p].pass
      /\ \A q \in Procs : q # p => proc'[q] = proc[q]
  BY <1>1 DEF IInv, EnvelopeTypeOK, ProcStates
<1>3. EnvelopeTypeOK' BY <1>1, <1>2 DEF IInv, EnvelopeTypeOK
<1>4. KeyInv'
  <2>. SUFFICES ASSUME KeySafe' PROVE (MakerAlone /\ UsersHold /\ ToolHolds /\ ObjectsHold)'
    BY DEF KeyInv
  <2>1. MakerAlone /\ UsersHold /\ ToolHolds /\ ObjectsHold BY <1>1 DEF IInv, KeyInv, KeySafe
  <2>2. envelope = None BY <1>1, <2>1 DEF MakerAlone
  <2>3. ASSUME NEW k PROVE ~HoldsKey(k) BY <2>2, EnvelopeAssumption DEF HoldsKey, Envelopes
  <2>4. MakerAlone'
    BY <1>1, <1>2, <2>1, <2>3 DEF MakerAlone, Makers, ToolHolds
  <2>5. UsersHold' BY <1>2, <2>1, <2>3 DEF UsersHold
  <2>6. ToolHolds' /\ ObjectsHold' BY <1>1, <2>1, <2>3 DEF ToolHolds, ObjectsHold
  <2>. QED BY <2>4, <2>5, <2>6
<1>. QED BY <1>3, <1>4 DEF IInv

LEMMA CreateStoredKeeps == ASSUME IInv, NEW p \in Procs, CreateStored(p) PROVE IInv'
<1>1. /\ proc[p].pc \in Makers /\ envelope' = Wrapped(proc[p].key, proc[p].pass)
      /\ proc' = [proc EXCEPT ![p].pc = "stored"]
      /\ UNCHANGED <<backend, objects, drawn, rewrap, mishaps>>
  BY DEF CreateStored, Makers
<1>2. /\ proc' \in [Procs -> ProcStates]
      /\ proc'[p].pc = "stored" /\ proc'[p].key = proc[p].key /\ proc'[p].pass = proc[p].pass
      /\ \A q \in Procs : q # p => proc'[q] = proc[q]
      /\ proc[p].key \in Keys /\ proc[p].pass \in Passphrases
  BY <1>1 DEF IInv, EnvelopeTypeOK, ProcStates, Makers
<1>3. envelope' \in Envelopes /\ envelope'.key = proc[p].key
  BY <1>1, <1>2 DEF Wrapped, Envelopes
<1>4. EnvelopeTypeOK' BY <1>1, <1>2, <1>3 DEF IInv, EnvelopeTypeOK
<1>5. KeyInv'
  <2>. SUFFICES ASSUME KeySafe' PROVE (MakerAlone /\ UsersHold /\ ToolHolds /\ ObjectsHold)'
    BY DEF KeyInv
  <2>1. MakerAlone /\ UsersHold /\ ToolHolds /\ ObjectsHold BY <1>1 DEF IInv, KeyInv, KeySafe
  <2>2. envelope = None \/ (envelope = Torn /\ rewrap.pc # "opened")
    BY <1>1, <2>1 DEF MakerAlone, Makers
  <2>3. ASSUME NEW k PROVE ~HoldsKey(k) BY <2>2, EnvelopeAssumption DEF HoldsKey, Envelopes
  <2>4. MakerAlone'
    BY <1>1, <1>2, <2>1 DEF MakerAlone, Makers
  <2>5. HoldsKey(proc[p].key)' BY <1>1, <1>2, <1>3 DEF HoldsKey
  <2>6. UsersHold' BY <1>2, <1>3, <2>1, <2>3 DEF UsersHold, HoldsKey
  <2>7. ToolHolds' /\ ObjectsHold' BY <1>1, <2>1, <2>3 DEF ToolHolds, ObjectsHold
  <2>. QED BY <2>4, <2>6, <2>7
<1>. QED BY <1>4, <1>5 DEF IInv

LEMMA PutKeeps ==
  ASSUME IInv, NEW p \in Procs, NEW o \in Objects, NEW v \in Versions \cup {Torn}, Put(p, o, v)
  PROVE  IInv'
<1>1. /\ proc[p].pc = "ready" /\ proc[p].key \in Places
      /\ objects' = [objects EXCEPT ![o][proc[p].key] = v]
      /\ UNCHANGED <<backend, envelope, proc, drawn, rewrap, mishaps>>
  BY DEF IInv, EnvelopeTypeOK, Put
<1>2. EnvelopeTypeOK' BY <1>1 DEF IInv, EnvelopeTypeOK
<1>3. ASSUME NEW k PROVE HoldsKey(k) <=> HoldsKey(k)' BY <1>1 DEF HoldsKey, Envelopes
<1>4. KeyInv'
  <2>. SUFFICES ASSUME KeySafe' PROVE (MakerAlone /\ UsersHold /\ ToolHolds /\ ObjectsHold)'
    BY DEF KeyInv
  <2>1. MakerAlone /\ UsersHold /\ ToolHolds /\ ObjectsHold BY <1>1 DEF IInv, KeyInv, KeySafe
  <2>2. MakerAlone' BY <1>1, <2>1 DEF MakerAlone
  <2>3. UsersHold' /\ ToolHolds' BY <1>1, <1>3, <2>1 DEF UsersHold, ToolHolds
  <2>4. ASSUME NEW b \in Objects, NEW k \in Keys, objects'[b][k] # None PROVE HoldsKey(k)
    <3>1. CASE b = o /\ k = proc[p].key BY <1>1, <2>1, <3>1 DEF UsersHold
    <3>2. CASE ~(b = o /\ k = proc[p].key)
      <4>1. objects'[b][k] = objects[b][k] BY <1>1, <3>2 DEF IInv, EnvelopeTypeOK, Places
      <4>. QED BY <2>1, <2>4, <4>1 DEF ObjectsHold
    <3>. QED BY <3>1, <3>2
  <2>5. ObjectsHold' BY <1>3, <2>4 DEF ObjectsHold
  <2>. QED BY <2>2, <2>3, <2>5
<1>. QED BY <1>2, <1>4 DEF IInv

-----------------------------------------------------------------------------
\* The passphrase tool writes back the key it found, which is the key everybody
\* uses, so it may even run beside a server.
LEMMA RewrapKeeps == ASSUME IInv, RewrapStep PROVE IInv'
<1>. USE DEF IInv
<1>1. ASSUME NEW old \in Passphrases, NEW new \in Passphrases, Rewrap(old, new) PROVE IInv'
  <2>1. /\ rewrap' = [pc |-> "reading", key |-> None, old |-> old, new |-> new]
        /\ rewrap.pc = "off" /\ UNCHANGED <<backend, envelope, objects, mishaps, proc, drawn>>
    BY <1>1 DEF Rewrap, NoRewrap, storeVars
  <2>2. EnvelopeTypeOK' BY <2>1 DEF EnvelopeTypeOK
  <2>3. ASSUME NEW k PROVE HoldsKey(k) <=> HoldsKey(k)' BY <2>1 DEF HoldsKey, Envelopes
  <2>4. KeyInv'
    BY <2>1, <2>3 DEF KeyInv, KeySafe, MakerAlone, UsersHold, ToolHolds, ObjectsHold
  <2>. QED BY <2>2, <2>4
<1>2. CASE RewrapUnlocks
  <2>1. /\ envelope \in Envelopes /\ envelope.key \in Keys /\ rewrap.pc = "reading"
        /\ rewrap' = [rewrap EXCEPT !.pc = "writing", !.key = envelope.key]
        /\ UNCHANGED <<backend, envelope, objects, mishaps, proc, drawn>>
    BY <1>2 DEF RewrapUnlocks, RewrapKey, Opens, Envelopes, storeVars
  <2>2. EnvelopeTypeOK' BY <2>1 DEF EnvelopeTypeOK
  <2>3. rewrap'.pc = "writing" /\ rewrap'.key = envelope.key BY <2>1 DEF EnvelopeTypeOK
  <2>4. ASSUME NEW k PROVE HoldsKey(k) <=> HoldsKey(k)'
    BY <2>1, <2>3 DEF HoldsKey, Envelopes
  <2>5. HoldsKey(envelope.key) BY <2>1 DEF HoldsKey
  <2>6. KeyInv'
    BY <2>1, <2>3, <2>4, <2>5 DEF KeyInv, KeySafe, MakerAlone, UsersHold, ToolHolds, ObjectsHold
  <2>. QED BY <2>2, <2>6
<1>3. CASE RewrapOpens
  <2>1. /\ rewrap.pc = "writing" /\ envelope' = Torn /\ rewrap' = [rewrap EXCEPT !.pc = "opened"]
        /\ UNCHANGED <<backend, objects, proc, drawn, mishaps>>
    BY <1>3 DEF RewrapOpens
  <2>2. EnvelopeTypeOK' BY <2>1 DEF EnvelopeTypeOK
  <2>3. rewrap'.pc = "opened" /\ rewrap'.key = rewrap.key BY <2>1 DEF EnvelopeTypeOK
  <2>4. KeyInv'
    <3>. SUFFICES ASSUME KeySafe' PROVE (MakerAlone /\ UsersHold /\ ToolHolds /\ ObjectsHold)'
      BY DEF KeyInv
    <3>1. MakerAlone /\ UsersHold /\ ToolHolds /\ ObjectsHold BY <2>1 DEF KeyInv, KeySafe
    <3>2. envelope \in Envelopes /\ envelope.key = rewrap.key
      BY <2>1, <3>1 DEF ToolHolds, HoldsKey
    <3>3. ASSUME NEW k, HoldsKey(k) PROVE HoldsKey(k)'
      BY <2>1, <2>3, <3>2, <3>3 DEF HoldsKey
    <3>4. \A p \in Procs : proc[p].pc \notin Makers
      BY <3>1, <3>2, EnvelopeAssumption DEF MakerAlone, Makers, Envelopes
    <3>5. MakerAlone' BY <2>1, <3>4 DEF MakerAlone, Makers
    <3>6. UsersHold' /\ ObjectsHold' BY <2>1, <3>1, <3>3 DEF UsersHold, ObjectsHold
    <3>7. ToolHolds' BY <2>1, <2>3 DEF ToolHolds, HoldsKey
    <3>. QED BY <3>5, <3>6, <3>7
  <2>. QED BY <2>2, <2>4
<1>4. CASE RewrapStored
  <2>1. /\ rewrap.pc \in {"writing", "opened"} /\ rewrap' = NoRewrap
        /\ rewrap.key \in Keys /\ rewrap.new \in Passphrases
        /\ envelope' = Wrapped(rewrap.key, rewrap.new)
        /\ UNCHANGED <<backend, objects, proc, drawn, mishaps>>
    BY <1>4 DEF RewrapStored, EnvelopeTypeOK
  <2>2. envelope' \in Envelopes /\ envelope'.key = rewrap.key BY <2>1 DEF Wrapped, Envelopes
  <2>3. EnvelopeTypeOK' BY <2>1, <2>2 DEF EnvelopeTypeOK, NoRewrap
  <2>4. KeyInv'
    <3>. SUFFICES ASSUME KeySafe' PROVE (MakerAlone /\ UsersHold /\ ToolHolds /\ ObjectsHold)'
      BY DEF KeyInv
    <3>1. MakerAlone /\ UsersHold /\ ToolHolds /\ ObjectsHold BY <2>1 DEF KeyInv, KeySafe
    <3>2. HoldsKey(rewrap.key) BY <2>1, <3>1 DEF ToolHolds
    <3>3. ASSUME NEW k, HoldsKey(k) PROVE HoldsKey(k)'
      <4>1. k = rewrap.key BY <3>2, <3>3, EnvelopeAssumption DEF HoldsKey, Envelopes
      <4>. QED BY <2>2, <4>1 DEF HoldsKey
    <3>4. \A p \in Procs : proc[p].pc \notin Makers
      BY <3>1, <3>2, EnvelopeAssumption DEF MakerAlone, Makers, HoldsKey, Envelopes
    <3>5. MakerAlone' BY <2>1, <3>4 DEF MakerAlone, Makers
    <3>6. UsersHold' /\ ObjectsHold' BY <2>1, <3>1, <3>3 DEF UsersHold, ObjectsHold
    <3>7. ToolHolds' BY <2>1 DEF ToolHolds, NoRewrap
    <3>. QED BY <3>5, <3>6, <3>7
  <2>. QED BY <2>3, <2>4
<1>5. CASE RewrapEnds
  <2>1. /\ rewrap' = NoRewrap /\ mishaps' = mishaps \cup CutBy(rewrap.pc)
        /\ CutBy(rewrap.pc) \subseteq Faults
        /\ UNCHANGED <<backend, envelope, objects, proc, drawn>>
    BY <1>5 DEF RewrapEnds
  <2>2. EnvelopeTypeOK' BY <2>1 DEF EnvelopeTypeOK, NoRewrap
  <2>3. KeyInv'
    <3>. SUFFICES ASSUME KeySafe' PROVE (MakerAlone /\ UsersHold /\ ToolHolds /\ ObjectsHold)'
      BY DEF KeyInv
    <3>1. KeySafe /\ rewrap.pc # "opened" BY <2>1 DEF KeySafe, CutBy
    <3>2. MakerAlone /\ UsersHold /\ ToolHolds /\ ObjectsHold BY <3>1 DEF KeyInv
    <3>3. ASSUME NEW k PROVE HoldsKey(k) => HoldsKey(k)'
      BY <2>1, <3>1 DEF HoldsKey, Envelopes
    <3>4. MakerAlone' /\ ToolHolds' BY <2>1, <3>2 DEF MakerAlone, ToolHolds, NoRewrap
    <3>5. UsersHold' /\ ObjectsHold' BY <2>1, <3>2, <3>3 DEF UsersHold, ObjectsHold
    <3>. QED BY <3>4, <3>5
  <2>. QED BY <2>2, <2>3
<1>. QED BY <1>1, <1>2, <1>3, <1>4, <1>5 DEF RewrapStep

LEMMA EnvelopeInitInv == EnvelopeInit => IInv
<1>. SUFFICES ASSUME EnvelopeInit PROVE IInv
  OBVIOUS
<1>1. EnvelopeTypeOK
  BY OffIsState DEF EnvelopeInit, EnvelopeTypeOK, NoRewrap
<1>2. KeyInv
  BY OffIsState DEF EnvelopeInit, KeyInv, MakerAlone, Makers, UsersHold, ToolHolds, ObjectsHold, NoRewrap, Places
<1>. QED BY <1>1, <1>2 DEF IInv

LEMMA EnvelopeNextKeeps == IInv /\ [EnvelopeNext]_envelopeVars => IInv'
<1>. SUFFICES ASSUME IInv, [EnvelopeNext]_envelopeVars PROVE IInv'
  OBVIOUS
<1>1. ASSUME NEW p \in Procs, Initialize(p) PROVE IInv'
  BY <1>1, FoundKeeps, DrawKeyKeeps, UnlockKeeps, UnlockFailsKeeps, CreateOpensKeeps,
     CreateStoredKeeps, CreatedKeeps, EndsKeeps DEF Initialize
<1>2. ASSUME NEW p \in Procs, StartPlain(p) \/ (\E w \in Passphrases : Start(p, w)) \/ Crash(p)
      PROVE  IInv'
  BY <1>2, StartsKeep, EndsKeeps
<1>3. ASSUME NEW p \in Procs, NEW o \in Objects, NEW v \in Versions \cup {Torn}, Put(p, o, v)
      PROVE  IInv'
  BY <1>3, PutKeeps
<1>4. CASE UNCHANGED envelopeVars
  <2>1. EnvelopeTypeOK' BY <1>4 DEF IInv, EnvelopeTypeOK, envelopeVars, storeVars
  <2>2. ASSUME NEW k PROVE HoldsKey(k) <=> HoldsKey(k)'
    BY <1>4 DEF HoldsKey, Envelopes, envelopeVars, storeVars
  <2>3. KeyInv'
    BY <1>4, <2>2 DEF IInv, KeyInv, KeySafe, MakerAlone, UsersHold, ToolHolds, ObjectsHold,
                      envelopeVars, storeVars
  <2>. QED BY <2>1, <2>3 DEF IInv
<1>. QED BY <1>1, <1>2, <1>3, <1>4, RewrapKeeps DEF EnvelopeNext

LEMMA EnvelopeInvariance == EnvelopeSpec => []IInv
BY EnvelopeInitInv, EnvelopeNextKeeps, PTL DEF EnvelopeSpec

\* What the invariant says of processes and of objects.
LEMMA KeysFromInv == IInv => EnvelopeTypeOK /\ ReadyHasKey /\ StoredOpens
BY EnvelopeAssumption DEF IInv, KeyInv, EnvelopeTypeOK, ReadyHasKey, StoredOpens, UsersHold, ObjectsHold, Places

\* Whoever has opened the store works with the key in the envelope, and every
\* object is sealed with it: initialize() and change-passphrase.ts, with crashes,
\* failed writes that took effect, and the tool beside running servers.
THEOREM KeyIsOne == EnvelopeSpec => [](EnvelopeTypeOK /\ ReadyHasKey /\ StoredOpens)
BY EnvelopeInvariance, KeysFromInv, PTL
=============================================================================
