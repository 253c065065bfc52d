----------------------------- MODULE ImageLoads -----------------------------
(***************************************************************************)
(* The image lists of the browser page (public/script.js): every card of a *)
(* list polls /cached and downloads its image, a few at a time over the    *)
(* whole page; encrypted images wait for the master key, which the page    *)
(* derives from a remembered passphrase or from the one the user enters.   *)
(*                                                                         *)
(* Cards are numbered in the order they are rendered, over all lists. As   *)
(* in every page, the continuation of a settled promise (a card granted a  *)
(* slot) runs before any other event.                                      *)
(***************************************************************************)
EXTENDS Naturals, Sequences, FiniteSets

CONSTANTS
  MaxCards,          \* bound: cards rendered in the life of the page
  Limit,             \* IMAGE_FETCH_CONCURRENCY
  MaxPollRetry,      \* MAX_POLL_RETRY
  MaxStorageRetries, \* MAX_STORAGE_RETRIES
  Encrypted,         \* what /api/encryption/config says
  SavedAtStart,      \* passphrases localStorage may hold: None, "good", "bad"
  Forgets,           \* users press "forget"
  Asks,              \* bound: obtainMasterKey() calls at a time
  None, Known

ASSUME LoadAssumption ==
  /\ {MaxCards, MaxPollRetry, MaxStorageRetries} \subseteq Nat
  /\ Limit \in Nat \ {0}
  /\ {Encrypted, Forgets} \subseteq BOOLEAN
  /\ SavedAtStart \subseteq {None, "good", "bad"}
  /\ None \notin Asks \cup {"good", "bad", "parked"}
  /\ Known \notin Asks \cup {None}

VARIABLES
  made,     \* cards rendered so far
  first,    \* the first card of the current list: older ones are stale
  config,   \* encryptionConfigPromise
  card,     \* where each card stands in setImagePolling(): its retryCount, its
            \* storageFailures, the ask whose promise it awaits when locked
  active,   \* createLimiter's active
  queue,    \* and its queue
  saved,    \* the passphrase in localStorage
  key,      \* masterKeyPromise: none, settled, or that of an ask
  ask,      \* obtainMasterKey() calls: deriving a key from a remembered
            \* passphrase, or parked until the user enters one
  resolver, \* pendingUnlockResolve: the ask it resolves
  form      \* the form is deriving a key from the right passphrase

listVars == <<made, first, config>>
slotVars == <<active, queue>>
keyVars  == <<saved, key, ask, resolver>>
vars == <<listVars, card, slotVars, keyVars, form>>

Cards == 1..MaxCards

\* A card whose setImagePolling() is at pc, with fresh locals.
Fresh(pc) == [pc |-> pc, tries |-> 0, breaks |-> 0, on |-> None]
\* "over": it has returned an object URL, or none, or it has thrown.
CardStates == [pc : {"none", "config", "queued", "granted", "fetching", "sleeping",
                     "locked", "decrypting", "over"},
               tries : 0..MaxPollRetry, breaks : 0..MaxStorageRetries, on : Asks \cup {None}]

\* The type invariant: retries are bounded, exactly the locked cards wait on an ask.
TypeOK ==
  /\ made \in 0..MaxCards /\ first \in 1..(MaxCards + 1)
  /\ config \in {"asked", "known", "failed"}
  /\ card \in [Cards -> CardStates]
  /\ active \in 0..Limit /\ queue \in Seq(Cards)
  /\ saved \in {None, "good", "bad"}
  /\ key \in {None, Known} \cup Asks
  /\ ask \in [Asks -> {None, "good", "bad", "parked"}]
  /\ resolver \in Asks \cup {None}
  /\ form \in BOOLEAN
  /\ \A c \in Cards : card[c].pc = "locked" <=> card[c].on # None

-----------------------------------------------------------------------------
NoContinuation == \A c \in Cards : card[c].pc # "granted"

\* Mutant of Stale: nobody looks whether the list was replaced.
StaleNever(c) == FALSE

Stale(c) == c < first

Moved(c, pc) == [card EXCEPT ![c].pc = pc]
Done(c) == [card EXCEPT ![c] = Fresh("over")]

(***************************************************************************)
(* createLimiter(): the cards s ask for a slot, one after the other; a     *)
(* card gives its slot back. cs: the cards as the handler has left them.   *)
(***************************************************************************)
Acquire(s, cs) ==
  LET room == IF Len(s) <= Limit - active THEN Len(s) ELSE Limit - active
      served == {s[i] : i \in 1..room}
      left == {s[i] : i \in (room + 1)..Len(s)}
  IN  /\ active' = active + room
      /\ queue' = queue \o SubSeq(s, room + 1, Len(s))
      /\ card' = [c \in Cards |-> IF c \in served THEN [cs[c] EXCEPT !.pc = "granted"]
                                  ELSE IF c \in left THEN [cs[c] EXCEPT !.pc = "queued"]
                                  ELSE cs[c]]

\* Mutants of Release: the last in line is served; the slot is handed over and
\* counted as free; nobody in line is woken.
ReleaseLast(cs) ==
  IF queue = <<>>
    THEN active' = active - 1 /\ card' = cs /\ UNCHANGED queue
    ELSE /\ queue' = SubSeq(queue, 1, Len(queue) - 1)
         /\ card' = [cs EXCEPT ![queue[Len(queue)]].pc = "granted"]
         /\ UNCHANGED active

ReleaseTwice(cs) ==
  /\ active' = active - 1
  /\ IF queue = <<>>
       THEN card' = cs /\ UNCHANGED queue
       ELSE queue' = Tail(queue) /\ card' = [cs EXCEPT ![Head(queue)].pc = "granted"]

ReleaseUnheard(cs) == active' = active - 1 /\ card' = cs /\ UNCHANGED queue

Release(cs) ==
  IF queue = <<>>
    THEN active' = active - 1 /\ card' = cs /\ UNCHANGED queue
    ELSE /\ queue' = Tail(queue)
         /\ card' = [cs EXCEPT ![Head(queue)].pc = "granted"]
         /\ UNCHANGED active

(***************************************************************************)
(* Lists and their cards.                                                  *)
(***************************************************************************)
Numbers(lo, hi) == [i \in 1..(hi - lo + 1) |-> lo + i - 1]

\* clearList() and a new list of n images (none for the download view).
Render(n) ==
  /\ NoContinuation
  /\ made + n <= MaxCards
  /\ made' = made + n
  /\ first' = made + 1
  /\ LET Become(pc) == [c \in Cards |-> IF c \in (made + 1)..(made + n) THEN Fresh(pc) ELSE card[c]]
     IN  \/ config = "asked"  /\ card' = Become("config") /\ UNCHANGED slotVars
         \/ config = "known"  /\ Acquire(Numbers(made + 1, made + n), card)
         \/ config = "failed" /\ card' = Become("over") /\ UNCHANGED slotVars
  /\ UNCHANGED <<config, keyVars, form>>

\* The configuration arrives: every card so far, stale or not, asks for a slot.
ConfigArrives ==
  /\ config = "asked"
  /\ config' = "known"
  /\ Acquire(Numbers(1, made), card)
  /\ UNCHANGED <<made, first, keyVars, form>>

\* It does not: the rejected promise is kept, no card will ever load.
ConfigFails ==
  /\ config = "asked"
  /\ config' = "failed"
  /\ card' = [c \in Cards |-> IF c <= made THEN Fresh("over") ELSE card[c]]
  /\ UNCHANGED <<made, first, slotVars, keyVars, form>>

Resume(c) ==
  /\ card[c].pc = "granted"
  /\ IF Stale(c)
       THEN Release(Done(c))
       ELSE card' = Moved(c, "fetching") /\ UNCHANGED slotVars
  /\ UNCHANGED <<listVars, keyVars, form>>

(***************************************************************************)
(* The ends of fetchImageAttempt(): each gives the slot back.              *)
(***************************************************************************)
Answered(c, cs) ==
  /\ NoContinuation
  /\ card[c].pc = "fetching"
  /\ Release(cs)
  /\ UNCHANGED <<listVars, form>>

\* 503, or no answer of the server.
StillPending(c) == Answered(c, Moved(c, "sleeping")) /\ UNCHANGED keyVars

StorageBreaks(c) ==
  /\ Answered(c, IF card[c].breaks < MaxStorageRetries
                   THEN [card EXCEPT ![c] = [@ EXCEPT !.pc = "sleeping", !.breaks = card[c].breaks + 1]]
                   ELSE Done(c))
  /\ UNCHANGED keyVars

\* The image is there, in the clear; an error answer; a malformed descriptor or
\* container.
Ends(c) == Answered(c, Done(c)) /\ UNCHANGED keyVars

\* The bytes are there and the key is: they are decrypted.
ArrivesOpen(c) ==
  /\ Encrypted /\ key = Known
  /\ Answered(c, Moved(c, "decrypting"))
  /\ UNCHANGED keyVars

\* Without the key the card awaits the promise of the ask that is to bring it,
\* which it starts if there is none.
ArrivesLocked(c) ==
  /\ Encrypted /\ key # Known
  /\ \E a \in Asks :
       /\ \/ key = a /\ UNCHANGED keyVars
          \/ /\ key = None /\ ask[a] = None
             /\ key' = a
             /\ ask' = [ask EXCEPT ![a] = IF saved = None THEN "parked" ELSE saved]
             /\ resolver' = IF saved = None THEN a ELSE resolver
             /\ UNCHANGED saved
       /\ Answered(c, [card EXCEPT ![c] = [@ EXCEPT !.pc = "locked", !.on = a]])

\* Mutant of Left: one poll too many.
LeftOnceMore(c) == card[c].tries <= MaxPollRetry

Left(c) == card[c].tries < MaxPollRetry

SleepEnds(c) ==
  /\ NoContinuation
  /\ card[c].pc = "sleeping"
  /\ IF ~Stale(c) /\ Left(c)
       THEN Acquire(<<c>>, [card EXCEPT ![c].tries = @ + 1])
       ELSE card' = Done(c) /\ UNCHANGED slotVars
  /\ UNCHANGED <<listVars, keyVars, form>>

Decrypted(c) ==
  /\ NoContinuation
  /\ card[c].pc = "decrypting"
  /\ card' = Done(c)
  /\ UNCHANGED <<listVars, slotVars, keyVars, form>>

(***************************************************************************)
(* The key.                                                                *)
(***************************************************************************)
Locked(a) == {c \in Cards : card[c].pc = "locked" /\ card[c].on = a}

Open(cs) == [c \in Cards |-> IF c \in cs THEN [card[c] EXCEPT !.pc = "decrypting", !.on = None] ELSE card[c]]

\* Mutant of Opened: the promise of an ask resumes one card.
OpenedOne(a) == Open(IF Locked(a) = {} THEN {} ELSE {CHOOSE c \in Locked(a) : TRUE})

\* The promise of an ask is settled: whoever awaits it decrypts.
Opened(a) == Open(Locked(a))

\* The key derived from the remembered passphrase opens the envelope.
AskSucceeds(a) ==
  /\ NoContinuation
  /\ ask[a] = "good"
  /\ ask' = [ask EXCEPT ![a] = None]
  /\ key' = IF key = a THEN Known ELSE key
  /\ card' = Opened(a)
  /\ UNCHANGED <<listVars, slotVars, saved, resolver, form>>

\* It does not: the passphrase is forgotten, the user has to enter one.
AskFails(a) ==
  /\ NoContinuation
  /\ ask[a] = "bad"
  /\ saved' = None
  /\ ask' = [ask EXCEPT ![a] = "parked"]
  /\ resolver' = a
  /\ UNCHANGED <<listVars, card, slotVars, key, form>>

\* A wrong passphrase is refused and changes nothing.
Submit ==
  /\ NoContinuation
  /\ Encrypted /\ config = "known"
  /\ ~form
  /\ form' = TRUE
  /\ UNCHANGED <<listVars, card, slotVars, keyVars>>

\* The passphrase opens the envelope: remembered where the browser allows it,
\* and handed to the ask the panel knows of.
Unlock ==
  /\ NoContinuation
  /\ form
  /\ form' = FALSE
  /\ saved' \in {"good", saved}
  /\ key' = Known
  /\ resolver' = None
  /\ ask' = [a \in Asks |-> IF a = resolver THEN None ELSE ask[a]]
  /\ card' = Opened(resolver)
  /\ UNCHANGED <<listVars, slotVars>>

Forget ==
  /\ Forgets
  /\ NoContinuation
  /\ Encrypted /\ config = "known"
  /\ saved' = None
  /\ key' = None
  /\ UNCHANGED <<listVars, card, slotVars, ask, resolver, form>>

-----------------------------------------------------------------------------
Init ==
  /\ made = 0 /\ first = 1
  /\ config = "asked"
  /\ card = [c \in Cards |-> Fresh("none")]
  /\ active = 0 /\ queue = <<>>
  /\ saved \in SavedAtStart
  /\ key = None
  /\ ask = [a \in Asks |-> None]
  /\ resolver = None
  /\ form = FALSE

Configured == ConfigArrives \/ ConfigFails

CardStep(c) ==
  \/ Resume(c)
  \/ StillPending(c) \/ StorageBreaks(c) \/ Ends(c)
  \/ ArrivesOpen(c) \/ ArrivesLocked(c)
  \/ SleepEnds(c) \/ Decrypted(c)

AskStep(a) == AskSucceeds(a) \/ AskFails(a)

UserStep ==
  \/ \E n \in 0..MaxCards : Render(n)
  \/ Submit
  \/ Forget

Next ==
  \/ UserStep \/ Configured \/ Unlock
  \/ \E c \in Cards : CardStep(c)
  \/ \E a \in Asks : AskStep(a)

Spec == Init /\ [][Next]_vars

(***************************************************************************)
(* Fairness: requests are answered or fail, timers fire and continuations  *)
(* run, so that the page does not rest while a card can go on. This is all *)
(* it takes: what a card does is bounded. What users do need never happen. *)
(***************************************************************************)
LiveSpec ==
  /\ Spec
  /\ WF_vars(Configured)
  /\ WF_vars(\E c \in Cards : CardStep(c))

-----------------------------------------------------------------------------
(***************************************************************************)
(* Properties.                                                             *)
(***************************************************************************)
Holding == {c \in Cards : card[c].pc \in {"granted", "fetching"}}

Slots == INSTANCE SlotLine WITH Users <- Cards, holders <- Holding, line <- queue

\* The limiter's counter and queue of promises implement slots with a line, over
\* every way a load ends, retries, and lists that are replaced.
SlotsImplemented == Slots!Spec

\* A list is downloaded front to back: no card gets a first slot before a card
\* in front of it has had one, whatever is retried meanwhile.
HadSlot(c) == card[c].tries > 0 \/ card[c].pc \notin {"none", "queued"}

FrontToBack ==
  config = "known" => \A c, e \in first..made : c < e /\ HadSlot(e) => HadSlot(c)

\* A card of a list that was replaced starts no further request.
StaleStartNothing ==
  [][\A c \in Cards : card[c].pc # "fetching" /\ card'[c].pc = "fetching" => c >= first']_vars

\* A locked card waits for an ask that is still to be settled: deriving, or parked
\* for the user. No settled promise leaves somebody behind.
LockedIsAsked == \A c \in Cards : card[c].pc = "locked" => ask[card[c].on] # None

\* Every card comes to an end, or waits for the user's passphrase: slots are
\* given back on every path and polling is bounded.
CardsEnd == \A c \in Cards : card[c].pc # "none" ~> card[c].pc \in {"over", "locked"}

\* "Unlocked.": once the page has accepted the passphrase nobody goes on waiting
\* for the user to enter one.
UnlockOpensAll ==
  [][form /\ ~form' =>
       \A c \in Cards : card'[c].pc = "locked" => ask'[card'[c].on] # "parked"]_vars
=============================================================================
