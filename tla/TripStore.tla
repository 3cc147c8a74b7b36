------------------------------ MODULE TripStore ------------------------------
(***************************************************************************)
(* The one active trip of the browser, in IndexedDB                        *)
(* (apps/web/lib/trip-snapshot-repository.ts), as the Handlemodus pages of *)
(* several tabs use it (apps/web/app/planlegg/handle/page.tsx).            *)
(*                                                                         *)
(* IndexedDB runs the readwrite transactions of a store one after the      *)
(* other, so each method that is one transaction is one step; one that     *)
(* fails changes nothing.  Two methods are not one transaction: finish()   *)
(* reads in one and deletes in another, and a method that meets a corrupt  *)
(* record deletes the key in a second one.  A page runs one method at a    *)
(* time and keeps what the last one returned, which other tabs may have    *)
(* made stale.                                                             *)
(***************************************************************************)
EXTENDS Naturals, FiniteSets

CONSTANTS
  Tab,       \* browser tabs
  Trip,      \* snapshots, by id; an id is started once
  NoTrip,    \* no record under the active key
  Item,      \* checklist items; every trip has all of them
  Corrupting \* whether a record may become unreadable

ASSUME TripAssumption ==
  /\ NoTrip \notin Trip /\ Item # {} /\ Corrupting \in BOOLEAN

VARIABLES
  stored,  \* the record under ACTIVE_KEY
  view,    \* what the page of each tab shows
  tab,     \* what each tab is in the middle of
  used,    \* history: the trips started so far
  ticks,   \* history: the items of each trip whose last change was a tick
  early    \* history: the trips finished with an item left

tripVars == <<stored, view, tab, used, ticks, early>>

(* A record of an older format is migrated when it is read.                *)
Formats == {"current", "legacy", "corrupt"}
Active == [trip : Trip, done : SUBSET Item]
NoActive == [trip |-> NoTrip, done |-> {}]
Record == [active : Active, format : Formats]
Empty == [active |-> NoActive, format |-> "current"]
Activities == {"idle", "finishing", "removing"}

TripTypeOK ==
  /\ stored \in Record \cup {Empty}
  /\ view \in [Tab -> Active \cup {NoActive}]
  /\ tab \in [Tab -> Activities]
  /\ used \subseteq Trip
  /\ ticks \in [Trip -> SUBSET Item]
  /\ early \subseteq used

(* A first visit, or a visit after an upgrade of the app.                  *)
TripInit ==
  /\ \/ stored = Empty
     \/ stored \in [active : Active, format : {"legacy"}]
  /\ view = [b \in Tab |-> NoActive]
  /\ tab = [b \in Tab |-> "idle"]
  /\ used = Trip \cap {stored.active.trip}
  /\ ticks = [t \in Trip |-> IF stored.active.trip = t THEN stored.active.done ELSE {}]
  /\ early = {}

-----------------------------------------------------------------------------
(* A ...Mutant is a deliberate error in the definition after it.           *)
Present == stored # Empty
Readable == stored.format # "corrupt"   \* no record counts as readable

AnyRecordMutant(t) == Present /\ Readable
Holds(t) == Present /\ Readable /\ stored.active.trip = t

Migrated == [stored EXCEPT !.format = "current"]
Show(b, a) == view' = [view EXCEPT ![b] = a]
Become(b, activity) == tab' = [tab EXCEPT ![b] = activity]

(* parseStored throws CORRUPT: the method goes on to removeCorruptRecord.  *)
MeetCorrupt(b) ==
  /\ tab[b] = "idle" /\ ~Readable
  /\ Become(b, "removing")
  /\ UNCHANGED <<stored, view, used, ticks, early>>

(* It deletes whatever is there by now, or gives up.                       *)
RemoveCorrupt(b) ==
  /\ tab[b] = "removing"
  /\ stored' \in {Empty, stored}
  /\ Become(b, "idle")
  /\ UNCHANGED <<view, used, ticks, early>>

(* getActive() writes a migrated record back; the page shows the result.   *)
GetActive(b) ==
  /\ tab[b] = "idle" /\ Readable
  /\ stored' = Migrated
  /\ Show(b, stored.active)
  /\ UNCHANGED <<tab, used, ticks, early>>

NoneActive == ~Present

(* The start button, with a new id.                                        *)
StartTrip(b, t) ==
  /\ tab[b] = "idle" /\ NoneActive
  /\ t \notin used
  /\ stored' = [active |-> [trip |-> t, done |-> {}], format |-> "current"]
  /\ used' = used \cup {t}
  /\ UNCHANGED <<view, tab, ticks, early>>

Toggled(S, i, completed) == IF completed THEN S \cup {i} ELSE S \ {i}

(* What setCompleted() puts: the stored record with the one item changed.  *)
PageCopyMutant(b, i, completed) ==
  [view[b] EXCEPT !.done = Toggled(@, i, completed)]
Updated(b, i, completed) ==
  [stored.active EXCEPT !.done = Toggled(@, i, completed)]

(* The page asks for the opposite of what it shows.                        *)
SetCompleted(b, i) ==
  LET t == view[b].trip
      completed == i \notin view[b].done IN
  /\ tab[b] = "idle" /\ t # NoTrip
  /\ Holds(t)
  /\ stored' = [active |-> Updated(b, i, completed), format |-> "current"]
  /\ Show(b, stored'.active)
  /\ ticks' = [ticks EXCEPT ![t] = Toggled(@, i, completed)]
  /\ UNCHANGED <<tab, used, early>>

(* finish(): getActive() finds the trip with every item checked off ...    *)
BeginFinish(b) ==
  /\ tab[b] = "idle" /\ view[b].trip # NoTrip
  /\ Holds(view[b].trip) /\ stored.active.done = Item
  /\ stored' = Migrated
  /\ Become(b, "finishing")
  /\ UNCHANGED <<view, used, ticks, early>>

(* ... or does not, and the method changes nothing but the format.         *)
RefuseFinish(b) ==
  /\ tab[b] = "idle" /\ view[b].trip # NoTrip /\ Readable
  /\ ~(Holds(view[b].trip) /\ stored.active.done = Item)
  /\ stored' = Migrated
  /\ UNCHANGED <<view, tab, used, ticks, early>>

(* delete() removes the record if it still is that trip, and finish() does *)
(* not look at its answer.                                                 *)
Delete(b) ==
  stored' = IF Holds(view[b].trip) THEN Empty ELSE stored

EndFinish(b) ==
  /\ tab[b] = "finishing" /\ Readable
  /\ Delete(b)
  /\ early' = IF stored' # stored /\ stored.active.done # Item
              THEN early \cup {stored.active.trip} ELSE early
  /\ Show(b, NoActive)
  /\ Become(b, "idle")
  /\ UNCHANGED <<used, ticks>>

CorruptFinish(b) ==
  /\ tab[b] = "finishing" /\ ~Readable
  /\ Become(b, "removing")
  /\ UNCHANGED <<stored, view, used, ticks, early>>

(* The remove button.                                                      *)
Remove(b) ==
  /\ tab[b] = "idle" /\ view[b].trip # NoTrip /\ Readable
  /\ Delete(b)
  /\ Show(b, NoActive)
  /\ UNCHANGED <<tab, used, ticks, early>>

(* clear(), which no page calls yet.                                       *)
Clear(b) ==
  /\ tab[b] = "idle"
  /\ stored' = Empty
  /\ UNCHANGED <<view, tab, used, ticks, early>>

(* The tab is closed or reloaded, or its method fails (UNAVAILABLE).       *)
Close(b) ==
  /\ Show(b, NoActive)
  /\ Become(b, "idle")
  /\ UNCHANGED <<stored, used, ticks, early>>

Corrupt ==
  /\ Corrupting /\ Present
  /\ stored' = [stored EXCEPT !.format = "corrupt"]
  /\ UNCHANGED <<view, tab, used, ticks, early>>

TripNext ==
  \/ \E b \in Tab :
       \/ MeetCorrupt(b) \/ RemoveCorrupt(b) \/ GetActive(b)
       \/ BeginFinish(b) \/ RefuseFinish(b) \/ EndFinish(b) \/ CorruptFinish(b)
       \/ Remove(b) \/ Clear(b) \/ Close(b)
       \/ \E t \in Trip : StartTrip(b, t)
       \/ \E i \in Item : SetCompleted(b, i)
  \/ Corrupt

TripSpec == TripInit /\ [][TripNext]_tripVars

-----------------------------------------------------------------------------
(* Two tabs that tick items do not undo each other: a readable record has  *)
(* exactly the items whose last change, in whatever tab, was a tick, and   *)
(* the migration of an old record keeps them.                              *)
NoTickIsLost ==
  Present /\ Readable => stored.active.done = ticks[stored.active.trip]

(* A trip that was finished, removed or cleared does not come back, and is *)
(* not replaced by another while it is active, whatever stale page acts.   *)
(* A finish() whose trip was removed in the meantime spares the trip that  *)
(* was started in its place (delete, trip-snapshot-repository.ts:308).     *)
TripsDoNotReturn ==
  [][/\ \A t \in used : stored'.active.trip = t => stored.active.trip = t
     /\ Present => stored'.active.trip \in {stored.active.trip, NoTrip}
     /\ \A b \in Tab :
          tab[b] = "finishing" /\ tab'[b] = "idle" /\ stored' # stored
          => stored.active.trip = view[b].trip]_tripVars

(* "Handleturen kan ikke fullføres før alle varer er krysset av"           *)
(* (trip-snapshot-repository.ts:74): no trip is finished with items left.  *)
FinishedTripsAreComplete == early = {}

=============================================================================
