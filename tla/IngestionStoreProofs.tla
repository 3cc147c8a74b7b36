------------------------ MODULE IngestionStoreProofs ------------------------
(* Theorems about IngestionStore, for any sessions, sources, runs and      *)
(* GTINs and every setting.                                                *)
(*                                                                         *)
(* The invariant says of every transaction what its phase implies about    *)
(* the run, the source and the products it has read (TxInv), that two of   *)
(* them hold no lock in common (LocksInv), and that of the runs of a       *)
(* source under the current lease generation the one with a job is the     *)
(* newest (JobsInv).  Every promise follows: what is read under a lock is  *)
(* still so at the commit, because whoever could change it holds the lock. *)
EXTENDS IngestionStore, FiniteSetTheorems, WellFoundedInduction, TLAPS

-----------------------------------------------------------------------------
(* What a transaction p locks, resolves and may change, and the locks it   *)
(* holds.                                                                  *)
SubjectsOf(p) == IF IsCatalog(p.run) THEN AcceptedIn(p.run, p.batch) ELSE p.batch
RunHeld(p) == p.phase \notin {"idle", "run"}
SourceHeld(p) ==
  p.phase \in {"gtin", "read", "commit"} /\ p.target = "running" /\ Governed(p.run, p.batch)
GtinsHeld(p) ==
  {g \in Gtin : p.phase \in {"gtin", "read", "commit"} /\ p.approved
                /\ g \in SubjectsOf(p) \ p.toLock}

(* A transaction and what it has read of its run and its source.           *)
TxInv(p) ==
  /\ p.phase # "idle" =>
       /\ p.run \in Run
       /\ p.target = "running" => p.batch # {}
  /\ p.phase \notin {"idle", "commit"} => run[p.run].job
  /\ RunHeld(p) => run[p.run].status = "running"
  /\ p.phase = "run" => run[p.run].status # "absent"
  /\ p.approved => p.phase \in {"gtin", "read", "commit"} /\ SourceHeld(p)
                   /\ governance[SourceOf[p.run]] # "revoked"
  /\ p.phase = "source" => p.target = "running" /\ Governed(p.run, p.batch)
  /\ p.phase = "gtin" => p.approved /\ p.toLock # {}
  /\ p.phase # "gtin" => p.toLock = {}
  /\ p.phase = "count" => p.target # "running"
  /\ p.phase = "read" => p.target = "running"
  /\ \A g \in p.toLock : g \in SubjectsOf(p)
  /\ \A g \in GtinsHeld(p), h \in p.toLock : g < h
  /\ p.phase = "commit" /\ p.approved => \A g \in SubjectsOf(p) : p.seen[g] = canonical[g]
  /\ p.phase = "commit" /\ p.target # "running" => p.tally = Reconstruct(p.run)
  /\ p.phase = "commit" /\ p.approved /\ Fenced(p.run) =>
       \A g \in Gtin : written[SourceOf[p.run]][g] <= run[p.run].version

(* Two sessions hold no lock in common.                                    *)
Apart(p, q) ==
  /\ RunHeld(p) /\ RunHeld(q) => p.run # q.run
  /\ SourceHeld(p) /\ SourceHeld(q) => SourceOf[p.run] # SourceOf[q.run]
  /\ GtinsHeld(p) \cap GtinsHeld(q) = {}

TxsInv == \A s \in Session : TxInv(session[s])
LocksInv == \A s, t \in Session : s # t => Apart(session[s], session[t])

RunsInv ==
  \A r \in Run :
    /\ run[r].job => run[r].status # "absent"
    /\ run[r].fence <= gen[SourceOf[r]]
    /\ run[r].version <= upstream[SourceOf[r]]
    /\ run[r].status \in Terminal => run[r].counts = Reconstruct(r)

(* The run whose job works under the current generation is the newest.     *)
JobsInv ==
  \A q \in Run : run[q].job /\ Fenced(q) =>
    /\ \A r \in Run : SourceOf[r] = SourceOf[q] /\ Fenced(r) => run[r].version <= run[q].version
    /\ \A g \in Gtin : written[SourceOf[q]][g] <= run[q].version

WrittenInv == \A c \in Source, g \in Gtin : written[c][g] <= upstream[c]

(* The inductive invariant. *)
IngestionInv == TypeOK /\ TxsInv /\ LocksInv /\ RunsInv /\ JobsInv /\ WrittenInv

-----------------------------------------------------------------------------
(* A setting gives each run its source and its type. *)
LEMMA SettingTypes ==
  ASSUME TypeOK
  PROVE  /\ SourceOf \in [Run -> Source]
         /\ TypeOf \in [Run -> {"catalog", "prices"}]
         /\ setting.gtins \subseteq Gtin
         /\ setting.versions \in Nat /\ setting.gens \in Nat
         /\ setting.ends \subseteq Terminal
  BY StoreAssumption DEF TypeOK, SourceOf, TypeOf, Terminal

(* The outcomes of a run can be counted. *)
LEMMA TallyType == \A r \in Run : Reconstruct(r) \in Tally
<1>1. ASSUME NEW r \in Run, NEW x \in States
      PROVE  Cardinality({g \in Gtin : outcome[r][g] = x}) \in Nat
  <2>1. IsFiniteSet(Gtin)
    BY StoreAssumption, FS_Interval DEF Gtin
  <2>2. {g \in Gtin : outcome[r][g] = x} \subseteq Gtin
    OBVIOUS
  <2> QED
    BY <2>1, <2>2, FS_Subset, FS_CardinalityType
<1> QED
  BY <1>1 DEF Reconstruct, Tally

(* A session without a transaction is of the type. *)
LEMMA TransactionTypes ==
  /\ NoTally \in Tally
  /\ Idle \in Transaction
<1>1. NoTally \in Tally
  BY DEF NoTally, Tally
<1>2. [g \in Gtin |-> Absent] \in [Gtin -> Product]
  BY DEF Absent, Product
<1> HIDE DEF NoTally, Tally, Product, Gtin, Absent
<1>3. Idle \in Transaction
  BY <1>1, <1>2 DEF Idle, Transaction
<1> QED
  BY <1>1, <1>3

(* A session without a transaction.                                        *)
LEMMA IdleIsFree ==
  /\ TxInv(Idle)
  /\ \A p : Apart(Idle, p) /\ Apart(p, Idle)
  BY DEF TxInv, Idle, Apart, RunHeld, SourceHeld, GtinsHeld

(* One session goes on to p, and nothing else changes.                     *)
OnlySession == UNCHANGED <<setting, gen, governance, upstream, run, outcome, canonical, written>>

(* A transaction is not disturbed while only sessions move. *)
LEMMA TxStays ==
  ASSUME NEW q, TxInv(q), OnlySession
  PROVE  TxInv(q)'
  BY DEF TxInv, OnlySession, SubjectsOf, RunHeld, SourceHeld, GtinsHeld,
     SourceOf, TypeOf, IsCatalog, AcceptedIn, Governed, Reconstruct, Fenced

(* A step of one session: what its transaction becomes fits the state and the
   locks of the others. *)
LEMMA SessionMoves ==
  ASSUME IngestionInv, NEW s \in Session, NEW p \in Transaction, TxInv(p),
         \A t \in Session \ {s} : Apart(p, session[t]) /\ Apart(session[t], p),
         Step(s, p), OnlySession
  PROVE  IngestionInv'
<1>1. /\ session' \in [Session -> Transaction]
      /\ \A t \in Session : session'[t] = IF t = s THEN p ELSE session[t]
  BY DEF IngestionInv, TypeOK, Step
<1>2. TypeOK'
  BY <1>1 DEF IngestionInv, TypeOK, OnlySession
<1>3. TxsInv'
  <2> SUFFICES ASSUME NEW t \in Session PROVE TxInv(session[t])'
    BY DEF TxsInv
  <2>1. PICK q : q = session'[t]
    OBVIOUS
  <2>2. TxInv(q)
    BY <1>1, <2>1 DEF IngestionInv, TxsInv
  <2>3. TxInv(q)'
    BY <2>2, TxStays
  <2> QED
    BY <2>1, <2>3 DEF TxInv, RunHeld, SourceHeld, GtinsHeld, SubjectsOf
<1>4. LocksInv'
  BY <1>1 DEF IngestionInv, LocksInv, Apart, OnlySession, SubjectsOf, RunHeld, SourceHeld, GtinsHeld,
     SourceOf, TypeOf, IsCatalog, AcceptedIn, Governed
<1>5. RunsInv' /\ JobsInv' /\ WrittenInv'
  BY DEF IngestionInv, RunsInv, JobsInv, WrittenInv, OnlySession, SourceOf, Reconstruct, Fenced
<1> QED
  BY <1>2, <1>3, <1>4, <1>5 DEF IngestionInv

(* A transaction ends without having changed anything. *)
LEMMA SessionCloses ==
  ASSUME IngestionInv, NEW s \in Session, Close(s), OnlySession
  PROVE  IngestionInv'
  BY TransactionTypes, IdleIsFree, SessionMoves DEF Close
(* A session that holds no lock that it did not hold before.               *)
LEMMA HoldsNoMore ==
  ASSUME IngestionInv, NEW s \in Session, NEW p,
         RunHeld(p) => RunHeld(session[s]) /\ p.run = RunOf(s),
         SourceHeld(p) => SourceHeld(session[s]) /\ p.run = RunOf(s),
         GtinsHeld(p) \subseteq GtinsHeld(session[s])
  PROVE  \A t \in Session \ {s} : Apart(p, session[t]) /\ Apart(session[t], p)
<1> SUFFICES ASSUME NEW t \in Session \ {s} PROVE Apart(p, session[t]) /\ Apart(session[t], p)
  OBVIOUS
<1>1. Apart(session[s], session[t]) /\ Apart(session[t], session[s])
  BY DEF IngestionInv, LocksInv
<1> HIDE DEF RunHeld, SourceHeld, GtinsHeld
<1> QED
  BY <1>1 DEF Apart, RunOf

(* persistCatalogOutcomes, persistPriceOutcomes and finalizeRun begin.     *)
LEMMA OpenKeeps ==
  ASSUME IngestionInv, NEW s \in Session, NEW r \in Run, NEW batch \in SUBSET Gtin,
         NEW target \in Terminal \cup {"running"}, target = "running" => batch # {},
         Open(s, r, batch, target), UNCHANGED setting
  PROVE  IngestionInv'
<1> DEFINE p == [Idle EXCEPT !.run = r, !.phase = "run", !.batch = batch, !.target = target]
<1>1. p \in Transaction
  BY TransactionTypes DEF Transaction
<1>2. /\ p.run = r /\ p.phase = "run" /\ p.batch = batch /\ p.target = target
      /\ p.toLock = {} /\ p.approved = FALSE
  BY DEF Idle
<1>3. run[r].job /\ run[r].status # "absent"
  BY DEF Open, IngestionInv, RunsInv
<1>4. Step(s, p) /\ OnlySession
  BY DEF Open, Step, OnlySession
<1> HIDE DEF p
<1>5. TxInv(p)
  BY <1>2, <1>3 DEF TxInv, RunHeld, SourceHeld, GtinsHeld
<1>6. ~RunHeld(p) /\ ~SourceHeld(p) /\ GtinsHeld(p) = {}
  BY <1>2 DEF RunHeld, SourceHeld, GtinsHeld
<1> QED
  BY <1>1, <1>4, <1>5, <1>6, HoldsNoMore, SessionMoves

(* lockRun.                                                                *)
LEMMA LockRunKeeps ==
  ASSUME IngestionInv, NEW s \in Session, LockRun(s), UNCHANGED setting
  PROVE  IngestionInv'
<1> DEFINE p == session[s]
<1>1. p \in Transaction /\ TxInv(p) /\ p.phase = "run" /\ RunLockFree(p.run) /\ OnlySession
  BY DEF LockRun, IngestionInv, TypeOK, TxsInv, OnlySession
<1>2. CASE Close(s)
  BY <1>1, <1>2, SessionCloses
<1>3. CASE run[p.run].status = "running"
  <2>1. PICK phase \in {"source", "read", "count"} :
          /\ Step(s, [p EXCEPT !.phase = phase])
          /\ phase \in {"source", "read"} <=> p.target = "running"
          /\ phase = "source" => Governed(p.run, p.batch)
          /\ phase = "read" => ~Governed(p.run, p.batch)
    BY <1>3 DEF LockRun
  <2> DEFINE q == [p EXCEPT !.phase = phase]
  <2>2. q \in Transaction
    BY <1>1 DEF Transaction
  <2>3. /\ q.phase = phase /\ q.run = p.run /\ q.batch = p.batch /\ q.target = p.target
        /\ q.toLock = {} /\ ~q.approved
    BY <1>1 DEF Transaction, TxInv
  <2>4. Step(s, q)
    BY <2>1
  <2> HIDE DEF q
  <2>5. GtinsHeld(q) = {}
    BY <2>3 DEF GtinsHeld
  <2>6. TxInv(q)
    BY <1>1, <1>3, <2>1, <2>3, <2>5 DEF TxInv, RunHeld, SourceHeld
  <2>7. ~SourceHeld(q)
    BY <2>1, <2>3 DEF SourceHeld
  <2>8. \A t \in Session \ {s} : Apart(q, session[t]) /\ Apart(session[t], q)
    BY <1>1, <2>3, <2>5, <2>7 DEF Apart, RunLockFree, HoldsRun, RunHeld, RunOf
  <2> QED
    BY <1>1, <2>2, <2>4, <2>6, <2>8, SessionMoves
<1> QED
  BY <1>1, <1>2, <1>3 DEF LockRun

(* lockSourceGovernance and sourceAllowsCapabilities.                      *)
LEMMA LockSourceKeeps ==
  ASSUME IngestionInv, NEW s \in Session, LockSource(s), UNCHANGED setting
  PROVE  IngestionInv'
<1> DEFINE p == session[s]
           approved == governance[SourceOfTx(s)] = "approved"
           q == [p EXCEPT !.approved = approved,
                          !.phase = IF approved THEN "gtin" ELSE "read",
                          !.toLock = IF approved THEN Subjects(s) ELSE {}]
<1>1. /\ p \in Transaction /\ TxInv(p) /\ p.phase = "source" /\ OnlySession
      /\ SourceLockFree(SourceOf[p.run]) /\ Step(s, q)
  BY DEF LockSource, IngestionInv, TypeOK, TxsInv, OnlySession, SourceOfTx, RunOf
<1>2. /\ p.run \in Run /\ p.target = "running" /\ p.batch # {} /\ Governed(p.run, p.batch)
      /\ run[p.run].job /\ run[p.run].status = "running"
  BY <1>1 DEF TxInv, RunHeld
<1>3. Subjects(s) = SubjectsOf(p) /\ SubjectsOf(p) # {} /\ SubjectsOf(p) \subseteq Gtin
  BY <1>1, <1>2 DEF Subjects, SubjectsOf, RunOf, Governed, AcceptedIn, Transaction
<1>4. /\ q.phase = IF approved THEN "gtin" ELSE "read"
      /\ q.run = p.run /\ q.batch = p.batch /\ q.target = p.target
      /\ q.approved = approved
      /\ q.toLock = IF approved THEN SubjectsOf(p) ELSE {}
  BY <1>1, <1>3 DEF Transaction
<1>5. q \in Transaction
  BY <1>1, <1>3 DEF Transaction
<1> HIDE DEF q
<1>6. SubjectsOf(q) = SubjectsOf(p) /\ GtinsHeld(q) = {}
  BY <1>4 DEF SubjectsOf, GtinsHeld
<1>7. approved => governance[SourceOf[p.run]] # "revoked"
  BY DEF SourceOfTx, RunOf
<1>8. TxInv(q)
  BY <1>2, <1>3, <1>4, <1>6, <1>7 DEF TxInv, RunHeld, SourceHeld
<1>9. \A t \in Session \ {s} : Apart(q, session[t]) /\ Apart(session[t], q)
  <2> SUFFICES ASSUME NEW t \in Session \ {s}
               PROVE  Apart(q, session[t]) /\ Apart(session[t], q)
    OBVIOUS
  <2>1. Apart(p, session[t])
    BY DEF IngestionInv, LocksInv
  <2>2. ~(SourceHeld(session[t]) /\ SourceOf[session[t].run] = SourceOf[p.run])
    BY <1>1 DEF SourceLockFree, HoldsSource, SourceHeld, SourceOfTx, RunOf
  <2> QED
    BY <1>1, <1>4, <1>6, <2>1, <2>2 DEF Apart, RunHeld
<1> QED
  BY <1>1, <1>5, <1>8, <1>9, SessionMoves

(* lockProductGtins takes the lowest lock that is left.                    *)
LEMMA LockGtinKeeps ==
  ASSUME IngestionInv, NEW s \in Session, LockGtin(s), UNCHANGED setting
  PROVE  IngestionInv'
<1> DEFINE p == session[s]
<1>1. /\ p \in Transaction /\ TxInv(p) /\ p.phase = "gtin" /\ OnlySession
  BY DEF LockGtin, IngestionInv, TypeOK, TxsInv, OnlySession
<1>2. PICK g \in p.toLock :
        /\ \A h \in p.toLock : g <= h
        /\ GtinLockFree(g)
        /\ Step(s, [p EXCEPT !.toLock = p.toLock \ {g},
                             !.phase = IF p.toLock \ {g} = {} THEN "read" ELSE "gtin"])
  BY DEF LockGtin, NextGtin
<1> DEFINE q == [p EXCEPT !.toLock = p.toLock \ {g},
                          !.phase = IF p.toLock \ {g} = {} THEN "read" ELSE "gtin"]
<1>3. /\ q.phase = IF p.toLock \ {g} = {} THEN "read" ELSE "gtin"
      /\ q.run = p.run /\ q.batch = p.batch /\ q.target = p.target
      /\ q.approved = p.approved
      /\ q.toLock = p.toLock \ {g}
  BY <1>1 DEF Transaction
<1>4. q \in Transaction
  BY <1>1 DEF Transaction
<1>5. Step(s, q)
  BY <1>2
<1> HIDE DEF q
<1>6. p.toLock \subseteq Gtin /\ g \in Gtin
  BY <1>1, <1>2 DEF Transaction
<1>7. SubjectsOf(q) = SubjectsOf(p) /\ GtinsHeld(q) = GtinsHeld(p) \cup {g}
  BY <1>1, <1>2, <1>3, <1>6 DEF SubjectsOf, GtinsHeld, TxInv
<1>8. \A f \in GtinsHeld(q), h \in q.toLock : f < h
  <2> SUFFICES ASSUME NEW f \in GtinsHeld(q), NEW h \in q.toLock PROVE f < h
    OBVIOUS
  <2>1. h \in p.toLock /\ g <= h /\ g # h /\ h \in Nat /\ g \in Nat
    BY <1>2, <1>3, <1>6 DEF Gtin
  <2>2. CASE f = g
    BY <2>1, <2>2
  <2>3. CASE f \in GtinsHeld(p)
    BY <1>1, <2>1, <2>3 DEF TxInv
  <2> QED
    BY <1>7, <2>2, <2>3
<1>9. TxInv(q)
  BY <1>1, <1>3, <1>7, <1>8 DEF TxInv, RunHeld, SourceHeld
<1>10. \A t \in Session \ {s} : Apart(q, session[t]) /\ Apart(session[t], q)
  <2> SUFFICES ASSUME NEW t \in Session \ {s}
               PROVE  Apart(q, session[t]) /\ Apart(session[t], q)
    OBVIOUS
  <2>1. Apart(p, session[t]) /\ Apart(session[t], p)
    BY DEF IngestionInv, LocksInv
  <2>2. g \notin GtinsHeld(session[t])
    BY <1>2 DEF GtinLockFree, HoldsGtin, GtinsHeld, Subjects, SubjectsOf, RunOf
  <2>3. (RunHeld(q) => RunHeld(p)) /\ (SourceHeld(q) => SourceHeld(p))
    BY <1>1, <1>3 DEF RunHeld, SourceHeld
  <2> QED
    BY <1>3, <1>7, <2>1, <2>2, <2>3 DEF Apart
<1> QED
  BY <1>1, <1>4, <1>5, <1>9, <1>10, SessionMoves

(* resolveProductByGtin.                                                   *)
LEMMA ResolveKeeps ==
  ASSUME IngestionInv, NEW s \in Session, Resolve(s), UNCHANGED setting
  PROVE  IngestionInv'
<1> DEFINE p == session[s]
           seen == [g \in Gtin |-> IF g \in p.batch THEN canonical[g] ELSE Absent]
           q == [p EXCEPT !.phase = "commit", !.seen = seen]
<1>1. /\ p \in Transaction /\ TxInv(p) /\ p.phase = "read" /\ OnlySession /\ Step(s, q)
  BY DEF Resolve, IngestionInv, TypeOK, TxsInv, OnlySession
<1>2. seen \in [Gtin -> Product]
  <2>1. Absent \in Product
    BY DEF Absent, Product
  <2>2. canonical \in [Gtin -> Product]
    BY DEF IngestionInv, TypeOK
  <2> QED
    BY <2>1, <2>2
<1>3. \A g \in p.batch : seen[g] = canonical[g]
  BY <1>1 DEF Transaction
<1> HIDE DEF seen
<1>4. /\ q.phase = "commit" /\ q.seen = seen
      /\ q.run = p.run /\ q.batch = p.batch /\ q.target = p.target
      /\ q.approved = p.approved /\ q.toLock = p.toLock
  BY <1>1 DEF Transaction
<1>5. q \in Transaction
  BY <1>1, <1>2 DEF Transaction
<1> HIDE DEF q
<1>6. /\ SubjectsOf(q) = SubjectsOf(p) /\ GtinsHeld(q) = GtinsHeld(p)
      /\ SubjectsOf(p) \subseteq p.batch
      /\ SourceHeld(q) = SourceHeld(p) /\ RunHeld(q) /\ RunHeld(p)
  BY <1>1, <1>4 DEF SubjectsOf, GtinsHeld, AcceptedIn, SourceHeld, RunHeld
<1>7. Fenced(q.run) => \A g \in Gtin : written[SourceOf[q.run]][g] <= run[q.run].version
  BY <1>1, <1>4 DEF TxInv, IngestionInv, JobsInv
<1>8. TxInv(q)
  BY <1>1, <1>3, <1>4, <1>6, <1>7 DEF TxInv
<1>9. \A t \in Session \ {s} : Apart(q, session[t]) /\ Apart(session[t], q)
  BY <1>4, <1>6, HoldsNoMore DEF RunOf
<1> QED
  BY <1>1, <1>5, <1>8, <1>9, SessionMoves

(* finalizeRun counts.                                                     *)
LEMMA CountKeeps ==
  ASSUME IngestionInv, NEW s \in Session, Count(s), UNCHANGED setting
  PROVE  IngestionInv'
<1> DEFINE p == session[s]
           tally == Reconstruct(p.run)
           q == [p EXCEPT !.phase = "commit", !.tally = tally]
<1>1. /\ p \in Transaction /\ TxInv(p) /\ p.phase = "count" /\ OnlySession /\ Step(s, q)
  BY DEF Count, IngestionInv, TypeOK, TxsInv, OnlySession, RunOf
<1>2. tally \in Tally
  BY <1>1, TallyType DEF TxInv
<1> HIDE DEF tally
<1>3. /\ q.phase = "commit" /\ q.tally = tally
      /\ q.run = p.run /\ q.batch = p.batch /\ q.target = p.target
      /\ q.approved = p.approved /\ q.toLock = p.toLock
  BY <1>1 DEF Transaction
<1>4. q \in Transaction
  BY <1>1, <1>2 DEF Transaction
<1> HIDE DEF q
<1>5. /\ GtinsHeld(q) = {} /\ ~SourceHeld(q) /\ RunHeld(q) /\ RunHeld(p)
      /\ ~q.approved /\ q.target # "running" /\ q.toLock = {}
  BY <1>1, <1>3 DEF TxInv, GtinsHeld, SourceHeld, RunHeld
<1>6. TxInv(q)
  BY <1>1, <1>3, <1>5 DEF TxInv, tally
<1>7. \A t \in Session \ {s} : Apart(q, session[t]) /\ Apart(session[t], q)
  BY <1>3, <1>5, HoldsNoMore DEF RunOf
<1> QED
  BY <1>1, <1>4, <1>6, <1>7, SessionMoves
(* What a batch may change.                                                *)
LEMMA BatchChanges ==
  ASSUME IngestionInv, NEW s \in Session, session[s].phase = "commit",
         NEW g \in Gtin
  PROVE  /\ NewProduct(s, g) # canonical[g] =>
              session[s].approved /\ g \in SubjectsOf(session[s])
         /\ Writes(s, g) => session[s].approved
         /\ NewProduct(s, g) \in Product
         /\ Outcome(s, g) \in States
         /\ Outcome(s, g) = "accepted" => session[s].approved
<1>1. canonical[g] \in Product /\ run[RunOf(s)].version \in Nat
  BY DEF IngestionInv, TypeOK, TxsInv, TxInv, RunRow, RunOf
<1>2. Subjects(s) = SubjectsOf(session[s])
  BY DEF Subjects, SubjectsOf, RunOf
<1>3. session[s].approved \in BOOLEAN
  BY DEF IngestionInv, TypeOK, Transaction
<1>4. Writes(s, g) => session[s].approved /\ g \in SubjectsOf(session[s])
  BY <1>2 DEF Writes
<1> HIDE DEF Writes
<1>5. NewProduct(s, g) # canonical[g] => session[s].approved /\ g \in SubjectsOf(session[s])
  BY <1>2, <1>4 DEF NewProduct
<1>6. NewProduct(s, g) \in Product
  <2>1. [status |-> "active", fields |-> run[RunOf(s)].version] \in Product
    BY <1>1 DEF Product
  <2>2. [status |-> "quarantined", fields |-> 0] \in Product
    BY DEF Product
  <2> QED
    BY <1>1, <2>1, <2>2 DEF NewProduct
<1>7. Outcome(s, g) \in States
  BY DEF Outcome, States
<1>8. Outcome(s, g) = "accepted" => session[s].approved
  BY <1>3 DEF Outcome
<1> QED
  BY <1>4, <1>5, <1>6, <1>7, <1>8

(* persistCatalogOutcomes and persistPriceOutcomes commit. *)
LEMMA CommitBatchKeeps ==
  ASSUME IngestionInv, NEW s \in Session, CommitBatch(s), UNCHANGED setting
  PROVE  IngestionInv'
<1> DEFINE p == session[s]
           c == SourceOf[p.run]
<1>1. /\ p \in Transaction /\ TxInv(p) /\ p.phase = "commit" /\ p.target = "running"
      /\ Fenced(p.run) /\ Close(s)
      /\ UNCHANGED <<setting, gen, governance, upstream, run>>
  BY DEF CommitBatch, IngestionInv, TypeOK, TxsInv
<1>2. p.run \in Run /\ run[p.run].status = "running" /\ p.toLock = {} /\ c \in Source
  BY <1>1, SettingTypes DEF TxInv, RunHeld, IngestionInv
<1>3. /\ session' \in [Session -> Transaction]
      /\ \A t \in Session : session'[t] = IF t = s THEN Idle ELSE session[t]
  BY <1>1, TransactionTypes DEF IngestionInv, TypeOK, Step, Close
<1>4. /\ outcome' \in [Run -> [Gtin -> States \cup {"none"}]]
      /\ \A r \in Run \ {p.run} : outcome'[r] = outcome[r]
  <2>1. [g \in Gtin |-> IF g \in p.batch THEN Outcome(s, g) ELSE outcome[p.run][g]]
          \in [Gtin -> States \cup {"none"}]
    BY <1>1, <1>2, BatchChanges DEF IngestionInv, TypeOK
  <2> QED
    BY <2>1, <1>2 DEF CommitBatch, IngestionInv, TypeOK
<1>5. /\ canonical' \in [Gtin -> Product]
      /\ \A g \in Gtin : canonical'[g] # canonical[g] => p.approved /\ g \in SubjectsOf(p)
  BY <1>1, BatchChanges DEF CommitBatch
<1>6. /\ written' \in [Source -> [Gtin -> Nat]]
      /\ \A d \in Source, g \in Gtin :
           \/ written'[d][g] = written[d][g]
           \/ d = c /\ p.approved /\ written'[d][g] = run[p.run].version
  <2> DEFINE w == [g \in Gtin |-> IF Writes(s, g) THEN run[p.run].version ELSE written[c][g]]
  <2>1. written' = [written EXCEPT ![c] = w]
    BY DEF CommitBatch
  <2>2. run[p.run].version \in Nat /\ written \in [Source -> [Gtin -> Nat]]
    BY <1>2 DEF IngestionInv, TypeOK, RunRow
  <2>3. w \in [Gtin -> Nat]
    BY <1>2, <2>2
  <2>4. \A g \in Gtin : w[g] = written[c][g] \/ (p.approved /\ w[g] = run[p.run].version)
    <3>1. \A g \in Gtin : Writes(s, g) => p.approved
      BY <1>1, BatchChanges
    <3> QED
      BY <3>1
  <2> HIDE DEF w
  <2> QED
    BY <1>2, <2>1, <2>2, <2>3, <2>4
<1>7. TypeOK'
  BY <1>1, <1>3, <1>4, <1>5, <1>6 DEF IngestionInv, TypeOK
<1>8. TxsInv'
  <2> SUFFICES ASSUME NEW t \in Session PROVE TxInv(session[t])'
    BY DEF TxsInv
  <2>1. CASE t = s
    BY <1>3, <2>1 DEF TxInv, Idle, RunHeld, SourceHeld, GtinsHeld
  <2>2. CASE t # s
    <3>1. PICK q : q = session[t]
      OBVIOUS
    <3>2. /\ TxInv(q) /\ Apart(p, q) /\ q \in Transaction
          /\ session'[t] = q
      BY <1>3, <2>2, <3>1 DEF IngestionInv, TxsInv, LocksInv, TypeOK
    <3>3. q.phase = "commit" => q.run # p.run /\ q.run \in Run
      BY <1>1, <3>2 DEF Apart, RunHeld, TxInv
    <3>4. q.phase = "commit" => outcome'[q.run] = outcome[q.run]
      BY <1>4, <3>3
    <3>5. q.phase = "commit" /\ q.approved =>
            \A g \in SubjectsOf(q) : canonical'[g] = canonical[g]
      <4> SUFFICES ASSUME q.phase = "commit", q.approved, NEW g \in SubjectsOf(q),
                          canonical'[g] # canonical[g]
                   PROVE  FALSE
        OBVIOUS
      <4>1. g \in Gtin
        BY <3>2 DEF SubjectsOf, AcceptedIn, Transaction
      <4>2. g \in GtinsHeld(p)
        BY <1>1, <1>2, <1>5, <4>1 DEF GtinsHeld
      <4>3. g \in GtinsHeld(q)
        BY <3>2, <4>1 DEF GtinsHeld, TxInv
      <4> QED
        BY <3>2, <4>2, <4>3 DEF Apart
    <3>6. q.phase = "commit" /\ q.approved =>
            \A g \in Gtin : written'[SourceOf[q.run]][g] = written[SourceOf[q.run]][g]
      <4> SUFFICES ASSUME q.phase = "commit", q.approved, NEW g \in Gtin,
                          written'[SourceOf[q.run]][g] # written[SourceOf[q.run]][g]
                   PROVE  FALSE
        OBVIOUS
      <4>1. SourceOf[q.run] \in Source
        BY <3>3, SettingTypes DEF IngestionInv
      <4>2. SourceOf[q.run] = c /\ p.approved
        BY <1>6, <4>1
      <4>3. SourceHeld(p) /\ SourceHeld(q)
        BY <1>1, <3>2, <4>2 DEF TxInv
      <4> QED
        BY <3>2, <4>2, <4>3 DEF Apart
    <3>7. TxInv(q)'
      <4>1. /\ SubjectsOf(q)' = SubjectsOf(q) /\ GtinsHeld(q)' = GtinsHeld(q)
            /\ SourceHeld(q)' = SourceHeld(q) /\ RunHeld(q)' = RunHeld(q)
            /\ Governed(q.run, q.batch)' = Governed(q.run, q.batch)
            /\ Fenced(q.run)' = Fenced(q.run) /\ SourceOf' = SourceOf
        BY <1>1 DEF RunHeld, SourceHeld, GtinsHeld, SubjectsOf, IsCatalog, AcceptedIn, Governed,
           Fenced, SourceOf, TypeOf
      <4>2. q.phase = "commit" => Reconstruct(q.run)' = Reconstruct(q.run)
        BY <3>4 DEF Reconstruct
      <4> QED
        BY <1>1, <3>2, <3>5, <3>6, <4>1, <4>2 DEF TxInv
    <3> QED
      BY <3>2, <3>7 DEF TxInv, RunHeld, SourceHeld, GtinsHeld, SubjectsOf
  <2> QED
    BY <2>1, <2>2
<1>9. LocksInv'
  BY <1>1, <1>3 DEF IngestionInv, LocksInv, Apart, SubjectsOf, RunHeld, SourceHeld, GtinsHeld,
     SourceOf, TypeOf, IsCatalog, AcceptedIn, Governed, Idle
<1>10. RunsInv'
  <2> SUFFICES ASSUME NEW r \in Run, run[r].status \in Terminal
               PROVE  Reconstruct(r)' = Reconstruct(r)
    BY <1>1 DEF IngestionInv, RunsInv, SourceOf
  <2>1. r # p.run
    BY <1>2 DEF Terminal
  <2> QED
    BY <1>4, <2>1 DEF Reconstruct
<1>11. JobsInv'
  <2> SUFFICES ASSUME NEW q \in Run, run[q].job, Fenced(q), NEW g \in Gtin
               PROVE  written'[SourceOf[q]][g] <= run[q].version
    BY <1>1 DEF IngestionInv, JobsInv, Fenced, SourceOf
  <2>1. SourceOf[q] \in Source
    BY SettingTypes DEF IngestionInv
  <2> QED
    BY <1>1, <1>2, <1>6, <2>1 DEF IngestionInv, JobsInv
<1>12. WrittenInv'
  BY <1>1, <1>2, <1>6 DEF IngestionInv, WrittenInv, RunsInv
<1> QED
  BY <1>7, <1>8, <1>9, <1>10, <1>11, <1>12 DEF IngestionInv
-----------------------------------------------------------------------------
(* What a step that is not one of q's own leaves to it.                    *)
Kept(q) ==
  q.phase # "idle" =>
    /\ run'[q.run].fetched = run[q.run].fetched /\ run'[q.run].version = run[q.run].version
    /\ q.phase # "commit" => run'[q.run].job
    /\ RunHeld(q) => run'[q.run].status = run[q.run].status
    /\ q.phase = "run" => run'[q.run].status # "absent"
    /\ run'[q.run].fence = gen'[SourceOf[q.run]] => run[q.run].fence = gen[SourceOf[q.run]]
    /\ q.approved => governance'[SourceOf[q.run]] # "revoked"

(* Such a transaction holds what it held, and its reads are still right. *)
LEMMA KeptStays ==
  ASSUME NEW q, TxInv(q), Kept(q), UNCHANGED <<setting, outcome, canonical, written>>
  PROVE  /\ TxInv(q)'
         /\ GtinsHeld(q)' = GtinsHeld(q) /\ SourceHeld(q)' = SourceHeld(q)
<1>1. SourceOf' = SourceOf /\ TypeOf' = TypeOf
  BY DEF SourceOf, TypeOf
<1>2. CASE q.phase = "idle"
  BY <1>1, <1>2 DEF TxInv, RunHeld, SourceHeld, GtinsHeld
<1>3. CASE q.phase # "idle"
  <2>1. /\ SubjectsOf(q)' = SubjectsOf(q)
        /\ Governed(q.run, q.batch)' = Governed(q.run, q.batch)
    BY <1>1, <1>3 DEF Kept, SubjectsOf, IsCatalog, AcceptedIn, Governed
  <2>2. GtinsHeld(q)' = GtinsHeld(q) /\ SourceHeld(q)' = SourceHeld(q)
    BY <2>1 DEF GtinsHeld, SourceHeld
  <2>3. Reconstruct(q.run)' = Reconstruct(q.run)
    BY DEF Reconstruct
  <2>4. RunHeld(q)' = RunHeld(q)
    BY DEF RunHeld
  <2>5. Fenced(q.run)' => Fenced(q.run)
    BY <1>1, <1>3 DEF Kept, Fenced
  <2> QED
    BY <1>1, <1>3, <2>1, <2>2, <2>3, <2>4, <2>5 DEF TxInv, Kept
<1> QED
  BY <1>2, <1>3

(* A step after which every session is idle or as before. *)
LEMMA OthersStay ==
  ASSUME IngestionInv, UNCHANGED <<setting, outcome, canonical, written>>,
         \A t \in Session :
           session'[t] = Idle \/ (session'[t] = session[t] /\ Kept(session[t]))
  PROVE  TxsInv' /\ LocksInv'
<1>1. TxsInv'
  <2> SUFFICES ASSUME NEW t \in Session PROVE TxInv(session[t])'
    BY DEF TxsInv
  <2>1. CASE session'[t] = Idle
    BY <2>1 DEF TxInv, Idle, RunHeld, SourceHeld, GtinsHeld
  <2>2. CASE session'[t] = session[t] /\ Kept(session[t])
    <3>1. PICK q : q = session[t]
      OBVIOUS
    <3>2. TxInv(q)'
      BY <2>2, <3>1, KeptStays DEF IngestionInv, TxsInv
    <3> QED
      BY <2>2, <3>1, <3>2 DEF TxInv, RunHeld, SourceHeld, GtinsHeld, SubjectsOf
  <2> QED
    BY <2>1, <2>2
<1>2. LocksInv'
  <2> SUFFICES ASSUME NEW s \in Session, NEW t \in Session, s # t
               PROVE  Apart(session[s], session[t])'
    BY DEF LocksInv
  <2>1. CASE session'[s] = Idle \/ session'[t] = Idle
    BY <2>1 DEF Apart, Idle, RunHeld, SourceHeld, GtinsHeld
  <2>2. CASE /\ session'[s] = session[s] /\ Kept(session[s])
             /\ session'[t] = session[t] /\ Kept(session[t])
    <3>1. PICK p, q : p = session[s] /\ q = session[t]
      OBVIOUS
    <3>2. /\ GtinsHeld(p)' = GtinsHeld(p) /\ SourceHeld(p)' = SourceHeld(p)
          /\ GtinsHeld(q)' = GtinsHeld(q) /\ SourceHeld(q)' = SourceHeld(q)
          /\ Apart(p, q)
      BY <2>2, <3>1, KeptStays DEF IngestionInv, TxsInv, LocksInv
    <3>3. Apart(p, q)'
      BY <3>2 DEF Apart, RunHeld, SourceOf
    <3> QED
      BY <2>2, <3>1, <3>3 DEF Apart, RunHeld, SourceHeld, GtinsHeld, SubjectsOf
  <2> QED
    BY <2>1, <2>2
<1> QED
  BY <1>1, <1>2

(* finalizeRun commits.                                                    *)
LEMMA CommitFinalKeeps ==
  ASSUME IngestionInv, NEW s \in Session, CommitFinal(s), UNCHANGED setting
  PROVE  IngestionInv'
<1> DEFINE p == session[s]
           row == [run[p.run] EXCEPT !.status = p.target, !.counts = p.tally]
<1>1. /\ p \in Transaction /\ TxInv(p) /\ p.phase = "commit" /\ p.target # "running"
      /\ Close(s)
      /\ run' = [run EXCEPT ![p.run] = row]
      /\ UNCHANGED <<setting, gen, governance, upstream, outcome, canonical, written>>
  BY DEF CommitFinal, IngestionInv, TypeOK, TxsInv
<1>2. /\ p.run \in Run /\ run[p.run].status = "running" /\ p.tally = Reconstruct(p.run)
      /\ p.target \in Terminal /\ p.tally \in Tally
  BY <1>1 DEF TxInv, RunHeld, Transaction
<1>3. /\ session' \in [Session -> Transaction]
      /\ \A t \in Session : session'[t] = IF t = s THEN Idle ELSE session[t]
  BY <1>1, TransactionTypes DEF IngestionInv, TypeOK, Step, Close
<1>4. /\ row \in RunRow /\ row.status = p.target /\ row.counts = p.tally
      /\ row.fetched = run[p.run].fetched /\ row.version = run[p.run].version
      /\ row.fence = run[p.run].fence /\ row.job = run[p.run].job
  <2>1. run[p.run] \in RunRow
    BY <1>2 DEF IngestionInv, TypeOK
  <2> HIDE DEF p
  <2> QED
    BY <1>2, <2>1 DEF RunRow
<1> HIDE DEF row
<1>5. /\ run' \in [Run -> RunRow]
      /\ \A r \in Run : run'[r] = IF r = p.run THEN row ELSE run[r]
  BY <1>1, <1>2, <1>4 DEF IngestionInv, TypeOK
<1>6. TypeOK'
  BY <1>1, <1>3, <1>5 DEF IngestionInv, TypeOK
<1>7. \A t \in Session :
        session'[t] = Idle \/ (session'[t] = session[t] /\ Kept(session[t]))
  <2> SUFFICES ASSUME NEW t \in Session \ {s} PROVE Kept(session[t])
    BY <1>3
  <2>1. TxInv(session[t]) /\ Apart(p, session[t])
    BY DEF IngestionInv, TxsInv, LocksInv
  <2>2. RunHeld(session[t]) => session[t].run # p.run
    BY <1>1, <2>1 DEF Apart, RunHeld
  <2> QED
    BY <1>1, <1>2, <1>4, <1>5, <2>1, <2>2 DEF Kept, TxInv, Terminal
<1>8. TxsInv' /\ LocksInv'
  BY <1>1, <1>7, OthersStay
<1>9. RunsInv'
  <2>1. \A r \in Run : Reconstruct(r)' = Reconstruct(r)
    BY <1>1 DEF Reconstruct
  <2>2. SourceOf' = SourceOf
    BY <1>1 DEF SourceOf
  <2> QED
    BY <1>1, <1>2, <1>4, <1>5, <2>1, <2>2 DEF IngestionInv, RunsInv, Terminal
<1>10. JobsInv' /\ WrittenInv'
  BY <1>1, <1>4, <1>5 DEF IngestionInv, JobsInv, WrittenInv, Fenced, SourceOf
<1> QED
  BY <1>6, <1>8, <1>9, <1>10 DEF IngestionInv

(* beginRun.                                                               *)
LEMMA BeginRunKeeps ==
  ASSUME IngestionInv, NEW r \in Run, BeginRun(r), UNCHANGED setting
  PROVE  IngestionInv'
<1> DEFINE c == SourceOf[r]
<1>1. PICK known \in SUBSET setting.gtins :
        run' = [run EXCEPT ![r] =
         [@ EXCEPT !.status = "running", !.fence = gen[c], !.job = TRUE,
                   !.version = upstream[c],
                   !.fetched = [g \in Gtin |-> IF g \in known THEN "accepted"
                                                             ELSE "unknown"]]]
  BY DEF BeginRun
<1> DEFINE fetched == [g \in Gtin |-> IF g \in known THEN "accepted" ELSE "unknown"]
           row == [run[r] EXCEPT !.status = "running", !.fence = gen[c], !.job = TRUE,
                     !.version = upstream[c], !.fetched = fetched]
<1>2. /\ c \in Source /\ gen[c] \in Nat /\ upstream[c] \in Nat
      /\ run[r] \in RunRow /\ run[r].status = "absent"
      /\ \A q \in Run : run[q].job /\ SourceOf[q] = c => run[q].fence # gen[c]
      /\ UNCHANGED <<setting, gen, governance, upstream, outcome, canonical, session, written>>
  BY SettingTypes DEF BeginRun, IngestionInv, TypeOK
<1>3. fetched \in [Gtin -> {"accepted", "unknown"}]
  OBVIOUS
<1>4. run' = [run EXCEPT ![r] = row]
  BY <1>1
<1> HIDE DEF fetched
<1>5. /\ row \in RunRow /\ row.status = "running" /\ row.fence = gen[c] /\ row.job = TRUE
      /\ row.version = upstream[c]
  BY <1>2, <1>3 DEF RunRow
<1> HIDE DEF row
<1>6. /\ run' \in [Run -> RunRow]
      /\ \A q \in Run : run'[q] = IF q = r THEN row ELSE run[q]
  BY <1>4, <1>5 DEF IngestionInv, TypeOK
<1>7. TypeOK'
  BY <1>2, <1>6 DEF IngestionInv, TypeOK
<1>8. \A t \in Session : Kept(session[t])
  <2> SUFFICES ASSUME NEW t \in Session PROVE Kept(session[t])
    OBVIOUS
  <2>1. TxInv(session[t])
    BY DEF IngestionInv, TxsInv
  <2>2. session[t].phase # "idle" => session[t].run # r
    BY <1>2, <2>1 DEF TxInv, RunHeld
  <2> QED
    BY <1>2, <1>6, <2>1, <2>2 DEF Kept, TxInv
<1>9. TxsInv' /\ LocksInv'
  BY <1>2, <1>8, OthersStay
<1>10. SourceOf' = SourceOf /\ \A q \in Run : Reconstruct(q)' = Reconstruct(q)
  BY <1>2 DEF SourceOf, Reconstruct
<1>11. RunsInv'
  BY <1>2, <1>5, <1>6, <1>10 DEF IngestionInv, RunsInv, Terminal
<1>12. JobsInv'
  <2> SUFFICES ASSUME NEW q \in Run, run'[q].job, run'[q].fence = gen[SourceOf[q]]
               PROVE  /\ \A x \in Run : SourceOf[x] = SourceOf[q] /\ run'[x].fence = gen[SourceOf[x]]
                                          => run'[x].version <= run'[q].version
                      /\ \A g \in Gtin : written[SourceOf[q]][g] <= run'[q].version
    BY <1>2, <1>10 DEF JobsInv, Fenced
  <2>1. CASE q = r
    BY <1>2, <1>5, <1>6, <2>1 DEF IngestionInv, RunsInv, WrittenInv
  <2>2. CASE q # r
    <3>1. SourceOf[q] # c
      BY <1>2, <1>6, <2>2
    <3> QED
      BY <1>6, <2>2, <3>1 DEF IngestionInv, JobsInv, Fenced
  <2> QED
    BY <2>1, <2>2
<1>13. WrittenInv'
  BY <1>2 DEF IngestionInv, WrittenInv
<1> QED
  BY <1>7, <1>9, <1>11, <1>12, <1>13 DEF IngestionInv

(* The job returns.                                                        *)
LEMMA EndJobKeeps ==
  ASSUME IngestionInv, NEW r \in Run, EndJob(r), UNCHANGED setting
  PROVE  IngestionInv'
<1> DEFINE row == [run[r] EXCEPT !.job = FALSE]
<1>1. /\ run' = [run EXCEPT ![r] = row]
      /\ \A s \in Session : RunOf(s) = r => session[s].phase = "commit"
      /\ UNCHANGED <<setting, gen, governance, upstream, outcome, canonical, session, written>>
  BY DEF EndJob
<1>2. /\ row \in RunRow /\ row.status = run[r].status /\ row.fence = run[r].fence
      /\ row.job = FALSE /\ row.version = run[r].version /\ row.fetched = run[r].fetched
      /\ row.counts = run[r].counts
  <2>1. run[r] \in RunRow
    BY DEF IngestionInv, TypeOK
  <2> QED
    BY <2>1 DEF RunRow
<1> HIDE DEF row
<1>3. /\ run' \in [Run -> RunRow]
      /\ \A q \in Run : run'[q] = IF q = r THEN row ELSE run[q]
  BY <1>1, <1>2 DEF IngestionInv, TypeOK
<1>4. TypeOK'
  BY <1>1, <1>3 DEF IngestionInv, TypeOK
<1>5. \A t \in Session : Kept(session[t])
  <2> SUFFICES ASSUME NEW t \in Session PROVE Kept(session[t])
    OBVIOUS
  <2>1. TxInv(session[t])
    BY DEF IngestionInv, TxsInv
  <2> QED
    BY <1>1, <1>2, <1>3, <2>1 DEF Kept, TxInv, RunOf
<1>6. TxsInv' /\ LocksInv'
  BY <1>1, <1>5, OthersStay
<1>7. SourceOf' = SourceOf /\ \A q \in Run : Reconstruct(q)' = Reconstruct(q)
  BY <1>1 DEF SourceOf, Reconstruct
<1>8. RunsInv'
  BY <1>1, <1>2, <1>3, <1>7 DEF IngestionInv, RunsInv
<1>9. JobsInv' /\ WrittenInv'
  BY <1>1, <1>2, <1>3, <1>7 DEF IngestionInv, JobsInv, WrittenInv, Fenced
<1> QED
  BY <1>4, <1>6, <1>8, <1>9 DEF IngestionInv

(* A takeover, a decision on the source, an expiry, an upstream change.    *)
LEMMA SurroundingsKeep ==
  ASSUME IngestionInv, NEW c \in Source, UNCHANGED setting,
         Takeover(c) \/ SetGovernance(c) \/ Expire(c) \/ Publish(c)
  PROVE  IngestionInv'
<1>1. UNCHANGED <<setting, run, outcome, canonical, session, written>>
  BY DEF Takeover, SetGovernance, Expire, Publish
<1>2. /\ gen' \in [Source -> Nat] /\ upstream' \in [Source -> Nat]
      /\ governance' \in [Source -> {"approved", "revoked", "expired"}]
      /\ \A d \in Source :
           /\ gen'[d] = gen[d] \/ gen'[d] = gen[d] + 1
           /\ upstream[d] <= upstream'[d]
  <2>1. /\ gen \in [Source -> Nat] /\ upstream \in [Source -> Nat]
        /\ governance \in [Source -> {"approved", "revoked", "expired"}]
    BY DEF IngestionInv, TypeOK
  <2>2. \A d \in Source : gen[d] \in Nat /\ upstream[d] \in Nat
    BY <2>1
  <2>3. CASE Takeover(c)
    <3>1. gen' = [gen EXCEPT ![c] = gen[c] + 1] /\ UNCHANGED <<upstream, governance>>
      BY <2>3 DEF Takeover
    <3> QED
      BY <2>1, <2>2, <3>1
  <2>4. CASE Publish(c)
    <3>1. upstream' = [upstream EXCEPT ![c] = upstream[c] + 1] /\ UNCHANGED <<gen, governance>>
      BY <2>4 DEF Publish
    <3> QED
      BY <2>1, <2>2, <3>1
  <2>5. CASE SetGovernance(c) \/ Expire(c)
    <3>1. /\ UNCHANGED <<gen, upstream>>
          /\ \E d \in {"approved", "revoked", "expired"} :
               governance' = [governance EXCEPT ![c] = d]
      BY <2>5 DEF SetGovernance, Expire
    <3> QED
      BY <2>1, <2>2, <3>1
  <2> QED
    BY <2>3, <2>4, <2>5
<1>3. \A d \in Source : governance'[d] = "revoked" /\ governance[d] # "revoked" =>
                          SourceLockFree(d)
  BY DEF Takeover, SetGovernance, Expire, Publish, IngestionInv, TypeOK
<1>4. SourceOf' = SourceOf /\ \A q \in Run : Reconstruct(q)' = Reconstruct(q)
  BY <1>1 DEF SourceOf, Reconstruct
<1>5. TypeOK'
  BY <1>1, <1>2 DEF IngestionInv, TypeOK
<1>6. \A r \in Run : /\ SourceOf[r] \in Source /\ run[r].fence \in Nat
                     /\ run[r].version \in Nat
                     /\ run[r].fence <= gen[SourceOf[r]] /\ run[r].version <= upstream[SourceOf[r]]
  BY SettingTypes DEF IngestionInv, TypeOK, RunsInv, RunRow
<1>7. \A r \in Run : run[r].fence = gen'[SourceOf[r]] => Fenced(r)
  <2> SUFFICES ASSUME NEW r \in Run, run[r].fence = gen'[SourceOf[r]] PROVE Fenced(r)
    OBVIOUS
  <2>1. gen[SourceOf[r]] \in Nat /\ gen'[SourceOf[r]] \in {gen[SourceOf[r]], gen[SourceOf[r]] + 1}
    BY <1>2, <1>6 DEF IngestionInv, TypeOK
  <2> QED
    BY <1>6, <2>1 DEF Fenced
<1>8. \A t \in Session : Kept(session[t])
  <2> SUFFICES ASSUME NEW t \in Session PROVE Kept(session[t])
    OBVIOUS
  <2>1. TxInv(session[t])
    BY DEF IngestionInv, TxsInv
  <2>2. session[t].approved => governance'[SourceOf[session[t].run]] # "revoked"
    <3> SUFFICES ASSUME session[t].approved, governance'[SourceOf[session[t].run]] = "revoked"
                 PROVE  FALSE
      OBVIOUS
    <3>1. /\ SourceHeld(session[t]) /\ session[t].run \in Run
          /\ governance[SourceOf[session[t].run]] # "revoked"
      BY <2>1 DEF TxInv
    <3>2. SourceLockFree(SourceOf[session[t].run])
      BY <1>3, <1>6, <3>1
    <3> QED
      BY <3>1, <3>2 DEF SourceLockFree, HoldsSource, SourceHeld, SourceOfTx, RunOf
  <2> QED
    BY <1>1, <1>7, <2>1, <2>2 DEF Kept, TxInv, Fenced
<1>9. TxsInv' /\ LocksInv'
  BY <1>1, <1>8, OthersStay
<1>10. RunsInv'
  <2>1. \A r \in Run : /\ run[r].fence <= gen'[SourceOf[r]]
                       /\ run[r].version <= upstream'[SourceOf[r]]
    <3> SUFFICES ASSUME NEW r \in Run
                 PROVE  /\ run[r].fence <= gen'[SourceOf[r]]
                        /\ run[r].version <= upstream'[SourceOf[r]]
      OBVIOUS
    <3>1. /\ gen[SourceOf[r]] \in Nat /\ upstream[SourceOf[r]] \in Nat
          /\ upstream'[SourceOf[r]] \in Nat
      BY <1>2, <1>6 DEF IngestionInv, TypeOK
    <3> QED
      BY <1>2, <1>6, <3>1
  <2> QED
    BY <1>1, <1>4, <2>1 DEF IngestionInv, RunsInv
<1>11. JobsInv'
  BY <1>1, <1>4, <1>7 DEF IngestionInv, JobsInv, Fenced
<1>12. WrittenInv'
  <2> SUFFICES ASSUME NEW d \in Source, NEW g \in Gtin PROVE written[d][g] <= upstream'[d]
    BY <1>1 DEF WrittenInv
  <2>1. written[d][g] \in Nat /\ upstream[d] \in Nat /\ upstream'[d] \in Nat
    BY <1>2 DEF IngestionInv, TypeOK
  <2> QED
    BY <1>2, <2>1 DEF IngestionInv, WrittenInv
<1> QED
  BY <1>5, <1>9, <1>10, <1>11, <1>12 DEF IngestionInv

(* No run and no transaction at first. *)
LEMMA IngestionStarts == Init => IngestionInv
<1> SUFFICES ASSUME Init PROVE IngestionInv
  OBVIOUS
<1> DEFINE row == [status |-> "absent", fence |-> 0, job |-> FALSE, version |-> 0,
                   fetched |-> [g \in Gtin |-> "unknown"], counts |-> NoTally]
<1>1. row \in RunRow
  <2>1. [g \in Gtin |-> "unknown"] \in [Gtin -> {"accepted", "unknown"}]
    OBVIOUS
  <2> QED
    BY <2>1, TransactionTypes DEF RunRow
<1>2. run = [r \in Run |-> row] /\ row.status = "absent" /\ row.job = FALSE
      /\ row.fence = 0 /\ row.version = 0
  BY DEF Init
<1> HIDE DEF row
<1>3. /\ canonical \in [Gtin -> Product]
      /\ gen = [c \in Source |-> 1] /\ upstream = [c \in Source |-> 1]
      /\ governance \in [Source -> {"approved", "revoked", "expired"}]
      /\ outcome \in [Run -> [Gtin -> States \cup {"none"}]]
      /\ written = [c \in Source |-> [g \in Gtin |-> 0]]
      /\ session = [s \in Session |-> Idle]
      /\ setting \in Setting
  BY DEF Init, Product, Absent
<1>4. TypeOK
  BY <1>1, <1>2, <1>3, TransactionTypes DEF TypeOK
<1>5. TxsInv /\ LocksInv
  BY <1>3, IdleIsFree DEF TxsInv, LocksInv
<1>6. SourceOf \in [Run -> Source]
  BY <1>4, SettingTypes
<1>7. RunsInv /\ JobsInv /\ WrittenInv
  BY <1>2, <1>3, <1>6 DEF RunsInv, JobsInv, WrittenInv, Terminal
<1> QED
  BY <1>4, <1>5, <1>7 DEF IngestionInv

(* Every step keeps the invariant. *)
LEMMA IngestionKeeps == IngestionInv /\ [Next]_vars => IngestionInv'
<1> SUFFICES ASSUME IngestionInv, [Next]_vars PROVE IngestionInv'
  OBVIOUS
<1>1. CASE UNCHANGED vars
  <2>1. UNCHANGED <<setting, gen, governance, upstream, run, outcome, canonical, session, written>>
    BY <1>1 DEF vars
  <2>2. \A t \in Session : Kept(session[t])
    BY <2>1 DEF Kept, IngestionInv, TxsInv, TxInv
  <2>3. TxsInv' /\ LocksInv'
    BY <2>1, <2>2, OthersStay
  <2> QED
    BY <2>1, <2>3 DEF IngestionInv, TypeOK, RunsInv, JobsInv, WrittenInv, Fenced, SourceOf, Reconstruct
<1>2. CASE Next
  <2>1. UNCHANGED setting
    BY <1>2 DEF Next
  <2>2. ASSUME NEW r \in Run, BeginRun(r) \/ EndJob(r) PROVE IngestionInv'
    BY <2>1, <2>2, BeginRunKeeps, EndJobKeeps
  <2>3. ASSUME NEW s \in Session, NEW r \in Run, Persist(s, r) \/ Finalize(s, r)
        PROVE  IngestionInv'
    <3>1. CASE Persist(s, r)
      <4>1. PICK batch \in (SUBSET setting.gtins) \ {{}} : Open(s, r, batch, "running")
        BY <3>1 DEF Persist
      <4>2. batch \in SUBSET Gtin /\ batch # {}
        BY <4>1, SettingTypes DEF IngestionInv
      <4> QED
        BY <2>1, <4>1, <4>2, OpenKeeps
    <3>2. CASE Finalize(s, r)
      <4>1. PICK t \in setting.ends : Open(s, r, {}, t)
        BY <3>2 DEF Finalize
      <4>2. t \in Terminal
        BY <4>1, SettingTypes DEF IngestionInv
      <4> QED
        BY <2>1, <4>1, <4>2, OpenKeeps DEF Terminal
    <3> QED
      BY <2>3, <3>1, <3>2
  <2>4. ASSUME NEW s \in Session,
               \/ LockRun(s) \/ LockSource(s) \/ LockGtin(s) \/ Resolve(s) \/ Count(s)
               \/ CommitBatch(s) \/ CommitFinal(s)
        PROVE  IngestionInv'
    BY <2>1, <2>4, LockRunKeeps, LockSourceKeeps, LockGtinKeeps, ResolveKeeps, CountKeeps,
       CommitBatchKeeps, CommitFinalKeeps
  <2>5. ASSUME NEW s \in Session, Abort(s) PROVE IngestionInv'
    BY <2>1, <2>5, SessionCloses DEF Abort, OnlySession
  <2>6. ASSUME NEW c \in {SourceOf[r] : r \in Run},
               Takeover(c) \/ SetGovernance(c) \/ Expire(c) \/ Publish(c)
        PROVE  IngestionInv'
    <3>1. c \in Source
      BY SettingTypes DEF IngestionInv
    <3> QED
      BY <2>1, <2>6, <3>1, SurroundingsKeep
  <2> QED
    BY <1>2, <2>2, <2>3, <2>4, <2>5, <2>6 DEF Next
<1> QED
  BY <1>1, <1>2

(* The invariant holds in every state. *)
LEMMA IngestionInvariant == Spec => []IngestionInv
  BY IngestionStarts, IngestionKeeps, PTL DEF Spec

-----------------------------------------------------------------------------
(* The tables and the transactions are of their types. *)
THEOREM IngestionTypes == Spec => []TypeOK
<1>1. IngestionInv => TypeOK
  BY DEF IngestionInv
<1> QED
  BY IngestionInvariant, <1>1, PTL

(* For any sessions, runs and sources and any number of GTINs: the counters of a
   finalized run are those of its outcomes.  lockRun makes the run row the lock of
   both finalizeRun and the batches, and a batch finds the run still running. *)
THEOREM CountersAreOfTheOutcomes == Spec => []CountsMatchOutcomes
<1>1. IngestionInv => CountsMatchOutcomes
  BY DEF IngestionInv, RunsInv, CountsMatchOutcomes
<1> QED
  BY IngestionInvariant, <1>1, PTL

(* For any sessions, runs and sources and any number of GTINs: what a batch has
   read of its products is so when it commits, since it holds their locks. *)
THEOREM DecisionsAreCurrent == Spec => []ResolutionIsCurrent
<1>1. IngestionInv => ResolutionIsCurrent
  BY DEF IngestionInv, TxsInv, TxInv, ResolutionIsCurrent, Subjects, SubjectsOf, RunOf
<1> QED
  BY IngestionInvariant, <1>1, PTL

(* A nonempty set of naturals has a least element.                         *)
LEMMA HasLeast ==
  ASSUME NEW S \in SUBSET Nat, S # {}
  PROVE  \E m \in S : \A k \in S : m <= k
<1>1. PICK m \in S : \A k \in S : ~(<<k, m>> \in OpToRel(<, Nat))
  BY NatLessThanWellFounded, WFMin
<1>2. \A k \in S : ~(k < m)
  BY <1>1 DEF OpToRel
<1> QED
  BY <1>2

(* The next GTIN of a session that still has some to lock.                 *)
LEMMA NextGtinIs ==
  ASSUME IngestionInv, NEW s \in Session, session[s].phase = "gtin"
  PROVE  \E g \in Gtin : NextGtin(s) = {g} /\ g \in session[s].toLock
<1>1. session[s].toLock # {} /\ session[s].toLock \subseteq Gtin
  BY DEF IngestionInv, TxsInv, TxInv, TypeOK, Transaction
<1>2. session[s].toLock \in SUBSET Nat
  BY <1>1 DEF Gtin
<1>3. PICK g \in session[s].toLock : \A h \in session[s].toLock : g <= h
  BY <1>1, <1>2, HasLeast
<1>4. \A h \in session[s].toLock : h \in Nat
  BY <1>2
<1>5. NextGtin(s) = {g}
  BY <1>3, <1>4 DEF NextGtin
<1> QED
  BY <1>1, <1>3, <1>5

(* The locks are ordered: runs, sources, GTINs upwards.                    *)
LEMMA NoCycle == IngestionInv => NoLockCycle
<1> SUFFICES ASSUME IngestionInv, NEW W \in (SUBSET Session) \ {{}}
             PROVE  \E s \in W : \A t \in W : ~WaitsFor(s, t)
  BY DEF NoLockCycle
<1>1. CASE \E s \in W : session[s].phase \notin {"run", "source", "gtin"}
  BY <1>1 DEF WaitsFor
<1>2. CASE /\ \A s \in W : session[s].phase \in {"run", "source", "gtin"}
           /\ \E s \in W : session[s].phase = "gtin"
  <2> DEFINE Left == {NGtin - g : g \in UNION {NextGtin(s) : s \in {t \in W : session[t].phase = "gtin"}}}
  <2>1. \A s \in W : session[s].phase = "gtin" =>
          \E g \in Gtin : NextGtin(s) = {g} /\ g \in session[s].toLock
    BY NextGtinIs
  <2>2. Left \in SUBSET Nat /\ Left # {}
    <3>1. \A s \in {t \in W : session[t].phase = "gtin"} : NextGtin(s) \subseteq Gtin /\ NextGtin(s) # {}
      BY <2>1
    <3>2. \A g \in Gtin : NGtin - g \in Nat
      BY StoreAssumption DEF Gtin
    <3> QED
      BY <1>2, <3>1, <3>2
  <2>3. PICK m \in Left : \A k \in Left : m <= k
    BY <2>2, HasLeast
  <2>4. PICK s \in W, g \in Gtin :
          session[s].phase = "gtin" /\ g \in NextGtin(s) /\ m = NGtin - g
    BY <2>1, <2>3
  <2>5. NextGtin(s) = {g} /\ g \in Gtin
    BY <2>1, <2>4
  <2>6. ASSUME NEW t \in W, WaitsFor(s, t) PROVE FALSE
    <3>1. s # t /\ HoldsGtin(t, g)
      BY <2>4, <2>5, <2>6 DEF WaitsFor
    <3>2. session[t].phase = "gtin"
      BY <1>2, <3>1 DEF HoldsGtin
    <3>3. PICK h \in Gtin : NextGtin(t) = {h} /\ h \in session[t].toLock
      BY <2>1, <3>2
    <3>4. g < h
      <4>1. g \in GtinsHeld(session[t])
        BY <2>5, <3>1 DEF HoldsGtin, GtinsHeld, Subjects, SubjectsOf, RunOf
      <4>2. TxInv(session[t])
        BY DEF IngestionInv, TxsInv
      <4> QED
        BY <3>3, <4>1, <4>2 DEF TxInv
    <3>5. NGtin - h \in Left
      BY <3>2, <3>3
    <3>6. m <= NGtin - h
      BY <2>3, <3>5
    <3> QED
      BY <2>4, <2>5, <3>3, <3>4, <3>6, StoreAssumption DEF Gtin
  <2> QED
    BY <2>6
<1>3. CASE /\ \A s \in W : session[s].phase \in {"run", "source"}
           /\ \E s \in W : session[s].phase = "source"
  BY <1>3 DEF WaitsFor, HoldsSource
<1>4. CASE \A s \in W : session[s].phase = "run"
  BY <1>4 DEF WaitsFor, HoldsRun
<1> QED
  BY <1>1, <1>2, <1>3, <1>4

(* For any number of sessions and GTINs: no set of transactions waits on itself,
   as runs are locked before sources, sources before GTINs, and GTINs upwards
   (lockProductGtins sorts them). *)
THEOREM NoDeadlockOfLocks == Spec => []NoLockCycle
  BY IngestionInvariant, NoCycle, PTL

-----------------------------------------------------------------------------
(* The two promises about steps.                                           *)
(* A batch that commits under a source that is revoked accepts and writes nothing. *)
LEMMA BatchesAreApproved ==
  ASSUME IngestionInv, NEW s \in Session, CommitBatch(s), NEW r \in Run, NEW g \in Gtin,
         governance[SourceOf[r]] = "revoked"
  PROVE  /\ outcome[r][g] # "accepted" => outcome'[r][g] # "accepted"
         /\ written'[SourceOf[r]][g] = written[SourceOf[r]][g]
<1> DEFINE p == session[s]
<1>1. TxInv(p) /\ p.phase = "commit" /\ p.run \in Run /\ SourceOf[r] \in Source
  BY SettingTypes DEF CommitBatch, IngestionInv, TxsInv, TxInv
<1>2. SourceOf[p.run] = SourceOf[r] => ~p.approved
  BY <1>1 DEF TxInv
<1>3. outcome' = [outcome EXCEPT ![p.run] =
                   [h \in Gtin |-> IF h \in p.batch THEN Outcome(s, h) ELSE outcome[p.run][h]]]
  BY DEF CommitBatch
<1>4. written' = [written EXCEPT ![SourceOf[p.run]] =
                   [h \in Gtin |-> IF Writes(s, h) THEN run[p.run].version
                                                   ELSE written[SourceOf[p.run]][h]]]
  BY DEF CommitBatch
<1>5. /\ Outcome(s, g) = "accepted" => p.approved
      /\ Writes(s, g) => p.approved
  BY <1>1, BatchChanges
<1>6. outcome \in [Run -> [Gtin -> States \cup {"none"}]] /\ written \in [Source -> [Gtin -> Nat]]
  BY DEF IngestionInv, TypeOK
<1>7. outcome[r][g] # "accepted" => outcome'[r][g] # "accepted"
  BY <1>1, <1>2, <1>3, <1>5, <1>6
<1>8. written'[SourceOf[r]][g] = written[SourceOf[r]][g]
  BY <1>1, <1>2, <1>4, <1>5, <1>6
<1> QED
  BY <1>7, <1>8

(* Only a batch that commits changes outcomes and products.                *)
LEMMA OnlyBatchesWrite ==
  ASSUME [Next]_vars, ~UNCHANGED <<outcome, written>>
  PROVE  \E s \in Session : CommitBatch(s)
  BY DEF Next, vars, BeginRun, EndJob, Persist, Finalize, Open, LockRun, LockSource, LockGtin,
     Resolve, Count, CommitFinal, Abort, Takeover, SetGovernance, Expire, Publish

(* For any sessions, runs and sources: once a source is revoked, no record of it
   becomes accepted and none of its batches changes a product. *)
THEOREM RevocationHolds == Spec => NothingAcceptedAfterRevocation
<1>1. ASSUME IngestionInv, [Next]_vars
      PROVE  \A r \in Run, g \in Gtin :
               governance[SourceOf[r]] = "revoked" =>
                 /\ outcome[r][g] # "accepted" => outcome'[r][g] # "accepted"
                 /\ written'[SourceOf[r]][g] = written[SourceOf[r]][g]
  <2>1. CASE UNCHANGED <<outcome, written>>
    BY <2>1
  <2>2. CASE ~UNCHANGED <<outcome, written>>
    BY <1>1, <2>2, OnlyBatchesWrite, BatchesAreApproved
  <2> QED
    BY <2>1, <2>2
<1> QED
  BY IngestionInvariant, <1>1, PTL DEF Spec, NothingAcceptedAfterRevocation

(* A batch that commits writes no older version than its source has written. *)
LEMMA BatchesAreNewer ==
  ASSUME IngestionInv, NEW s \in Session, CommitBatch(s), NEW c \in Source, NEW g \in Gtin
  PROVE  written'[c][g] >= written[c][g]
<1> DEFINE p == session[s]
           w == [h \in Gtin |-> IF Writes(s, h) THEN run[p.run].version
                                                ELSE written[SourceOf[p.run]][h]]
<1>1. TxInv(p) /\ p.phase = "commit" /\ p.run \in Run /\ Fenced(p.run)
  BY DEF CommitBatch, IngestionInv, TxsInv, TxInv
<1>2. written' = [written EXCEPT ![SourceOf[p.run]] = w]
  BY DEF CommitBatch
<1>3. /\ written \in [Source -> [Gtin -> Nat]] /\ run[p.run].version \in Nat
      /\ written[c][g] \in Nat
  BY <1>1 DEF IngestionInv, TypeOK, RunRow
<1>4. Writes(s, g) => written[SourceOf[p.run]][g] <= run[p.run].version
  BY <1>1, BatchChanges DEF TxInv
<1>5. c = SourceOf[p.run] => w[g] >= written[c][g]
  BY <1>3, <1>4
<1> HIDE DEF w
<1> QED
  BY <1>2, <1>3, <1>5

(* For any sessions, runs and generations: no source puts an older version over a
   newer one, because the run that may still write is the newest of its source, or
   commits under the locks that the newer one has to wait for. *)
THEOREM SourcesMoveForward == Spec => CorrectionsMoveForward
<1>1. ASSUME IngestionInv, [Next]_vars
      PROVE  \A c \in Source, g \in Gtin : written'[c][g] >= written[c][g]
  <2>1. CASE UNCHANGED <<outcome, written>>
    BY <1>1, <2>1 DEF IngestionInv, TypeOK
  <2>2. CASE ~UNCHANGED <<outcome, written>>
    BY <1>1, <2>2, OnlyBatchesWrite, BatchesAreNewer
  <2> QED
    BY <2>1, <2>2
<1> QED
  BY IngestionInvariant, <1>1, PTL DEF Spec, CorrectionsMoveForward
=============================================================================
