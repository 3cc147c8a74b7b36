-------------------------- MODULE OfferPublication --------------------------
(* Official offers from review to the public projection                    *)
(* (deploy/migrations/021, 025, 026 and 041,                               *)
(* apps/worker/src/official-offer-lifecycle.ts).  A reviewer approves a    *)
(* candidate; every 15 minutes and per source one transaction withdraws    *)
(* what may no longer be shown and publishes a page of what was approved.  *)
(* Its statements wait for products that another source's transaction      *)
(* holds, until a lock timeout, and see what others committed in between.  *)
(*                                                                         *)
(* Left out: the shape of requests and receipts, the lease row (held only  *)
(* inside the transaction, which ends before it would expire), products,   *)
(* identifiers and scopes that are retired, permissions that end by date.  *)
(* The age limit of a capture counts as the end of its offer.              *)
EXTENDS Integers, FiniteSets

CONSTANTS
  OfferSource,   \* data_sources of kind "offer"
  Candidate,     \* extracted_offer_candidates; an approved one keeps its number
  Begun,         \* per candidate: its offer when the behaviour begins
  About,         \* per candidate: source, product, starts, ends, before
  BatchLimit,    \* batchLimit: offers per page (50)
  VisibleCap,    \* offers of a product that the projection returns (50)
  LastSlot,      \* bound on the 15-minute slots
  MaxChanges     \* bound on the decisions about the sources' rights

Nobody == "nobody"

ASSUME PublicationAssumption ==
  /\ Nobody \notin OfferSource
  /\ Candidate \subseteq Nat \ {0} /\ IsFiniteSet(Candidate)
  /\ Begun \in [Candidate -> {"none", "approved", "published"}]
  /\ BatchLimit \in Nat \ {0} /\ VisibleCap \in Nat \ {0}
  /\ LastSlot \in Nat /\ MaxChanges \in Nat
  /\ \A c \in Candidate :
       /\ About[c].source \in OfferSource /\ About[c].product \in Nat
       /\ About[c].starts \in Nat /\ About[c].ends \in Nat /\ About[c].before \in BOOLEAN
       /\ Begun[c] = "published" => About[c].starts = 0

VARIABLES
  time,      \* the database clock, in slots
  rights,    \* per source: runtime_state and the newest permission
  changes,   \* how many decisions about rights there have been
  evidence,  \* per candidate: the permission it was captured under, 0 before
  review,    \* per candidate: where its review is
  offer,     \* per candidate: status of its row in approved_offers
  done,      \* per source: the ledger has a result for the current slot
  cursor,    \* per source: where its next pages begin
  job,       \* per source: the transaction of official_offer_lifecycle_reconcile_v1
  holder,    \* per product: the source whose transaction has its row locked
  passed     \* per candidate: completed runs in a row that should have examined it and did not

publicationVars ==
  <<time, rights, changes, evidence, review, offer, done, cursor, job, holder, passed>>

ProductOf(c) == About[c].product
SourceOfOffer(c) == About[c].source
OfferProduct == {ProductOf(c) : c \in Candidate}

NoJob ==
  [phase |-> "idle", at |-> 0, page |-> {}, swept |-> {}, late |-> {},
   withdrawn |-> {}, shown |-> {}, basis |-> 0]

(* review "approving" is the transaction of private_review_decide_v2,      *)
(* which holds the source's governance lock until it ends.                 *)
PublicationTypeOK ==
  /\ time \in 0..LastSlot
  /\ rights \in [OfferSource -> [state : {"approved", "blocked", "revoked"},
                                 permission : Nat, granted : BOOLEAN]]
  /\ changes \in 0..MaxChanges
  /\ evidence \in [Candidate -> Nat]
  /\ review \in [Candidate -> {"none", "open", "rendered", "approving", "decided"}]
  /\ offer \in [Candidate -> {"none", "approved", "published", "expired", "revoked"}]
  /\ done \in [OfferSource -> BOOLEAN]
  /\ cursor \in [OfferSource -> [expiry : Nat, publication : Nat]]
  /\ job \in [OfferSource ->
       [phase : {"idle", "expiry", "publication", "complete"}, at : 0..LastSlot,
        page : SUBSET Candidate, swept : SUBSET Candidate,
        late : SUBSET Candidate, withdrawn : SUBSET Candidate, shown : SUBSET Candidate,
        basis : 0..MaxChanges]]
  /\ holder \in [OfferProduct -> OfferSource \cup {Nobody}]
  /\ passed \in [Candidate -> Nat]

PublicationInit ==
  /\ time = 0
  /\ rights = [s \in OfferSource |-> [state |-> "approved", permission |-> 1, granted |-> TRUE]]
  /\ changes = 0
  /\ evidence = [c \in Candidate |-> IF Begun[c] = "none" THEN 0 ELSE 1]
  /\ review = [c \in Candidate |-> IF Begun[c] = "none" THEN "none" ELSE "decided"]
  /\ offer = Begun
  /\ done = [s \in OfferSource |-> FALSE]
  /\ cursor = [s \in OfferSource |-> [expiry |-> 0, publication |-> 0]]
  /\ job = [s \in OfferSource |-> NoJob]
  /\ holder = [p \in OfferProduct |-> Nobody]
  /\ passed = [c \in Candidate |-> 0]

-----------------------------------------------------------------------------
(* Rights.  A ...Mutant is a deliberate error in the definition after it.  *)

SourceCurrent(s) == rights[s].state = "approved" /\ rights[s].granted
Eligible(c) == SourceCurrent(SourceOfOffer(c)) /\ evidence[c] = rights[SourceOfOffer(c)].permission
IsRevoked(s) == rights[s].state = "revoked" \/ ~rights[s].granted

(* The governance lock of a source: the lifecycle and a decision keep it   *)
(* to the end of their transaction; everything else only passes through.   *)
UnguardedMutant(s) == TRUE
SourceLockFree(s) ==
  /\ job[s].phase = "idle"
  /\ \A c \in Candidate : SourceOfOffer(c) = s => review[c] # "approving"

(* The runtime state is set, or a permission is appended: one that grants  *)
(* or one that revokes.                                                    *)
ChangeRights(s) ==
  /\ changes < MaxChanges /\ SourceLockFree(s)
  /\ changes' = changes + 1
  /\ \/ \E state \in {"approved", "blocked", "revoked"} \ {rights[s].state} :
          rights' = [rights EXCEPT ![s].state = state]
     \/ \E granted \in BOOLEAN :
          rights' = [rights EXCEPT ![s].permission = @ + 1, ![s].granted = granted]
  /\ UNCHANGED <<time, evidence, review, offer, done, cursor, job, holder, passed>>

-----------------------------------------------------------------------------
(* Review.                                                                 *)

(* What is captured and extracted carries the permission of that moment.   *)
Extract(c) ==
  /\ review[c] = "none"
  /\ SourceCurrent(SourceOfOffer(c)) /\ SourceLockFree(SourceOfOffer(c))
  /\ evidence' = [evidence EXCEPT ![c] = rights[SourceOfOffer(c)].permission]
  /\ review' = [review EXCEPT ![c] = "open"]
  /\ UNCHANGED <<time, rights, changes, offer, done, cursor, job, holder, passed>>

RenderEvidence(c) ==
  /\ review[c] = "open"
  /\ SourceLockFree(SourceOfOffer(c)) /\ Eligible(c)
  /\ review' = [review EXCEPT ![c] = "rendered"]
  /\ UNCHANGED <<time, rights, changes, evidence, offer, done, cursor, job, holder, passed>>

(* Nobody decided within the two minutes that the proof is good for.       *)
ProofExpires(c) ==
  /\ review[c] = "rendered"
  /\ review' = [review EXCEPT ![c] = "open"]
  /\ UNCHANGED <<time, rights, changes, evidence, offer, done, cursor, job, holder, passed>>

Reject(c) ==
  /\ review[c] \in {"open", "rendered"}
  /\ SourceLockFree(SourceOfOffer(c)) /\ Eligible(c)
  /\ review' = [review EXCEPT ![c] = "decided"]
  /\ UNCHANGED <<time, rights, changes, evidence, offer, done, cursor, job, holder, passed>>

(* Proof, candidate and source are locked; then the rights are read.       *)
BeginApproval(c) ==
  /\ review[c] = "rendered"
  /\ SourceLockFree(SourceOfOffer(c)) /\ Eligible(c)
  /\ About[c].ends > time
  /\ review' = [review EXCEPT ![c] = "approving"]
  /\ UNCHANGED <<time, rights, changes, evidence, offer, done, cursor, job, holder, passed>>

CommitApproval(c) ==
  /\ review[c] = "approving"
  /\ review' = [review EXCEPT ![c] = "decided"]
  /\ offer' = [offer EXCEPT ![c] = "approved"]
  /\ UNCHANGED <<time, rights, changes, evidence, done, cursor, job, holder, passed>>

(* Cancelled or failed: the proof is not consumed.                         *)
AbortApproval(c) ==
  /\ review[c] = "approving"
  /\ review' = [review EXCEPT ![c] = "rendered"]
  /\ UNCHANGED <<time, rights, changes, evidence, offer, done, cursor, job, holder, passed>>

-----------------------------------------------------------------------------
(* public_official_offer_rows_v1 as of t, for one product, over the        *)
(* statuses a transaction sees.  A row of which the status changed after t *)
(* is not in it.  The decision of an offer without a before price has no   *)
(* key for it (jsonb_strip_nulls), and the projection asks for a JSON null *)
(* there.                                                                  *)
Projection(status, p, t, late) ==
  {c \in Candidate \ late :
     /\ ProductOf(c) = p /\ status[c] = "published"
     /\ About[c].starts <= t /\ About[c].ends > t
     /\ Eligible(c) /\ About[c].before}

Visible(status, t, late) ==
  UNION {V \in {Projection(status, p, t, late) : p \in OfferProduct} : Cardinality(V) <= VisibleCap}

(* The statuses that the transaction of s sees.                            *)
View(s) ==
  [c \in Candidate |-> IF c \in job[s].withdrawn THEN "expired"
                       ELSE IF c \in job[s].shown THEN "published" ELSE offer[c]]

-----------------------------------------------------------------------------
(* A page: the first BatchLimit offers in circular order from the cursor.  *)

Before(from, c, d) == IF (c > from) = (d > from) THEN c < d ELSE c > from

FirstPageMutant(from, S) == {c \in S : Cardinality({d \in S : d < c}) < BatchLimit}
PageFrom(from, S) == {c \in S : Cardinality({d \in S : Before(from, d, c)}) < BatchLimit}
LastOf(from, S) == IF S = {} THEN 0 ELSE CHOOSE c \in S : \A d \in S \ {c} : Before(from, d, c)

Expirable(s, t) ==
  {c \in Candidate : /\ SourceOfOffer(c) = s
                     /\ \/ offer[c] = "published"
                        \/ offer[c] = "approved" /\ (About[c].ends <= t \/ IsRevoked(s))}
Publishable(s, t) ==
  {c \in Candidate : /\ SourceOfOffer(c) = s /\ offer[c] = "approved"
                     /\ About[c].starts <= t /\ About[c].ends > t}

-----------------------------------------------------------------------------
(* The lifecycle transaction of a source, for the current slot.  Any       *)
(* worker may call it, again after a failure or a restart; once the slot   *)
(* is recorded every further call has another runId and is a conflict.     *)
BeginReconcile(s) ==
  /\ ~done[s]
  /\ SourceLockFree(s)
  /\ LET page == PageFrom(cursor[s].expiry, Expirable(s, time))
     IN job' = [job EXCEPT ![s] = [NoJob EXCEPT !.phase = "expiry", !.at = time,
                                                !.page = page, !.swept = page]]
  /\ UNCHANGED <<time, rights, changes, evidence, review, offer, done, cursor, holder, passed>>

LocklessMutant(s) == {}
Waiting(s) == {p \in {ProductOf(c) : c \in job[s].page} : holder[p] # s}

(* In the order of the products' ids, one row after another.               *)
LockProduct(s) ==
  /\ job[s].phase \in {"expiry", "publication"}
  /\ \E p \in Waiting(s) :
       /\ \A q \in Waiting(s) : p <= q
       /\ holder[p] = Nobody
       /\ holder' = [holder EXCEPT ![p] = s]
  /\ UNCHANGED <<time, rights, changes, evidence, review, offer, done, cursor, job, passed>>

(* Withdraws what of the page is no longer visible as of the start, and    *)
(* takes the page to publish, if the source may publish.                   *)
Withdraw(s) ==
  /\ job[s].phase = "expiry" /\ Waiting(s) = {}
  /\ LET kept == Visible(offer, job[s].at, job[s].late)
     IN job' = [job EXCEPT ![s].withdrawn = job[s].page \ kept,
                           ![s].phase = "publication",
                           ![s].page = IF SourceCurrent(s)
                                       THEN PageFrom(cursor[s].publication,
                                                     Publishable(s, job[s].at))
                                       ELSE {}]
  /\ UNCHANGED <<time, rights, changes, evidence, review, offer, done, cursor, holder, passed>>

(* Publishes the page tentatively and withdraws what is not visible then.  *)
(* The projection is as of a clock read after that update.                 *)
FirstClockMutant(s) == job[s].late \cup job[s].page
LateForPublish(s) == {}

Publish(s) ==
  /\ job[s].phase = "publication" /\ Waiting(s) = {}
  /\ LET page == job[s].page
         tentative == [c \in Candidate |-> IF c \in page THEN "published" ELSE View(s)[c]]
         kept == page \cap Visible(tentative, time, LateForPublish(s))
     IN job' = [t \in OfferSource |->
                 IF t = s
                 THEN [job[s] EXCEPT !.phase = "complete", !.shown = kept, !.basis = changes,
                                     !.withdrawn = job[s].withdrawn \cup (page \ kept)]
                 ELSE IF job[t].phase = "idle" THEN job[t]
                 ELSE [job[t] EXCEPT !.late = job[t].late \cup page]]
  /\ UNCHANGED <<time, rights, changes, evidence, review, offer, done, cursor, holder, passed>>

Unlocked(s) == [p \in OfferProduct |-> IF holder[p] = s THEN Nobody ELSE holder[p]]

(* The ledger row, the cursors and the statuses, together.                 *)
CommitReconcile(s) ==
  /\ job[s].phase = "complete"
  /\ offer' = [c \in Candidate |->
                 IF c \notin job[s].withdrawn THEN View(s)[c]
                 ELSE IF IsRevoked(s) THEN "revoked" ELSE "expired"]
  /\ done' = [done EXCEPT ![s] = job[s].at = time]
  /\ cursor' = [cursor EXCEPT ![s] =
                  [expiry |-> LastOf(cursor[s].expiry, job[s].swept),
                   publication |-> LastOf(cursor[s].publication, job[s].page)]]
  /\ passed' = [c \in Candidate |->
                  IF SourceOfOffer(c) # s THEN passed[c]
                  ELSE IF c \in Expirable(s, job[s].at) \ job[s].swept THEN passed[c] + 1 ELSE 0]
  /\ job' = [job EXCEPT ![s] = NoJob]
  /\ holder' = Unlocked(s)
  /\ UNCHANGED <<time, rights, changes, evidence, review>>

(* A lock or statement timeout, a cancel after 30 seconds, a crash.        *)
AbortReconcile(s) ==
  /\ job[s].phase # "idle"
  /\ job' = [job EXCEPT ![s] = NoJob]
  /\ holder' = Unlocked(s)
  /\ UNCHANGED <<time, rights, changes, evidence, review, offer, done, cursor, passed>>

NextSlot ==
  /\ time < LastSlot
  /\ time' = time + 1
  /\ done' = [s \in OfferSource |-> FALSE]
  /\ UNCHANGED <<rights, changes, evidence, review, offer, cursor, job, holder, passed>>

PublicationNext ==
  \/ NextSlot
  \/ \E s \in OfferSource :
       \/ ChangeRights(s)
       \/ BeginReconcile(s)
       \/ LockProduct(s) \/ Withdraw(s) \/ Publish(s) \/ CommitReconcile(s) \/ AbortReconcile(s)
  \/ \E c \in Candidate :
       \/ Extract(c) \/ RenderEvidence(c) \/ ProofExpires(c) \/ Reject(c)
       \/ BeginApproval(c) \/ CommitApproval(c) \/ AbortApproval(c)

PublicationSpec == PublicationInit /\ [][PublicationNext]_publicationVars

-----------------------------------------------------------------------------
(* Properties.                                                             *)

Shown(p) == Projection(offer, p, time, {})

(* "Per-product update locks serialize different sources so two concurrent *)
(* pages cannot create a hidden 51st visible offer"                        *)
(* (docs/runbooks/official-offer-foundation.md:189): no transaction brings  *)
(* the visible offers of a product over the cap, unless rights changed     *)
(* after it looked: the rights of another source are not locked.           *)
NoHiddenExtraOffer ==
  [][\A s \in OfferSource :
       job[s].phase = "complete" /\ job'[s].phase = "idle" /\ job[s].basis = changes =>
         \A p \in OfferProduct :
           Cardinality(Shown(p)') > VisibleCap =>
             Cardinality(Shown(p)') <= Cardinality(Shown(p))]_publicationVars

(* The rights recheck "cannot race a revocation" (021:534): an offer is    *)
(* approved, and published, only while the newest decision about its       *)
(* source grants what its evidence was captured under.                     *)
RightsHoldAtCommit ==
  [][\A c \in Candidate :
       offer'[c] # offer[c] /\ offer'[c] \in {"approved", "published"} => Eligible(c)]_publicationVars

(* The circular cursors of 026: an offer that should be examined is passed *)
(* over by no more completed runs than it takes to examine all the others  *)
(* of its source.                                                          *)
NoOfferIsPassedOver ==
  \A c \in Candidate :
    passed[c] * BatchLimit < Cardinality({d \in Candidate : SourceOfOffer(d) = SourceOfOffer(c)})

(* An offer is withdrawn for good only if it ended, its rights are gone or *)
(* its product has more offers than can be shown: neither the run's own    *)
(* update nor another source's run takes it down.                          *)
Crowd(c) ==
  {d \in Candidate : /\ ProductOf(d) = ProductOf(c)
                     /\ offer[d] = "published" \/ d \in job[SourceOfOffer(c)].page}
Withdrawable(c) ==
  \/ About[c].ends <= time
  \/ ~Eligible(c)
  \/ Cardinality(Crowd(c)) > VisibleCap

Withdrawn(c) ==
  /\ offer[c] \in {"approved", "published"}
  /\ offer'[c] \in {"expired", "revoked"}

OffersStayUntilTheyEnd ==
  [][\A c \in Candidate : Withdrawn(c) /\ About[c].before => Withdrawable(c)]_publicationVars

(* "A missing official before-price produces no original price,           *)
(* kroner-saved, or percent-saved fields"                                  *)
(* (docs/adr/0001-official-offer-vs-historical-price.md:76): the offer is   *)
(* shown without them, and stays like any other.                           *)
UndiscountedOffersStay ==
  [][\A c \in Candidate : Withdrawn(c) /\ ~About[c].before => Withdrawable(c)]_publicationVars

=============================================================================
