----------------------- MODULE OfferPublicationProofs -----------------------
(***************************************************************************)
(* Theorems about OfferPublication for every set of sources and            *)
(* candidates, every batch limit and cap, and any number of slots and of   *)
(* decisions about rights.                                                 *)
(*                                                                         *)
(* Rights (RightsInv).  A decision and a lifecycle run read the rights of  *)
(* their source under its governance lock and keep that lock to their end. *)
(* What is about to be approved or published is therefore still eligible   *)
(* when its transaction commits: the rights and the evidence that          *)
(* eligibility is about change only with the lock of the same source free. *)
(*                                                                         *)
(* Runs (LifecycleInv).  The offers of a source change only under its own  *)
(* lock, and what is published of a product only while its row is held.    *)
(* What a run has seen of its offers and of its products is therefore      *)
(* still so when it commits, whatever other sources' runs do in between    *)
(* (RunUndisturbed); each step of a run is then looked at by itself.       *)
(*                                                                         *)
(* Cursors (Ranked).  A completed run that passes an offer over has        *)
(* examined a full page of those before it in the circular order, and      *)
(* where the cursor then points they come after it: the offers ahead of it *)
(* become fewer by a page with every run that leaves it out.               *)
(***************************************************************************)
EXTENDS OfferPublication, FiniteSetTheorems, WellFoundedInduction, TLAPS

Status == {"none", "approved", "published", "expired", "revoked"}
Stages == {"none", "open", "rendered", "approving", "decided"}

Job ==
  [phase : {"idle", "expiry", "publication", "complete"}, at : Nat,
   page : SUBSET Candidate, swept : SUBSET Candidate, late : SUBSET Candidate,
   withdrawn : SUBSET Candidate, shown : SUBSET Candidate, basis : Nat]

(* What the argument needs of the types. *)
Shape ==
  /\ time \in Nat /\ changes \in Nat
  /\ rights \in [OfferSource -> [state : {"approved", "blocked", "revoked"},
                                 permission : Nat, granted : BOOLEAN]]
  /\ evidence \in [Candidate -> Nat]
  /\ review \in [Candidate -> Stages]
  /\ offer \in [Candidate -> Status]
  /\ job \in [OfferSource -> Job]

(* A decision that holds the lock is about an eligible candidate. *)
ApprovalsEligible == \A c \in Candidate : review[c] = "approving" => Eligible(c)

(* A run publishes what belongs to its own source, whose lock it holds. *)
PagesAreOwn ==
  \A s \in OfferSource : job[s].phase \in {"publication", "complete"} =>
    \A c \in job[s].page : SourceOfOffer(c) = s

(* What a run is about to publish is its own and eligible. *)
ShownEligible ==
  \A s \in OfferSource : job[s].phase = "complete" =>
    \A c \in job[s].shown : SourceOfOffer(c) = s /\ Eligible(c)

RightsInv == Shape /\ ApprovalsEligible /\ PagesAreOwn /\ ShownEligible

-----------------------------------------------------------------------------
(* What the projection returns is eligible, whatever statuses and time it
   is asked about. *)
LEMMA VisibleIsEligible ==
  ASSUME NEW status, NEW t, NEW late, NEW c \in Visible(status, t, late)
  PROVE  c \in Candidate /\ Eligible(c)
BY DEF Visible, Projection

(* A page is part of what it was taken from. *)
LEMMA PageIsPart ==
  ASSUME NEW from, NEW S
  PROVE  PageFrom(from, S) \subseteq S
BY DEF PageFrom

(* A step that leaves rights and evidence alone leaves eligibility alone. *)
LEMMA EligibleStays ==
  ASSUME NEW c \in Candidate, UNCHANGED <<rights, evidence>>
  PROVE  Eligible(c)' <=> Eligible(c)
BY DEF Eligible, SourceCurrent, SourceOfOffer

(* Nothing is under way when the behaviour begins. *)
LEMMA InitRights == PublicationInit => RightsInv
<1> SUFFICES ASSUME PublicationInit
             PROVE  RightsInv
  OBVIOUS
<1>1. NoJob \in Job
  BY DEF NoJob, Job
<1>2. Shape
  BY <1>1, PublicationAssumption DEF PublicationInit, Shape, Stages, Status
<1>3. ApprovalsEligible
  BY DEF PublicationInit, ApprovalsEligible
<1>4. PagesAreOwn /\ ShownEligible
  BY DEF PublicationInit, PagesAreOwn, ShownEligible, NoJob
<1> QED
  BY <1>2, <1>3, <1>4 DEF RightsInv

-----------------------------------------------------------------------------
(* A decision about the rights of a source waits for its lock: nothing that
   is approving, and nothing that is about to be shown, belongs to it. *)
LEMMA RightsChange ==
  ASSUME RightsInv, NEW s \in OfferSource, ChangeRights(s)
  PROVE  RightsInv'
<1>1. Shape'
  BY DEF RightsInv, Shape, ChangeRights
<1>2. ASSUME NEW c \in Candidate, SourceOfOffer(c) # s
      PROVE  Eligible(c)' <=> Eligible(c)
  <2>1. SourceOfOffer(c) \in OfferSource
    BY PublicationAssumption DEF SourceOfOffer
  <2>2. rights'[SourceOfOffer(c)] = rights[SourceOfOffer(c)]
    BY <1>2, <2>1 DEF ChangeRights, RightsInv, Shape
  <2> QED
    BY <2>2 DEF Eligible, SourceCurrent, ChangeRights, SourceOfOffer
<1>3. ApprovalsEligible'
  <2> SUFFICES ASSUME NEW c \in Candidate, review'[c] = "approving"
               PROVE  Eligible(c)'
    BY DEF ApprovalsEligible
  <2>1. review[c] = "approving" /\ SourceOfOffer(c) # s
    BY DEF ChangeRights, SourceLockFree
  <2> QED
    BY <1>2, <2>1 DEF RightsInv, ApprovalsEligible
<1>4. PagesAreOwn'
  BY DEF RightsInv, PagesAreOwn, ChangeRights, SourceOfOffer
<1>5. ShownEligible'
  <2> SUFFICES ASSUME NEW t \in OfferSource, job'[t].phase = "complete",
                      NEW c \in job'[t].shown
               PROVE  SourceOfOffer(c) = t /\ Eligible(c)'
    BY DEF ShownEligible, SourceOfOffer
  <2>1. job' = job /\ t # s
    BY DEF ChangeRights, SourceLockFree
  <2>2. SourceOfOffer(c) = t /\ Eligible(c)
    BY <2>1 DEF RightsInv, ShownEligible
  <2>3. c \in Candidate
    BY <2>1 DEF RightsInv, Shape, Job
  <2> QED
    BY <1>2, <2>1, <2>2, <2>3
<1> QED
  BY <1>1, <1>3, <1>4, <1>5 DEF RightsInv

(* Evidence is captured for a candidate that nobody decides or shows. *)
LEMMA EvidenceChange ==
  ASSUME RightsInv, NEW d \in Candidate, Extract(d)
  PROVE  RightsInv'
<1>1. Shape'
  <2>1. SourceOfOffer(d) \in OfferSource
    BY PublicationAssumption DEF SourceOfOffer
  <2> QED
    BY <2>1 DEF RightsInv, Shape, Extract, Stages
<1>2. ASSUME NEW c \in Candidate, c # d
      PROVE  Eligible(c)' <=> Eligible(c)
  BY <1>2 DEF Eligible, SourceCurrent, SourceOfOffer, Extract, RightsInv, Shape
<1>3. ApprovalsEligible'
  <2> SUFFICES ASSUME NEW c \in Candidate, review'[c] = "approving"
               PROVE  Eligible(c)'
    BY DEF ApprovalsEligible
  <2>1. c # d /\ review[c] = "approving"
    BY DEF Extract, RightsInv, Shape
  <2> QED
    BY <1>2, <2>1 DEF RightsInv, ApprovalsEligible
<1>4. PagesAreOwn'
  BY DEF RightsInv, PagesAreOwn, Extract, SourceOfOffer
<1>5. ShownEligible'
  <2> SUFFICES ASSUME NEW t \in OfferSource, job'[t].phase = "complete",
                      NEW c \in job'[t].shown
               PROVE  SourceOfOffer(c) = t /\ Eligible(c)'
    BY DEF ShownEligible, SourceOfOffer
  <2>1. job' = job
    BY DEF Extract
  <2>2. c \in Candidate /\ SourceOfOffer(c) = t /\ Eligible(c)
    BY <2>1 DEF RightsInv, ShownEligible, Shape, Job
  <2>3. c # d
    BY <2>1, <2>2 DEF Extract, SourceLockFree
  <2> QED
    BY <1>2, <2>2, <2>3
<1> QED
  BY <1>1, <1>3, <1>4, <1>5 DEF RightsInv

(* The other steps of a review. *)
LEMMA ReviewStep ==
  ASSUME RightsInv, NEW d \in Candidate,
         \/ RenderEvidence(d) \/ ProofExpires(d) \/ Reject(d)
         \/ BeginApproval(d) \/ CommitApproval(d) \/ AbortApproval(d)
  PROVE  RightsInv'
<1> USE DEF RenderEvidence, ProofExpires, Reject, BeginApproval, CommitApproval, AbortApproval
<1>1. Shape'
  BY DEF RightsInv, Shape, Stages, Status
<1>2. \A c \in Candidate : Eligible(c)' <=> Eligible(c)
  BY EligibleStays
<1>3. ApprovalsEligible'
  <2> SUFFICES ASSUME NEW c \in Candidate, review'[c] = "approving"
               PROVE  Eligible(c)
    BY <1>2 DEF ApprovalsEligible
  <2>1. \/ review[c] = "approving"
        \/ c = d /\ Eligible(d)
    BY DEF RightsInv, Shape
  <2> QED
    BY <2>1 DEF RightsInv, ApprovalsEligible
<1>4. PagesAreOwn' /\ ShownEligible'
  <2>1. job' = job
    OBVIOUS
  <2>2. \A s \in OfferSource : job[s].shown \subseteq Candidate
    BY DEF RightsInv, Shape, Job
  <2> QED
    BY <1>2, <2>1, <2>2 DEF RightsInv, PagesAreOwn, ShownEligible, SourceOfOffer
<1> QED
  BY <1>1, <1>3, <1>4 DEF RightsInv

-----------------------------------------------------------------------------
(* The steps of a lifecycle run: rights, evidence and reviews stay, so it
   is enough to look at the run's own record. *)
LEMMA RunStep ==
  ASSUME RightsInv, Shape', UNCHANGED <<rights, evidence, review>>,
         NEW s \in OfferSource,
         \A t \in OfferSource \ {s} :
           /\ job'[t].phase = job[t].phase
           /\ job'[t].page = job[t].page /\ job'[t].shown = job[t].shown,
         job'[s].phase \in {"publication", "complete"} =>
           \A c \in job'[s].page : SourceOfOffer(c) = s,
         job'[s].phase = "complete" =>
           \A c \in job'[s].shown : SourceOfOffer(c) = s /\ Eligible(c)
  PROVE  RightsInv'
<1>1. \A c \in Candidate : Eligible(c)' <=> Eligible(c)
  BY EligibleStays
<1>2. ApprovalsEligible'
  BY <1>1 DEF RightsInv, ApprovalsEligible
<1>3. PagesAreOwn'
  BY DEF RightsInv, PagesAreOwn, SourceOfOffer
<1>4. ShownEligible'
  <2>1. \A t \in OfferSource : job'[t].shown \subseteq Candidate
    BY DEF Shape, Job
  <2> QED
    BY <1>1, <2>1 DEF RightsInv, ShownEligible, SourceOfOffer
<1> QED
  BY <1>2, <1>3, <1>4 DEF RightsInv

(* It begins with nothing to show. *)
LEMMA BeginStep ==
  ASSUME RightsInv, NEW s \in OfferSource, BeginReconcile(s)
  PROVE  RightsInv'
<1> DEFINE page == PageFrom(cursor[s].expiry, Expirable(s, time))
           mine == [NoJob EXCEPT !.phase = "expiry", !.at = time, !.page = page, !.swept = page]
<1>1. page \in SUBSET Candidate
  <2>1. Expirable(s, time) \subseteq Candidate
    BY DEF Expirable
  <2> QED
    BY <2>1, PageIsPart
<1>2. job' = [job EXCEPT ![s] = mine]
  BY DEF BeginReconcile
<1>3. mine \in Job /\ mine.phase = "expiry"
  BY <1>1 DEF NoJob, Job, RightsInv, Shape
<1>4. Shape'
  BY <1>2, <1>3 DEF RightsInv, Shape, BeginReconcile
<1>5. job'[s] = mine /\ \A t \in OfferSource \ {s} : job'[t] = job[t]
  BY <1>2 DEF RightsInv, Shape
<1> QED
  BY <1>3, <1>4, <1>5, RunStep DEF BeginReconcile

(* It turns to what it may publish: a page of its own source. *)
LEMMA WithdrawStep ==
  ASSUME RightsInv, NEW s \in OfferSource, Withdraw(s)
  PROVE  RightsInv'
<1> DEFINE page == IF SourceCurrent(s)
                   THEN PageFrom(cursor[s].publication, Publishable(s, job[s].at)) ELSE {}
           gone == job[s].page \ Visible(offer, job[s].at, job[s].late)
           mine == [job[s] EXCEPT !.withdrawn = gone, !.phase = "publication", !.page = page]
<1>1. page \in SUBSET Candidate /\ \A c \in page : SourceOfOffer(c) = s
  <2>1. Publishable(s, job[s].at) \subseteq {c \in Candidate : SourceOfOffer(c) = s}
    BY DEF Publishable
  <2> QED
    BY <2>1, PageIsPart
<1>2. job[s] \in Job
  BY DEF RightsInv, Shape
<1>3. mine \in Job /\ mine.phase = "publication" /\ mine.page = page
  BY <1>1, <1>2 DEF Job
<1>4. job' = [job EXCEPT ![s] = mine]
  BY <1>2 DEF Withdraw
<1>5. Shape'
  BY <1>3, <1>4 DEF RightsInv, Shape, Withdraw
<1>6. job'[s] = mine /\ \A t \in OfferSource \ {s} : job'[t] = job[t]
  BY <1>4 DEF RightsInv, Shape
<1>7. UNCHANGED <<rights, evidence, review>>
  BY DEF Withdraw
<1> HIDE DEF mine, page
<1> QED
  BY <1>1, <1>3, <1>5, <1>6, <1>7, RunStep

(* What it keeps is what the projection returned for its page. *)
LEMMA PublishStep ==
  ASSUME RightsInv, NEW s \in OfferSource, Publish(s)
  PROVE  RightsInv'
<1> DEFINE page == job[s].page
           tentative == [c \in Candidate |-> IF c \in page THEN "published" ELSE View(s)[c]]
           kept == page \cap Visible(tentative, time, LateForPublish(s))
           mine == [job[s] EXCEPT !.phase = "complete", !.shown = kept, !.basis = changes,
                                  !.withdrawn = job[s].withdrawn \cup (page \ kept)]
           other(t) == IF job[t].phase = "idle" THEN job[t]
                       ELSE [job[t] EXCEPT !.late = job[t].late \cup page]
<1>1. \A t \in OfferSource : job[t] \in Job
  BY DEF RightsInv, Shape
<1>2. page \in SUBSET Candidate /\ \A c \in page : SourceOfOffer(c) = s
  BY <1>1 DEF Job, RightsInv, PagesAreOwn, Publish
<1>3. kept \in SUBSET Candidate /\ \A c \in kept : SourceOfOffer(c) = s /\ Eligible(c)
  BY <1>2, VisibleIsEligible
<1>4. /\ mine \in Job
      /\ mine.page = page /\ mine.shown = kept
  <2>1. changes \in Nat
    BY DEF RightsInv, Shape
  <2>2. job[s].withdrawn \cup (page \ kept) \in SUBSET Candidate
    BY <1>1, <1>2 DEF Job
  <2> HIDE DEF page, kept
  <2> QED
    BY <1>1, <1>3, <2>1, <2>2 DEF Job, page
<1>5. ASSUME NEW t \in OfferSource
      PROVE  /\ other(t) \in Job
             /\ other(t).phase = job[t].phase
             /\ other(t).page = job[t].page /\ other(t).shown = job[t].shown
  BY <1>1, <1>2 DEF Job
<1>6. job' = [t \in OfferSource |-> IF t = s THEN mine ELSE other(t)]
  BY DEF Publish
<1>7. job'[s] = mine /\ \A t \in OfferSource \ {s} : job'[t] = other(t)
  BY <1>6
<1>8. Shape'
  <2> HIDE DEF mine, other
  <2>1. job' \in [OfferSource -> Job]
    BY <1>4, <1>5, <1>6
  <2> QED
    BY <2>1 DEF RightsInv, Shape, Publish
<1>9. \A t \in OfferSource \ {s} :
        /\ job'[t].phase = job[t].phase
        /\ job'[t].page = job[t].page /\ job'[t].shown = job[t].shown
  <2> HIDE DEF other
  <2> QED
    BY <1>5, <1>7
<1>10. /\ \A c \in job'[s].page : SourceOfOffer(c) = s
       /\ \A c \in job'[s].shown : SourceOfOffer(c) = s /\ Eligible(c)
  <2> HIDE DEF mine, kept, page
  <2> QED
    BY <1>2, <1>3, <1>4, <1>7
<1> QED
  BY <1>8, <1>9, <1>10, RunStep DEF Publish

(* It ends, with a commit or without. *)
LEMMA EndStep ==
  ASSUME RightsInv, NEW s \in OfferSource, CommitReconcile(s) \/ AbortReconcile(s)
  PROVE  RightsInv'
<1>1. NoJob \in Job /\ NoJob.phase = "idle"
  BY DEF NoJob, Job
<1>2. /\ job' = [job EXCEPT ![s] = NoJob]
      /\ UNCHANGED <<time, changes, rights, evidence, review>>
  BY DEF CommitReconcile, AbortReconcile
<1>3. offer' \in [Candidate -> Status]
  <2>1. CASE CommitReconcile(s)
    BY <2>1 DEF CommitReconcile, View, RightsInv, Shape, Status
  <2>2. CASE AbortReconcile(s)
    BY <2>2 DEF AbortReconcile, RightsInv, Shape
  <2> QED
    BY <2>1, <2>2
<1>4. Shape'
  BY <1>1, <1>2, <1>3 DEF RightsInv, Shape
<1>5. job'[s] = NoJob /\ \A t \in OfferSource \ {s} : job'[t] = job[t]
  BY <1>2 DEF RightsInv, Shape
<1> QED
  BY <1>1, <1>2, <1>4, <1>5, RunStep

(* A lock, the clock, or nothing at all. *)
LEMMA QuietStep ==
  ASSUME RightsInv, UNCHANGED <<rights, evidence, review, job, offer, changes>>, time' \in Nat
  PROVE  RightsInv'
<1>1. Shape'
  BY DEF RightsInv, Shape
<1>2. \A c \in Candidate : Eligible(c)' <=> Eligible(c)
  BY EligibleStays
<1>3. \A s \in OfferSource : job[s].shown \subseteq Candidate
  BY DEF RightsInv, Shape, Job
<1> QED
  BY <1>1, <1>2, <1>3 DEF RightsInv, ApprovalsEligible, PagesAreOwn, ShownEligible, SourceOfOffer

(* The inductive invariant. *)
THEOREM RightsInvariance == PublicationSpec => []RightsInv
<1>1. RightsInv /\ [PublicationNext]_publicationVars => RightsInv'
  <2> SUFFICES ASSUME RightsInv, [PublicationNext]_publicationVars
               PROVE  RightsInv'
    OBVIOUS
  <2> USE DEF RightsInv, Shape
  <2>1. CASE NextSlot
    BY <2>1, QuietStep DEF NextSlot
  <2>2. ASSUME NEW s \in OfferSource, ChangeRights(s)
        PROVE  RightsInv'
    BY <2>2, RightsChange
  <2>3. ASSUME NEW s \in OfferSource, BeginReconcile(s)
        PROVE  RightsInv'
    BY <2>3, BeginStep
  <2>4. ASSUME NEW s \in OfferSource, LockProduct(s)
        PROVE  RightsInv'
    BY <2>4, QuietStep DEF LockProduct
  <2>5. ASSUME NEW s \in OfferSource, Withdraw(s)
        PROVE  RightsInv'
    BY <2>5, WithdrawStep
  <2>6. ASSUME NEW s \in OfferSource, Publish(s)
        PROVE  RightsInv'
    BY <2>6, PublishStep
  <2>7. ASSUME NEW s \in OfferSource, CommitReconcile(s) \/ AbortReconcile(s)
        PROVE  RightsInv'
    BY <2>7, EndStep
  <2>8. ASSUME NEW c \in Candidate, Extract(c)
        PROVE  RightsInv'
    BY <2>8, EvidenceChange
  <2>9. ASSUME NEW c \in Candidate,
               \/ RenderEvidence(c) \/ ProofExpires(c) \/ Reject(c)
               \/ BeginApproval(c) \/ CommitApproval(c) \/ AbortApproval(c)
        PROVE  RightsInv'
    BY <2>9, ReviewStep
  <2>10. CASE UNCHANGED publicationVars
    BY <2>10, QuietStep DEF publicationVars
  <2> HIDE DEF RightsInv, Shape
  <2> QED
    BY <2>1, <2>2, <2>3, <2>4, <2>5, <2>6, <2>7, <2>8, <2>9, <2>10 DEF PublicationNext
<1> QED
  BY <1>1, InitRights, PTL DEF PublicationSpec

(* The rights recheck "cannot race a revocation" (021:534): whatever is
   approved or published is eligible in the state the commit starts from. *)
THEOREM RightsAtCommit == PublicationSpec => RightsHoldAtCommit
<1> DEFINE Committed(c) == offer'[c] # offer[c] /\ offer'[c] \in {"approved", "published"}
<1>1. RightsInv /\ [PublicationNext]_publicationVars
        => [\A c \in Candidate :
              offer'[c] # offer[c] /\ offer'[c] \in {"approved", "published"} => Eligible(c)]_publicationVars
  <2> SUFFICES ASSUME RightsInv, PublicationNext, NEW c \in Candidate, Committed(c)
               PROVE  Eligible(c)
    BY DEF publicationVars
  <2>1. ASSUME NEW d \in Candidate, CommitApproval(d)
        PROVE  Eligible(c)
    <3>1. c = d /\ review[d] = "approving"
      BY <2>1 DEF CommitApproval, RightsInv, Shape
    <3> QED
      BY <3>1 DEF RightsInv, ApprovalsEligible
  <2>2. ASSUME NEW s \in OfferSource, CommitReconcile(s)
        PROVE  Eligible(c)
    <3>1. c \in job[s].shown
      BY <2>2 DEF CommitReconcile, View
    <3> QED
      BY <2>2, <3>1 DEF CommitReconcile, RightsInv, ShownEligible
  <2>3. offer' # offer
    OBVIOUS
  <2> QED
    BY <2>1, <2>2, <2>3 DEF PublicationNext, NextSlot, ChangeRights, BeginReconcile, LockProduct,
       Withdraw, Publish, AbortReconcile, Extract, RenderEvidence, ProofExpires, Reject,
       BeginApproval, AbortApproval
<1> QED
  BY <1>1, RightsInvariance, PTL DEF PublicationSpec, RightsHoldAtCommit

-----------------------------------------------------------------------------
(* The runs themselves. *)

(* What a run has taken to examine: published offers that have begun, and
   approved ones that have ended or may not be shown. *)
Expiring(s, c) ==
  \/ offer[c] = "published" /\ About[c].starts <= job[s].at
  \/ offer[c] = "approved" /\ (About[c].ends <= job[s].at \/ ~Eligible(c))

(* The page of a run is decided and its own, and what came late is not. *)
PageKnown(s) ==
  /\ \A c \in job[s].page \cup job[s].withdrawn : SourceOfOffer(c) = s /\ review[c] = "decided"
  /\ \A c \in job[s].late : SourceOfOffer(c) # s
  /\ job[s].phase = "expiry" => \A c \in job[s].page : Expiring(s, c)
  /\ job[s].phase \in {"publication", "complete"} =>
       \A c \in job[s].page : About[c].starts <= job[s].at

(* A run proceeds in order, under the lock of its source. *)
RunInOrder(s) ==
  /\ job[s].at <= time /\ job[s].basis <= changes
  /\ job[s].shown \subseteq job[s].page
  /\ job[s].phase # "complete" => job[s].shown = {}
  /\ job[s].phase \in {"idle", "expiry"} => job[s].withdrawn = {}
  /\ job[s].phase = "idle" => job[s].late = {} /\ job[s].page = {}
  /\ job[s].phase # "idle" => \A c \in Candidate : SourceOfOffer(c) = s => review[c] # "approving"

(* It examines the first page of what could expire when it began. *)
SweepsPage(s) ==
  job[s].phase # "idle" =>
    job[s].swept = PageFrom(cursor[s].expiry, Expirable(s, job[s].at))

(* It holds the products of all that it withdraws or shows. *)
ProductsHeld(s) ==
  /\ \A c \in job[s].withdrawn : holder[ProductOf(c)] = s
  /\ job[s].phase = "complete" => \A c \in job[s].page : holder[ProductOf(c)] = s

(* It withdraws for good what may be withdrawn, and nothing else. *)
WithdrawsForGood(s) ==
  \A c \in job[s].withdrawn : About[c].before => Withdrawable(c)

(* With what it shows, a product has no more visible offers than the cap. *)
WithinCap(s) ==
  job[s].phase = "complete" /\ job[s].basis = changes =>
    \A c \in job[s].shown : Cardinality(Projection(View(s), ProductOf(c), time, {})) <= VisibleCap

RunInv(s) ==
  /\ PageKnown(s) /\ RunInOrder(s) /\ SweepsPage(s)
  /\ ProductsHeld(s) /\ WithdrawsForGood(s) /\ WithinCap(s)

Bookkeeping ==
  /\ holder \in [OfferProduct -> OfferSource \cup {Nobody}]
  /\ cursor \in [OfferSource -> [expiry : Nat, publication : Nat]]
  /\ passed \in [Candidate -> Nat]

(* An offer has been decided on, and a published one has begun. *)
OffersKnown ==
  \A c \in Candidate : /\ offer[c] # "none" => review[c] = "decided"
                       /\ offer[c] = "published" => About[c].starts <= time

LifecycleInv == Bookkeeping /\ OffersKnown /\ \A s \in OfferSource : RunInv(s)

(* The offers of the source of c that a run would examine before c. *)
SameSource(c) == {d \in Candidate : SourceOfOffer(d) = SourceOfOffer(c)}
Ahead(from, c) == {d \in SameSource(c) \ {c} : Before(from, d, c)}

(* Every completed run that passes c over has examined a page of those
   before it, and they come after it from then on. *)
Ranked ==
  \A c \in Candidate :
    passed[c] * BatchLimit + Cardinality(Ahead(cursor[SourceOfOffer(c)].expiry, c))
      < Cardinality(SameSource(c))

-----------------------------------------------------------------------------
(* What a step leaves as it is for the run of a source that does not take
   it: its record, but for what came late; its offers and rights while it
   runs; its products, and what is published of them. *)
RecordKept(s) ==
  /\ job'[s].phase = job[s].phase /\ job'[s].at = job[s].at /\ job'[s].page = job[s].page
  /\ job'[s].swept = job[s].swept /\ job'[s].withdrawn = job[s].withdrawn
  /\ job'[s].shown = job[s].shown /\ job'[s].basis = job[s].basis
  /\ job[s].phase = "idle" => job'[s].late = job[s].late
  /\ \A c \in job'[s].late : c \in job[s].late \/ SourceOfOffer(c) # s
  /\ cursor'[s] = cursor[s]

SourceKept(s) ==
  job[s].phase # "idle" =>
    /\ rights'[s] = rights[s]
    /\ \A c \in Candidate : SourceOfOffer(c) = s =>
         /\ offer'[c] = offer[c] /\ review'[c] # "approving"
         /\ Eligible(c)' <=> Eligible(c)

ProductsKept(s) ==
  /\ \A p \in OfferProduct : holder[p] = s => holder'[p] = s
  /\ \A c \in Candidate : holder[ProductOf(c)] = s =>
       (offer'[c] = "published" <=> offer[c] = "published")

Onward ==
  /\ time <= time' /\ changes <= changes'
  /\ \A c \in Candidate : review[c] = "decided" => review'[c] = "decided"
  /\ changes' = changes =>
       \A c \in Candidate : review[c] = "decided" /\ Eligible(c)' => Eligible(c)

(* What a run has seen still holds after such a step. *)
LEMMA RunUndisturbed ==
  ASSUME RightsInv, RightsInv', LifecycleInv, NEW s \in OfferSource,
         RecordKept(s), SourceKept(s), ProductsKept(s), Onward
  PROVE  RunInv(s)'
<1>1. job[s] \in Job /\ job'[s] \in Job
  BY DEF RightsInv, Shape
<1>2. /\ job[s].page \subseteq Candidate /\ job[s].withdrawn \subseteq Candidate
      /\ job[s].shown \subseteq Candidate /\ job'[s].late \subseteq Candidate
      /\ job[s].at \in Nat /\ job[s].basis \in Nat
  BY <1>1 DEF Job
<1>3. /\ time \in Nat /\ time' \in Nat /\ changes \in Nat /\ changes' \in Nat
  BY DEF RightsInv, Shape
<1>4. RunInv(s)
  BY DEF LifecycleInv
<1>5. \A c \in Candidate : ProductOf(c) \in OfferProduct
  BY DEF OfferProduct
<1>6. PageKnown(s)'
  <2>1. PageKnown(s)
    BY <1>4 DEF RunInv
  <2>2. job[s].phase = "expiry" => \A c \in job[s].page : Expiring(s, c)'
    BY <1>2, <2>1 DEF PageKnown, Expiring, RecordKept, SourceKept
  <2> QED
    BY <1>2, <2>1, <2>2 DEF PageKnown, RecordKept, Onward, SourceOfOffer
<1>7. RunInOrder(s)'
  <2>1. RunInOrder(s)
    BY <1>4 DEF RunInv
  <2>2. job'[s].at <= time' /\ job'[s].basis <= changes'
    BY <1>2, <1>3, <2>1 DEF RunInOrder, RecordKept, Onward
  <2> QED
    BY <2>1, <2>2 DEF RunInOrder, RecordKept, SourceKept, SourceOfOffer
<1>8. SweepsPage(s)'
  <2> SUFFICES ASSUME job[s].phase # "idle"
               PROVE  job[s].swept = PageFrom(cursor'[s].expiry, Expirable(s, job[s].at)')
    BY DEF SweepsPage, RecordKept, PageFrom, Before, Expirable
  <2>1. Expirable(s, job[s].at)' = Expirable(s, job[s].at)
    BY DEF RecordKept, SourceKept, Expirable, IsRevoked, SourceOfOffer
  <2> QED
    BY <1>4, <2>1 DEF RunInv, SweepsPage, RecordKept
<1>9. ProductsHeld(s)'
  BY <1>2, <1>4, <1>5 DEF RunInv, ProductsHeld, RecordKept, ProductsKept, ProductOf
<1>10. WithdrawsForGood(s)'
  <2> SUFFICES ASSUME NEW c \in job[s].withdrawn, About[c].before
               PROVE  Withdrawable(c)'
    BY DEF WithdrawsForGood, RecordKept
  <2>1. c \in Candidate /\ SourceOfOffer(c) = s /\ holder[ProductOf(c)] = s
    BY <1>2, <1>4 DEF RunInv, PageKnown, ProductsHeld
  <2>2. job[s].phase # "idle"
    BY <1>4 DEF RunInv, RunInOrder
  <2>3. Crowd(c)' = Crowd(c)
    BY <2>1 DEF Crowd, RecordKept, ProductsKept, ProductOf, SourceOfOffer
  <2>4. Withdrawable(c)
    BY <1>4 DEF RunInv, WithdrawsForGood
  <2>5. About[c].ends <= time => About[c].ends <= time'
    BY <1>3, <2>1, PublicationAssumption DEF Onward
  <2>6. Eligible(c)' <=> Eligible(c)
    BY <2>1, <2>2 DEF SourceKept
  <2> QED
    BY <2>3, <2>4, <2>5, <2>6 DEF Withdrawable
<1>11. WithinCap(s)'
  <2> SUFFICES ASSUME job[s].phase = "complete", job[s].basis = changes', NEW c \in job[s].shown
               PROVE  Cardinality(Projection(View(s), ProductOf(c), time, {}))' <= VisibleCap
    BY DEF WithinCap, RecordKept, ProductOf
  <2> DEFINE before == Projection(View(s), ProductOf(c), time, {})
  <2>1. changes' = changes /\ job[s].basis = changes
    BY <1>2, <1>3, <1>4 DEF RunInv, RunInOrder, Onward
  <2>2. c \in Candidate /\ holder[ProductOf(c)] = s
    BY <1>2, <1>4 DEF RunInv, RunInOrder, ProductsHeld
  <2>3. ASSUME NEW d \in Candidate, d \in Projection(View(s), ProductOf(c), time, {})'
        PROVE  d \in before
    <3>1. /\ ProductOf(d) = ProductOf(c) /\ View(s)'[d] = "published"
          /\ About[d].ends > time' /\ Eligible(d)' /\ About[d].before
      BY <2>3 DEF Projection, ProductOf
    <3>2. d \notin job[s].withdrawn /\ (d \in job[s].shown \/ offer'[d] = "published")
      BY <3>1 DEF View, RecordKept
    <3>3. d \in job[s].shown \/ offer[d] = "published"
      BY <2>2, <3>1, <3>2 DEF ProductsKept
    <3>4. View(s)[d] = "published"
      BY <3>2, <3>3 DEF View
    <3>5. review[d] = "decided" /\ About[d].starts <= time
      <4>1. CASE d \in job[s].shown
        <5>1. d \in job[s].page
          BY <1>4, <4>1 DEF RunInv, RunInOrder
        <5>2. About[d].starts <= job[s].at /\ job[s].at <= time /\ review[d] = "decided"
          BY <1>4, <5>1 DEF RunInv, RunInOrder, PageKnown
        <5> QED
          BY <1>2, <1>3, <5>2, PublicationAssumption
      <4>2. CASE offer[d] = "published"
        BY <4>2 DEF LifecycleInv, OffersKnown
      <4> QED
        BY <3>3, <4>1, <4>2
    <3>6. Eligible(d)
      BY <2>1, <3>1, <3>5 DEF Onward
    <3>7. About[d].ends > time
      BY <1>3, <3>1, PublicationAssumption DEF Onward
    <3> QED
      BY <3>1, <3>4, <3>5, <3>6, <3>7 DEF Projection
  <2>4. IsFiniteSet(before) /\ Cardinality(before) \in Nat /\ Cardinality(before) <= VisibleCap
    <3>1. before \subseteq Candidate
      BY DEF Projection
    <3>2. IsFiniteSet(before)
      BY <3>1, FS_Subset, PublicationAssumption
    <3>3. Cardinality(before) <= VisibleCap
      BY <1>4, <2>1 DEF RunInv, WithinCap
    <3> QED
      BY <3>2, <3>3, FS_CardinalityType
  <2>5. Projection(View(s), ProductOf(c), time, {})' \subseteq before
    BY <2>3 DEF Projection
  <2> HIDE DEF before
  <2>6. /\ Cardinality(Projection(View(s), ProductOf(c), time, {})') <= Cardinality(before)
        /\ IsFiniteSet(Projection(View(s), ProductOf(c), time, {})')
    BY <2>4, <2>5, FS_Subset
  <2>7. Cardinality(Projection(View(s), ProductOf(c), time, {})') \in Nat
    BY <2>6, FS_CardinalityType
  <2> QED
    BY <2>4, <2>6, <2>7, PublicationAssumption
<1> QED
  BY <1>6, <1>7, <1>8, <1>9, <1>10, <1>11 DEF RunInv

(* The rights of a source and the evidence of a candidate decide whether it
   is eligible. *)
LEMMA EligibleKept ==
  ASSUME NEW c \in Candidate, rights'[SourceOfOffer(c)] = rights[SourceOfOffer(c)],
         evidence'[c] = evidence[c]
  PROVE  Eligible(c)' <=> Eligible(c)
BY DEF Eligible, SourceCurrent, SourceOfOffer

(* A step that changes neither runs, locks, cursors nor offers, and no
   rights or evidence: the clock, and the steps of a review that approve
   nothing yet. *)
LEMMA RestUndisturbed ==
  ASSUME RightsInv, RightsInv', LifecycleInv, NEW s \in OfferSource,
         job'[s] = job[s], cursor'[s] = cursor[s], rights' = rights, evidence' = evidence,
         UNCHANGED changes, time <= time', ProductsKept(s),
         \A c \in Candidate : review[c] = "decided" => review'[c] = "decided",
         job[s].phase # "idle" => \A c \in Candidate : SourceOfOffer(c) = s =>
           offer'[c] = offer[c] /\ review'[c] # "approving"
  PROVE  RunInv(s)'
<1>1. \A c \in Candidate : Eligible(c)' <=> Eligible(c)
  BY EligibleStays
<1>2. changes \in Nat
  BY DEF RightsInv, Shape
<1>3. RecordKept(s)
  BY DEF RecordKept
<1>4. SourceKept(s)
  BY <1>1 DEF SourceKept
<1>5. Onward
  BY <1>1, <1>2 DEF Onward
<1> QED
  BY <1>3, <1>4, <1>5, RunUndisturbed

(* The clock: what had ended still has, and no offer has yet to begin. *)
LEMMA LifecycleClock ==
  ASSUME RightsInv, RightsInv', LifecycleInv, NextSlot
  PROVE  LifecycleInv'
<1>1. time \in Nat /\ time' = time + 1
  BY DEF RightsInv, Shape, NextSlot
<1>2. OffersKnown'
  <2> SUFFICES ASSUME NEW c \in Candidate
               PROVE  /\ offer[c] # "none" => review[c] = "decided"
                      /\ offer[c] = "published" => About[c].starts <= time'
    BY DEF OffersKnown, NextSlot
  <2> QED
    BY <1>1, PublicationAssumption DEF LifecycleInv, OffersKnown
<1>3. ASSUME NEW s \in OfferSource
      PROVE  RunInv(s)'
  <2>1. ProductsKept(s)
    BY DEF ProductsKept, NextSlot
  <2>2. RunInOrder(s)
    BY DEF LifecycleInv, RunInv
  <2> QED
    BY <1>1, <2>1, <2>2, RestUndisturbed DEF NextSlot, RunInOrder
<1>4. Bookkeeping'
  BY DEF LifecycleInv, Bookkeeping, NextSlot
<1> QED
  BY <1>2, <1>3, <1>4 DEF LifecycleInv

(* A decision about rights waits for the run of its source, and what
   another run has counted no longer has to hold after it. *)
LEMMA LifecycleRights ==
  ASSUME RightsInv, RightsInv', LifecycleInv, NEW r \in OfferSource, ChangeRights(r)
  PROVE  LifecycleInv'
<1>1. changes \in Nat /\ changes' = changes + 1 /\ time' = time /\ time \in Nat
  BY DEF RightsInv, Shape, ChangeRights
<1>2. OffersKnown' /\ Bookkeeping'
  BY DEF LifecycleInv, OffersKnown, Bookkeeping, ChangeRights
<1>3. ASSUME NEW s \in OfferSource
      PROVE  RunInv(s)'
  <2>1. job[s].phase # "idle" => s # r
    BY DEF ChangeRights, SourceLockFree
  <2>2. s # r => rights'[s] = rights[s]
    BY DEF ChangeRights, RightsInv, Shape
  <2>3. SourceKept(s)
    <3> SUFFICES ASSUME job[s].phase # "idle"
                 PROVE  /\ rights'[s] = rights[s]
                        /\ \A c \in Candidate : SourceOfOffer(c) = s =>
                             /\ offer'[c] = offer[c] /\ review'[c] # "approving"
                             /\ Eligible(c)' <=> Eligible(c)
      BY DEF SourceKept
    <3>1. RunInOrder(s)
      BY DEF LifecycleInv, RunInv
    <3> QED
      BY <2>1, <2>2, <3>1, EligibleKept DEF ChangeRights, RunInOrder
  <2>4. RecordKept(s) /\ ProductsKept(s)
    BY DEF RecordKept, ProductsKept, ChangeRights
  <2>5. Onward
    BY <1>1 DEF Onward, ChangeRights
  <2> QED
    BY <2>3, <2>4, <2>5, RunUndisturbed
<1> QED
  BY <1>2, <1>3 DEF LifecycleInv

(* Evidence is captured for a candidate that no run knows. *)
LEMMA LifecycleExtract ==
  ASSUME RightsInv, RightsInv', LifecycleInv, NEW d \in Candidate, Extract(d)
  PROVE  LifecycleInv'
<1>1. /\ changes \in Nat /\ time \in Nat
      /\ \A c \in Candidate : c # d => evidence'[c] = evidence[c] /\ review'[c] = review[c]
      /\ review[d] = "none" /\ review'[d] = "open"
  BY DEF RightsInv, Shape, Extract
<1>2. OffersKnown'
  BY <1>1 DEF LifecycleInv, OffersKnown, Extract
<1>3. Bookkeeping'
  BY DEF LifecycleInv, Bookkeeping, Extract
<1>4. \A c \in Candidate : c # d => (Eligible(c)' <=> Eligible(c))
  BY <1>1, EligibleKept DEF Extract
<1>5. ASSUME NEW s \in OfferSource
      PROVE  RunInv(s)'
  <2>1. RunInOrder(s)
    BY DEF LifecycleInv, RunInv
  <2>2. job[s].phase # "idle" => SourceOfOffer(d) # s
    BY DEF Extract, SourceLockFree
  <2>3. SourceKept(s)
    BY <1>1, <1>4, <2>1, <2>2 DEF SourceKept, Extract, RunInOrder
  <2>4. RecordKept(s) /\ ProductsKept(s)
    BY DEF RecordKept, ProductsKept, Extract
  <2>5. Onward
    BY <1>1, <1>4 DEF Onward, Extract
  <2> QED
    BY <2>3, <2>4, <2>5, RunUndisturbed
<1> QED
  BY <1>2, <1>3, <1>5 DEF LifecycleInv

(* A decision approves an offer of a source that has no run under way. *)
LEMMA LifecycleReview ==
  ASSUME RightsInv, RightsInv', LifecycleInv, NEW d \in Candidate,
         \/ RenderEvidence(d) \/ ProofExpires(d) \/ Reject(d)
         \/ BeginApproval(d) \/ CommitApproval(d) \/ AbortApproval(d)
  PROVE  LifecycleInv'
<1>0. /\ \A c \in Candidate : review[c] \in Stages /\ offer[c] \in Status
      /\ review \in [Candidate -> Stages] /\ offer \in [Candidate -> Status] /\ time \in Nat
  BY DEF RightsInv, Shape
<1>1. /\ UNCHANGED <<time, rights, changes, evidence, job, holder, cursor, passed>>
      /\ \A c \in Candidate : c # d => review'[c] = review[c] /\ offer'[c] = offer[c]
      /\ review[d] # "decided"
      /\ review'[d] = "approving" => SourceLockFree(SourceOfOffer(d))
      /\ \/ offer'[d] = offer[d]
         \/ review[d] = "approving" /\ review'[d] = "decided" /\ offer'[d] = "approved"
  BY <1>0 DEF RenderEvidence, ProofExpires, Reject, BeginApproval, CommitApproval, AbortApproval
<1>2. offer[d] = "none"
  BY <1>1 DEF LifecycleInv, OffersKnown
<1>3. OffersKnown'
  BY <1>1, <1>2 DEF LifecycleInv, OffersKnown
<1>4. Bookkeeping'
  BY <1>1 DEF LifecycleInv, Bookkeeping
<1>5. ASSUME NEW s \in OfferSource
      PROVE  RunInv(s)'
  <2>1. RunInOrder(s)
    BY DEF LifecycleInv, RunInv
  <2>2. ProductsKept(s)
    BY <1>1, <1>2 DEF ProductsKept
  <2>3. ASSUME job[s].phase # "idle", NEW c \in Candidate, SourceOfOffer(c) = s
        PROVE  offer'[c] = offer[c] /\ review'[c] # "approving"
    <3>1. review[c] # "approving"
      BY <2>1, <2>3 DEF RunInOrder
    <3>2. c = d => review'[d] # "approving"
      BY <1>1, <2>3 DEF SourceLockFree
    <3> QED
      BY <1>1, <3>1, <3>2
  <2>4. \A c \in Candidate : review[c] = "decided" => review'[c] = "decided"
    BY <1>1
  <2> QED
    BY <1>0, <1>1, <2>2, <2>3, <2>4, RestUndisturbed
<1> QED
  BY <1>3, <1>4, <1>5 DEF LifecycleInv

(* A run locks only what nobody holds. *)
LEMMA LifecycleLock ==
  ASSUME RightsInv, RightsInv', LifecycleInv, NEW r \in OfferSource, LockProduct(r)
  PROVE  LifecycleInv'
<1>1. PICK p \in Waiting(r) : holder[p] = Nobody /\ holder' = [holder EXCEPT ![p] = r]
  BY DEF LockProduct
<1>2. OffersKnown' /\ Bookkeeping'
  BY <1>1 DEF LifecycleInv, OffersKnown, Bookkeeping, LockProduct
<1>3. ASSUME NEW s \in OfferSource
      PROVE  RunInv(s)'
  <2>1. RunInOrder(s)
    BY DEF LifecycleInv, RunInv
  <2>2. s # Nobody
    BY PublicationAssumption
  <2>3. ProductsKept(s)
    BY <1>1, <2>2 DEF ProductsKept, LockProduct, LifecycleInv, Bookkeeping
  <2>4. time \in Nat
    BY DEF RightsInv, Shape
  <2> QED
    BY <2>1, <2>3, <2>4, RestUndisturbed DEF LockProduct, RunInOrder
<1> QED
  BY <1>2, <1>3 DEF LifecycleInv

(* A run begins with a page of what it may expire. *)
LEMMA LifecycleBegin ==
  ASSUME RightsInv, RightsInv', LifecycleInv, NEW r \in OfferSource, BeginReconcile(r)
  PROVE  LifecycleInv'
<1> DEFINE page == PageFrom(cursor[r].expiry, Expirable(r, time))
           mine == [NoJob EXCEPT !.phase = "expiry", !.at = time, !.page = page, !.swept = page]
<1>1. /\ time \in Nat /\ changes \in Nat /\ job \in [OfferSource -> Job]
      /\ \A c \in Candidate : offer[c] \in Status
  BY DEF RightsInv, Shape
<1>2. job'[r] = mine /\ \A t \in OfferSource \ {r} : job'[t] = job[t]
  BY <1>1 DEF BeginReconcile
<1>3. /\ mine.phase = "expiry" /\ mine.at = time /\ mine.page = page /\ mine.swept = page
      /\ mine.late = {} /\ mine.withdrawn = {} /\ mine.shown = {} /\ mine.basis = 0
  BY DEF NoJob
<1>4. UNCHANGED <<time, rights, changes, evidence, review, offer, cursor, holder, passed>>
  BY DEF BeginReconcile
<1>5. OffersKnown' /\ Bookkeeping'
  BY <1>4 DEF LifecycleInv, OffersKnown, Bookkeeping
<1>6. page \subseteq Expirable(r, time)
  BY PageIsPart
<1>7. /\ job'[r].phase = "expiry" /\ job'[r].at = time /\ job'[r].page = page
      /\ job'[r].swept = page /\ job'[r].late = {} /\ job'[r].withdrawn = {}
      /\ job'[r].shown = {} /\ job'[r].basis = 0
  <2> HIDE DEF mine, page
  <2> QED
    BY <1>2, <1>3
<1> HIDE DEF mine, page
<1>8. RunInv(r)'
  <2>1. ASSUME NEW c \in page
        PROVE  /\ SourceOfOffer(c) = r /\ review[c] = "decided"
               /\ \/ offer[c] = "published" /\ About[c].starts <= time
                  \/ offer[c] = "approved" /\ (About[c].ends <= time \/ ~Eligible(c))
    <3>1. /\ c \in Candidate /\ SourceOfOffer(c) = r
          /\ \/ offer[c] = "published"
             \/ offer[c] = "approved" /\ (About[c].ends <= time \/ IsRevoked(r))
      BY <1>6 DEF Expirable
    <3>2. review[c] = "decided" /\ (offer[c] = "published" => About[c].starts <= time)
      BY <3>1 DEF LifecycleInv, OffersKnown
    <3>3. IsRevoked(r) => ~Eligible(c)
      BY <3>1 DEF IsRevoked, Eligible, SourceCurrent
    <3> QED
      BY <3>1, <3>2, <3>3
  <2>2. PageKnown(r)'
    <3>1. \A c \in page : Eligible(c)' <=> Eligible(c)
      BY <1>4, <1>6, EligibleStays DEF Expirable
    <3> QED
      BY <1>4, <1>7, <2>1, <3>1 DEF PageKnown, Expiring, SourceOfOffer
  <2>3. RunInOrder(r)'
    BY <1>1, <1>4, <1>7 DEF RunInOrder, BeginReconcile, SourceLockFree, SourceOfOffer
  <2>4. SweepsPage(r)'
    <3>1. Expirable(r, time)' = Expirable(r, time)
      BY <1>4 DEF Expirable, IsRevoked, SourceOfOffer
    <3>2. Expirable(r, job[r].at)' = Expirable(r, time)'
      BY <1>4, <1>7 DEF Expirable
    <3> QED
      BY <1>4, <1>7, <3>1, <3>2 DEF SweepsPage, page
  <2>5. ProductsHeld(r)' /\ WithdrawsForGood(r)' /\ WithinCap(r)'
    BY <1>7 DEF ProductsHeld, WithdrawsForGood, WithinCap
  <2> QED
    BY <2>2, <2>3, <2>4, <2>5 DEF RunInv
<1>9. ASSUME NEW s \in OfferSource, s # r
      PROVE  RunInv(s)'
  <2>1. RunInOrder(s)
    BY DEF LifecycleInv, RunInv
  <2>2. ProductsKept(s)
    BY <1>4 DEF ProductsKept
  <2> QED
    BY <1>1, <1>2, <1>4, <1>9, <2>1, <2>2, RestUndisturbed DEF RunInOrder
<1> QED
  BY <1>5, <1>8, <1>9 DEF LifecycleInv

(* It withdraws what the projection as of its start does not return, and
   turns to what it may publish. *)
LEMMA LifecycleWithdraw ==
  ASSUME RightsInv, RightsInv', LifecycleInv, NEW r \in OfferSource, Withdraw(r)
  PROVE  LifecycleInv'
<1> DEFINE page == IF SourceCurrent(r)
                   THEN PageFrom(cursor[r].publication, Publishable(r, job[r].at)) ELSE {}
           gone == job[r].page \ Visible(offer, job[r].at, job[r].late)
           mine == [job[r] EXCEPT !.withdrawn = gone, !.phase = "publication", !.page = page]
<1>1. /\ time \in Nat /\ changes \in Nat /\ job \in [OfferSource -> Job] /\ job[r] \in Job
      /\ \A c \in Candidate : offer[c] \in Status
  BY DEF RightsInv, Shape
<1>2. job'[r] = mine /\ \A t \in OfferSource \ {r} : job'[t] = job[t]
  BY <1>1 DEF Withdraw
<1>3. /\ mine.phase = "publication" /\ mine.at = job[r].at /\ mine.page = page
      /\ mine.swept = job[r].swept /\ mine.late = job[r].late /\ mine.withdrawn = gone
      /\ mine.shown = job[r].shown /\ mine.basis = job[r].basis
  BY <1>1 DEF Job
<1>4. UNCHANGED <<time, rights, changes, evidence, review, offer, cursor, holder, passed>>
  BY DEF Withdraw
<1>5. OffersKnown' /\ Bookkeeping'
  BY <1>4 DEF LifecycleInv, OffersKnown, Bookkeeping
<1>6. page \subseteq Publishable(r, job[r].at)
  BY PageIsPart
<1>7. /\ job'[r].phase = "publication" /\ job'[r].at = job[r].at /\ job'[r].page = page
      /\ job'[r].swept = job[r].swept /\ job'[r].late = job[r].late /\ job'[r].withdrawn = gone
      /\ job'[r].shown = job[r].shown /\ job'[r].basis = job[r].basis
  <2> HIDE DEF mine, page, gone
  <2> QED
    BY <1>2, <1>3
<1>8. /\ job[r].phase = "expiry" /\ Waiting(r) = {} /\ gone \subseteq job[r].page
      /\ job[r].page \subseteq Candidate /\ job[r].at \in Nat
  BY <1>1 DEF Withdraw, Job
<1>9. PageKnown(r) /\ RunInOrder(r) /\ SweepsPage(r)
  BY DEF LifecycleInv, RunInv
<1> HIDE DEF mine, page
<1>10. ASSUME NEW c \in gone, About[c].before
       PROVE  \/ About[c].ends <= time
              \/ ~Eligible(c)
              \/ Cardinality({d \in Candidate : ProductOf(d) = ProductOf(c) /\ offer[d] = "published"})
                   > VisibleCap
  <2> DEFINE shown == Projection(offer, ProductOf(c), job[r].at, job[r].late)
             crowd == {d \in Candidate : ProductOf(d) = ProductOf(c) /\ offer[d] = "published"}
  <2>1. /\ c \in Candidate /\ c \in job[r].page /\ c \notin job[r].late /\ Expiring(r, c)
        /\ ProductOf(c) \in OfferProduct /\ job[r].at <= time
    BY <1>8, <1>9 DEF PageKnown, RunInOrder, OfferProduct
  <2>2. CASE c \in shown
    <3>1. c \notin Visible(offer, job[r].at, job[r].late)
      OBVIOUS
    <3>2. ~(Cardinality(shown) <= VisibleCap)
      BY <2>1, <2>2, <3>1 DEF Visible
    <3>3. shown \subseteq crowd /\ crowd \subseteq Candidate
      BY DEF Projection
    <3> HIDE DEF shown, crowd
    <3>4. IsFiniteSet(crowd)
      BY <3>3, FS_Subset, PublicationAssumption
    <3>5. IsFiniteSet(shown) /\ Cardinality(shown) <= Cardinality(crowd)
      BY <3>3, <3>4, FS_Subset
    <3>6. Cardinality(shown) \in Nat /\ Cardinality(crowd) \in Nat
      BY <3>4, <3>5, FS_CardinalityType
    <3>7. Cardinality(crowd) > VisibleCap
      BY <3>2, <3>5, <3>6, PublicationAssumption
    <3> QED
      BY <3>7 DEF crowd
  <2>3. CASE c \notin shown
    <3>1. About[c].ends <= job[r].at => About[c].ends <= time
      BY <1>1, <1>8, <2>1, PublicationAssumption
    <3>2. About[c].ends <= job[r].at \/ ~Eligible(c)
      <4>1. ~(About[c].ends > job[r].at) => About[c].ends <= job[r].at
        BY <1>8, <2>1, PublicationAssumption
      <4> QED
        BY <1>10, <2>1, <2>3, <4>1 DEF Projection, Expiring
    <3> QED
      BY <3>1, <3>2
  <2> QED
    BY <2>2, <2>3
<1> HIDE DEF gone
<1>11. RunInv(r)'
  <2>1. ASSUME NEW c \in page
        PROVE  /\ c \in Candidate /\ SourceOfOffer(c) = r /\ review[c] = "decided"
               /\ About[c].starts <= job[r].at
    BY <1>6 DEF Publishable, LifecycleInv, OffersKnown
  <2>2. PageKnown(r)'
    BY <1>4, <1>7, <1>8, <1>9, <2>1 DEF PageKnown, SourceOfOffer
  <2>3. RunInOrder(r)'
    BY <1>4, <1>7, <1>8, <1>9 DEF RunInOrder, SourceOfOffer
  <2>4. SweepsPage(r)'
    <3>1. Expirable(r, job[r].at)' = Expirable(r, job[r].at)
      BY <1>4, <1>7 DEF Expirable, IsRevoked, SourceOfOffer
    <3> QED
      BY <1>4, <1>7, <1>8, <1>9, <3>1 DEF SweepsPage
  <2>5. ProductsHeld(r)'
    BY <1>4, <1>7, <1>8 DEF ProductsHeld, Waiting, ProductOf
  <2>6. WithdrawsForGood(r)'
    <3> SUFFICES ASSUME NEW c \in gone, About[c].before
                 PROVE  Withdrawable(c)'
      BY <1>7 DEF WithdrawsForGood
    <3> DEFINE crowd == {d \in Candidate : ProductOf(d) = ProductOf(c) /\ offer[d] = "published"}
    <3>1. c \in Candidate
      BY <1>8
    <3>2. Eligible(c)' <=> Eligible(c)
      BY <1>4, <3>1, EligibleStays
    <3>3. Cardinality(crowd) > VisibleCap => Cardinality(Crowd(c))' > VisibleCap
      <4>1. crowd \subseteq Crowd(c)' /\ Crowd(c)' \subseteq Candidate
        BY <1>4 DEF Crowd, ProductOf
      <4> HIDE DEF crowd
      <4>2. IsFiniteSet(Crowd(c)')
        BY <4>1, FS_Subset, PublicationAssumption
      <4>3. IsFiniteSet(crowd) /\ Cardinality(crowd) <= Cardinality(Crowd(c)')
        BY <4>1, <4>2, FS_Subset
      <4>4. Cardinality(crowd) \in Nat /\ Cardinality(Crowd(c)') \in Nat
        BY <4>2, <4>3, FS_CardinalityType
      <4> QED
        BY <4>3, <4>4, PublicationAssumption
    <3> QED
      BY <1>4, <1>10, <3>2, <3>3 DEF Withdrawable
  <2>7. WithinCap(r)'
    BY <1>7 DEF WithinCap
  <2> QED
    BY <2>2, <2>3, <2>4, <2>5, <2>6, <2>7 DEF RunInv
<1>12. ASSUME NEW s \in OfferSource, s # r
       PROVE  RunInv(s)'
  <2>1. RunInOrder(s)
    BY DEF LifecycleInv, RunInv
  <2>2. ProductsKept(s)
    BY <1>4 DEF ProductsKept
  <2> QED
    BY <1>1, <1>2, <1>4, <1>12, <2>1, <2>2, RestUndisturbed DEF RunInOrder
<1> QED
  BY <1>5, <1>11, <1>12 DEF LifecycleInv

(* It publishes the page, as far as the projection returns it then. *)
LEMMA LifecyclePublish ==
  ASSUME RightsInv, RightsInv', LifecycleInv, NEW r \in OfferSource, Publish(r)
  PROVE  LifecycleInv'
<1> DEFINE page == job[r].page
           tentative == [c \in Candidate |-> IF c \in page THEN "published" ELSE View(r)[c]]
           kept == page \cap Visible(tentative, time, LateForPublish(r))
           mine == [job[r] EXCEPT !.phase = "complete", !.shown = kept, !.basis = changes,
                                  !.withdrawn = job[r].withdrawn \cup (page \ kept)]
           other(t) == IF job[t].phase = "idle" THEN job[t]
                       ELSE [job[t] EXCEPT !.late = job[t].late \cup page]
<1>1. /\ time \in Nat /\ changes \in Nat
      /\ \A t \in OfferSource : job[t] \in Job
  BY DEF RightsInv, Shape
<1>2. job'[r] = mine /\ \A t \in OfferSource \ {r} : job'[t] = other(t)
  BY DEF Publish
<1>3. /\ mine.phase = "complete" /\ mine.at = job[r].at /\ mine.page = page
      /\ mine.swept = job[r].swept /\ mine.late = job[r].late
      /\ mine.withdrawn = job[r].withdrawn \cup (page \ kept)
      /\ mine.shown = kept /\ mine.basis = changes
  BY <1>1 DEF Job
<1>4. UNCHANGED <<time, rights, changes, evidence, review, offer, cursor, holder, passed>>
  BY DEF Publish
<1>5. OffersKnown' /\ Bookkeeping'
  BY <1>4 DEF LifecycleInv, OffersKnown, Bookkeeping
<1>6. /\ job[r].phase = "publication" /\ Waiting(r) = {} /\ page \subseteq Candidate
      /\ job[r].withdrawn \subseteq Candidate /\ job[r].at \in Nat /\ job[r].basis \in Nat
  BY <1>1 DEF Publish, Job
<1>7. /\ job'[r].phase = "complete" /\ job'[r].at = job[r].at /\ job'[r].page = page
      /\ job'[r].swept = job[r].swept /\ job'[r].late = job[r].late
      /\ job'[r].withdrawn = job[r].withdrawn \cup (page \ kept)
      /\ job'[r].shown = kept /\ job'[r].basis = changes
  <2> HIDE DEF mine, kept, page
  <2> QED
    BY <1>2, <1>3
<1>8. /\ PageKnown(r) /\ RunInOrder(r) /\ SweepsPage(r) /\ ProductsHeld(r)
      /\ WithdrawsForGood(r) /\ job[r].shown = {}
  BY <1>6 DEF LifecycleInv, RunInv, RunInOrder
<1>9. \A c \in page : /\ SourceOfOffer(c) = r /\ review[c] = "decided"
                      /\ About[c].starts <= time /\ holder[ProductOf(c)] = r
  <2> SUFFICES ASSUME NEW c \in page
               PROVE  /\ SourceOfOffer(c) = r /\ review[c] = "decided"
                      /\ About[c].starts <= time /\ holder[ProductOf(c)] = r
    OBVIOUS
  <2>1. About[c].starts <= job[r].at /\ job[r].at <= time
    BY <1>6, <1>8 DEF PageKnown, RunInOrder
  <2>2. About[c].starts <= time
    BY <1>1, <1>6, <2>1, PublicationAssumption
  <2> QED
    BY <1>6, <1>8, <2>2 DEF PageKnown, Waiting
(* With the page published, an offer that is not visible has ended, lost
   its rights, or is one of too many. *)
<1>10. ASSUME NEW c \in page
       PROVE  \/ c \in kept /\ Cardinality(Projection(tentative, ProductOf(c), time, {})) <= VisibleCap
              \/ c \notin kept /\ (About[c].before =>
                   \/ About[c].ends <= time
                   \/ ~Eligible(c)
                   \/ Cardinality(Crowd(c)) > VisibleCap)
  <2> DEFINE shown == Projection(tentative, ProductOf(c), time, {})
  <2>1. c \in Candidate /\ ProductOf(c) \in OfferProduct
    BY <1>6 DEF OfferProduct
  <2>2. CASE c \in shown /\ Cardinality(shown) <= VisibleCap
    BY <2>1, <2>2 DEF Visible, LateForPublish
  <2>3. CASE c \in shown /\ ~(Cardinality(shown) <= VisibleCap)
    <3>1. c \notin kept
      BY <2>1, <2>3 DEF Visible, Projection, LateForPublish
    <3>2. shown \subseteq Crowd(c) /\ Crowd(c) \subseteq Candidate
      BY <1>8, <1>9 DEF Projection, Crowd, View
    <3> HIDE DEF shown
    <3>3. IsFiniteSet(Crowd(c))
      BY <3>2, FS_Subset, PublicationAssumption
    <3>4. IsFiniteSet(shown) /\ Cardinality(shown) <= Cardinality(Crowd(c))
      BY <3>2, <3>3, FS_Subset
    <3>5. Cardinality(shown) \in Nat /\ Cardinality(Crowd(c)) \in Nat
      BY <3>3, <3>4, FS_CardinalityType
    <3>6. Cardinality(Crowd(c)) > VisibleCap
      BY <2>3, <3>4, <3>5, PublicationAssumption
    <3> QED
      BY <3>1, <3>6
  <2>4. CASE c \notin shown
    <3>1. c \notin kept
      BY <2>1, <2>4 DEF Visible, Projection, LateForPublish
    <3>2. ~(About[c].ends > time) => About[c].ends <= time
      BY <1>1, <2>1, PublicationAssumption
    <3>3. ~(About[c].ends > time) \/ ~Eligible(c) \/ ~About[c].before
      BY <1>9, <2>1, <2>4 DEF Projection
    <3> QED
      BY <3>1, <3>2, <3>3
  <2> QED
    BY <2>2, <2>3, <2>4
<1> HIDE DEF mine
<1>11. RunInv(r)'
  <2> HIDE DEF kept
  <2>0. kept \subseteq page
    BY DEF kept
  <2>1. PageKnown(r)'
    BY <1>4, <1>6, <1>7, <1>8 DEF PageKnown, SourceOfOffer
  <2>2. RunInOrder(r)'
    BY <1>1, <1>4, <1>6, <1>7, <1>8, <2>0 DEF RunInOrder, SourceOfOffer
  <2>3. SweepsPage(r)'
    <3>1. Expirable(r, job[r].at)' = Expirable(r, job[r].at)
      BY <1>4, <1>7 DEF Expirable, IsRevoked, SourceOfOffer
    <3> QED
      BY <1>4, <1>6, <1>7, <1>8, <3>1 DEF SweepsPage
  <2>4. ProductsHeld(r)'
    BY <1>4, <1>7, <1>8, <1>9 DEF ProductsHeld, ProductOf
  <2>5. WithdrawsForGood(r)'
    <3> SUFFICES ASSUME NEW c \in job[r].withdrawn \cup (page \ kept), About[c].before
                 PROVE  Withdrawable(c)'
      BY <1>7 DEF WithdrawsForGood
    <3>1. c \in Candidate /\ SourceOfOffer(c) = r
      BY <1>6, <1>8, <1>9 DEF PageKnown
    <3>2. Withdrawable(c)
      BY <1>8, <1>10 DEF WithdrawsForGood, Withdrawable
    <3>3. Crowd(c)' = Crowd(c)
      BY <1>4, <1>7, <3>1 DEF Crowd, ProductOf, SourceOfOffer
    <3>4. Eligible(c)' <=> Eligible(c)
      BY <1>4, <3>1, EligibleStays
    <3> QED
      BY <1>4, <3>2, <3>3, <3>4 DEF Withdrawable
  <2>6. WithinCap(r)'
    <3> SUFFICES ASSUME NEW c \in kept
                 PROVE  Cardinality(Projection(View(r), ProductOf(c), time, {}))' <= VisibleCap
      BY <1>7 DEF WithinCap, ProductOf
    <3> DEFINE before == Projection(tentative, ProductOf(c), time, {})
               after == Projection(View(r), ProductOf(c), time, {})'
    <3>1. c \in page /\ Cardinality(before) <= VisibleCap
      BY <1>10, <2>0
    <3>2. ASSUME NEW d \in after
          PROVE  d \in before
      <4>1. /\ d \in Candidate /\ ProductOf(d) = ProductOf(c) /\ View(r)'[d] = "published"
            /\ About[d].starts <= time /\ About[d].ends > time /\ About[d].before
            /\ Eligible(d)'
        BY <1>4 DEF Projection, ProductOf
      <4>2. d \notin job[r].withdrawn /\ (d \in kept \/ offer[d] = "published")
        BY <1>4, <1>7, <4>1 DEF View
      <4>3. tentative[d] = "published"
        BY <2>0, <4>1, <4>2 DEF View
      <4>4. Eligible(d)
        BY <1>4, <4>1, EligibleStays
      <4> QED
        BY <4>1, <4>3, <4>4 DEF Projection
    <3>3. after \subseteq before /\ before \subseteq Candidate
      BY <3>2 DEF Projection
    <3> HIDE DEF after, before
    <3>4. IsFiniteSet(before)
      BY <3>3, FS_Subset, PublicationAssumption
    <3>5. IsFiniteSet(after) /\ Cardinality(after) <= Cardinality(before)
      BY <3>3, <3>4, FS_Subset
    <3>6. Cardinality(after) \in Nat /\ Cardinality(before) \in Nat
      BY <3>4, <3>5, FS_CardinalityType
    <3>7. Cardinality(after) <= VisibleCap
      BY <3>1, <3>5, <3>6, PublicationAssumption
    <3> QED
      BY <3>7 DEF after
  <2> QED
    BY <2>1, <2>2, <2>3, <2>4, <2>5, <2>6 DEF RunInv
<1>12. ASSUME NEW s \in OfferSource, s # r
       PROVE  RunInv(s)'
  <2>1. RunInOrder(s) /\ \A c \in page : SourceOfOffer(c) # s
    BY <1>9, <1>12 DEF LifecycleInv, RunInv
  <2>2. ProductsKept(s)
    BY <1>4 DEF ProductsKept
  <2>3. RecordKept(s)
    <3>1. /\ job[s] \in Job /\ job'[s] = other(s) /\ cursor'[s] = cursor[s]
      BY <1>1, <1>2, <1>4, <1>12
    <3>2. CASE job[s].phase = "idle"
      BY <3>1, <3>2 DEF RecordKept
    <3>3. CASE job[s].phase # "idle"
      <4>1. LET next == [job[s] EXCEPT !.late = job[s].late \cup page]
            IN /\ next.phase = job[s].phase /\ next.at = job[s].at /\ next.page = job[s].page
               /\ next.swept = job[s].swept /\ next.withdrawn = job[s].withdrawn
               /\ next.shown = job[s].shown /\ next.basis = job[s].basis
               /\ next.late = job[s].late \cup page
        BY <3>1 DEF Job
      <4>2. job'[s] = [job[s] EXCEPT !.late = job[s].late \cup page]
        BY <3>1, <3>3
      <4> HIDE DEF page
      <4> QED
        BY <2>1, <3>1, <3>3, <4>1, <4>2 DEF RecordKept
    <3> QED
      BY <3>2, <3>3
  <2>4. SourceKept(s)
    <3>1. \A c \in Candidate : Eligible(c)' <=> Eligible(c)
      BY <1>4, EligibleStays
    <3> QED
      BY <1>4, <2>1, <3>1 DEF SourceKept, RunInOrder
  <2>5. Onward
    <3>1. \A c \in Candidate : Eligible(c)' <=> Eligible(c)
      BY <1>4, EligibleStays
    <3> QED
      BY <1>1, <1>4, <3>1 DEF Onward
  <2> QED
    BY <2>2, <2>3, <2>4, <2>5, RunUndisturbed
<1> QED
  BY <1>5, <1>11, <1>12 DEF LifecycleInv

-----------------------------------------------------------------------------
(* The circular order of the pages. *)

(* First the numbers above the cursor, then the others, ascending. *)
LEMMA BeforeMeans ==
  ASSUME NEW from \in Nat, NEW c \in Nat, NEW d \in Nat
  PROVE  Before(from, c, d) <=> \/ c > from /\ d > from /\ c < d
                                \/ c <= from /\ d <= from /\ c < d
                                \/ c > from /\ d <= from
<1>1. CASE c > from /\ d > from
  <2>1. (c > from) = TRUE /\ (d > from) = TRUE
    BY <1>1
  <2> QED
    BY <1>1, <2>1 DEF Before
<1>2. CASE c <= from /\ d <= from
  <2>1. (c > from) = FALSE /\ (d > from) = FALSE
    BY <1>2
  <2> QED
    BY <1>2, <2>1 DEF Before
<1>3. CASE c > from /\ d <= from
  <2>1. (c > from) = TRUE /\ (d > from) = FALSE
    BY <1>3
  <2> QED
    BY <1>3, <2>1 DEF Before
<1>4. CASE c <= from /\ d > from
  <2>1. (c > from) = FALSE /\ (d > from) = TRUE
    BY <1>4
  <2> QED
    BY <1>4, <2>1 DEF Before
<1> QED
  BY <1>1, <1>2, <1>3, <1>4

(* A strict total order of the numbers. *)
LEMMA BeforeIsOrder ==
  ASSUME NEW from \in Nat
  PROVE  /\ \A c \in Nat : ~Before(from, c, c)
         /\ \A c, d \in Nat : c # d => Before(from, c, d) \/ Before(from, d, c)
         /\ \A c, d, e \in Nat : Before(from, c, d) /\ Before(from, d, e) => Before(from, c, e)
BY BeforeMeans

(* When the cursor turns to an earlier number e, what is before c from
   there was before c, and is not e or before it. *)
LEMMA CursorTurns ==
  ASSUME NEW from \in Nat, NEW c \in Nat, NEW d \in Nat, NEW e \in Nat,
         Before(from, e, c), Before(e, d, c)
  PROVE  Before(from, d, c) /\ d # e /\ ~Before(from, d, e)
BY BeforeMeans

(* A nonempty set has an element at which a function is least. *)
LEMMA LeastBy ==
  ASSUME NEW S, S # {}, NEW f \in [S -> Nat]
  PROVE  \E m \in S : \A k \in S : f[m] <= f[k]
<1> DEFINE T == {f[k] : k \in S}
<1>1. PICK n \in T : \A k \in T : ~(<<k, n>> \in OpToRel(<, Nat))
  <2>1. T \subseteq Nat /\ T # {}
    OBVIOUS
  <2> QED
    BY <2>1, NatLessThanWellFounded, WFMin
<1>2. PICK m \in S : f[m] = n
  BY <1>1
<1>3. \A k \in S : ~(f[k] < n)
  BY <1>1 DEF OpToRel
<1> QED
  BY <1>2, <1>3

(* The elements of S that come before c. *)
Lower(from, S, c) == {d \in S : Before(from, d, c)}

(* They can be counted. *)
LEMMA LowerIsCounted ==
  ASSUME NEW from, NEW S \in SUBSET Candidate, NEW c
  PROVE  IsFiniteSet(Lower(from, S, c)) /\ Cardinality(Lower(from, S, c)) \in Nat
<1>1. Lower(from, S, c) \subseteq Candidate
  BY DEF Lower
<1> QED
  BY <1>1, FS_Subset, FS_CardinalityType, PublicationAssumption

(* Fewer come before what comes earlier. *)
LEMMA LowerGrows ==
  ASSUME NEW from \in Nat, NEW S \in SUBSET Candidate, NEW c \in S, NEW d \in S,
         Before(from, d, c)
  PROVE  Cardinality(Lower(from, S, d)) < Cardinality(Lower(from, S, c))
<1>1. S \subseteq Nat
  BY PublicationAssumption
<1>2. /\ Lower(from, S, d) \subseteq Lower(from, S, c)
      /\ d \in Lower(from, S, c) /\ d \notin Lower(from, S, d)
  BY <1>1, BeforeIsOrder DEF Lower
<1>3. /\ IsFiniteSet(Lower(from, S, c)) /\ Cardinality(Lower(from, S, c)) \in Nat
      /\ Cardinality(Lower(from, S, d)) \in Nat
  BY LowerIsCounted
<1>4. /\ Cardinality(Lower(from, S, d)) <= Cardinality(Lower(from, S, c))
      /\ Cardinality(Lower(from, S, d)) = Cardinality(Lower(from, S, c))
           => Lower(from, S, d) = Lower(from, S, c)
  BY <1>2, <1>3, FS_Subset
<1> QED
  BY <1>2, <1>3, <1>4

(* Where the next page begins: after the last of this one. *)
LEMMA LastIsLast ==
  ASSUME NEW from \in Nat, NEW S \in SUBSET Candidate, S # {}
  PROVE  /\ LastOf(from, S) \in S
         /\ \A d \in S \ {LastOf(from, S)} : Before(from, d, LastOf(from, S))
<1> DEFINE f == [c \in S |-> Cardinality(S) - Cardinality(Lower(from, S, c))]
<1>1. S \subseteq Nat /\ IsFiniteSet(S) /\ Cardinality(S) \in Nat
  BY FS_Subset, FS_CardinalityType, PublicationAssumption
<1>2. ASSUME NEW c \in S
      PROVE  Cardinality(Lower(from, S, c)) <= Cardinality(S)
  <2>1. Lower(from, S, c) \subseteq S
    BY DEF Lower
  <2> QED
    BY <1>1, <2>1, FS_Subset
<1>3. f \in [S -> Nat]
  <2>1. ASSUME NEW c \in S
        PROVE  Cardinality(S) - Cardinality(Lower(from, S, c)) \in Nat
    BY <1>1, <1>2, LowerIsCounted
  <2> QED
    BY <2>1
<1>4. PICK m \in S : \A k \in S : f[m] <= f[k]
  <2> HIDE DEF f
  <2> QED
    BY <1>3, LeastBy
<1>5. ASSUME NEW d \in S \ {m}
      PROVE  Before(from, d, m)
  <2>1. f[m] <= f[d]
    BY <1>4
  <2>2. ~(Cardinality(Lower(from, S, m)) < Cardinality(Lower(from, S, d)))
    BY <1>1, <2>1, LowerIsCounted
  <2>3. ~Before(from, m, d)
    BY <2>2, LowerGrows
  <2> QED
    BY <1>1, <2>3, BeforeIsOrder
<1> QED
  BY <1>5 DEF LastOf

(* The cursor is a number again. *)
LEMMA LastIsNumber ==
  ASSUME NEW from \in Nat, NEW S \in SUBSET Candidate
  PROVE  LastOf(from, S) \in Nat
<1>1. CASE S = {}
  BY <1>1 DEF LastOf
<1>2. CASE S # {}
  BY <1>2, LastIsLast, PublicationAssumption
<1> QED
  BY <1>1, <1>2

(* A page that does not reach c is full, and all of it comes before c. *)
LEMMA PageIsFull ==
  ASSUME NEW from \in Nat, NEW S \in SUBSET Candidate, NEW c \in S \ PageFrom(from, S)
  PROVE  /\ Cardinality(PageFrom(from, S)) >= BatchLimit
         /\ \A d \in PageFrom(from, S) : Before(from, d, c)
<1> DEFINE page == PageFrom(from, S)
           f == [d \in S \ page |-> Cardinality(Lower(from, S, d))]
<1>1. S \subseteq Nat /\ page \subseteq S
  BY PublicationAssumption DEF PageFrom
<1>2. \A d \in S : d \in page <=> Cardinality(Lower(from, S, d)) < BatchLimit
  BY DEF PageFrom, Lower
<1>3. f \in [S \ page -> Nat] /\ S \ page # {}
  BY LowerIsCounted
<1>4. PICK m \in S \ page : \A k \in S \ page : f[m] <= f[k]
  <2> HIDE DEF f, page
  <2> QED
    BY <1>3, LeastBy
<1>5. Lower(from, S, m) \subseteq page
  <2> SUFFICES ASSUME NEW d \in S, Before(from, d, m), d \notin page
               PROVE  FALSE
    BY DEF Lower
  <2>1. Cardinality(Lower(from, S, d)) < Cardinality(Lower(from, S, m))
    BY LowerGrows
  <2>2. Cardinality(Lower(from, S, m)) <= Cardinality(Lower(from, S, d))
    BY <1>4
  <2> QED
    BY <2>1, <2>2, LowerIsCounted
<1>6. Cardinality(page) >= BatchLimit
  <2>1. ~(Cardinality(Lower(from, S, m)) < BatchLimit)
    BY <1>2
  <2>2. IsFiniteSet(page)
    BY <1>1, FS_Subset, PublicationAssumption
  <2>3. Cardinality(Lower(from, S, m)) <= Cardinality(page) /\ Cardinality(page) \in Nat
    BY <1>5, <2>2, FS_Subset, FS_CardinalityType
  <2> QED
    BY <2>1, <2>3, LowerIsCounted, PublicationAssumption
<1>7. ASSUME NEW d \in page
      PROVE  Before(from, d, c)
  <2>1. ~Before(from, c, d)
    <3>1. Cardinality(Lower(from, S, d)) < BatchLimit
          /\ ~(Cardinality(Lower(from, S, c)) < BatchLimit)
      BY <1>1, <1>2
    <3>2. ~(Cardinality(Lower(from, S, c)) < Cardinality(Lower(from, S, d)))
      BY <3>1, LowerIsCounted, PublicationAssumption
    <3> QED
      BY <1>1, <3>2, LowerGrows
  <2> QED
    BY <1>1, <2>1, BeforeIsOrder
<1> QED
  BY <1>6, <1>7

-----------------------------------------------------------------------------
(* A run ends, with a commit or without, and lets its products go. *)
LEMMA LifecycleEnd ==
  ASSUME RightsInv, RightsInv', LifecycleInv, NEW r \in OfferSource,
         CommitReconcile(r) \/ AbortReconcile(r)
  PROVE  LifecycleInv'
<1>1. /\ time \in Nat /\ changes \in Nat /\ job \in [OfferSource -> Job] /\ job[r] \in Job
  BY DEF RightsInv, Shape
<1>2. /\ job' = [job EXCEPT ![r] = NoJob] /\ holder' = Unlocked(r)
      /\ UNCHANGED <<time, rights, changes, evidence, review>>
      /\ job[r].phase # "idle"
  BY DEF CommitReconcile, AbortReconcile
<1>3. job'[r] = NoJob /\ \A t \in OfferSource \ {r} : job'[t] = job[t]
  BY <1>1, <1>2
<1>4. PageKnown(r) /\ RunInOrder(r) /\ ProductsHeld(r)
  BY DEF LifecycleInv, RunInv
(* What a commit changes is its own, decided, and among its products. *)
<1>5. ASSUME NEW c \in Candidate
      PROVE  \/ offer'[c] = offer[c]
             \/ /\ SourceOfOffer(c) = r /\ review[c] = "decided" /\ holder[ProductOf(c)] = r
                /\ offer'[c] = "published" => About[c].starts <= time
  <2>1. CASE AbortReconcile(r)
    BY <2>1 DEF AbortReconcile
  <2>2. CASE CommitReconcile(r)
    <3>1. CASE c \in job[r].withdrawn
      BY <1>4, <2>2, <3>1 DEF CommitReconcile, PageKnown, ProductsHeld
    <3>2. CASE c \notin job[r].withdrawn /\ c \in job[r].shown
      <4>1. c \in job[r].page /\ job[r].phase = "complete"
        BY <1>4, <2>2, <3>2 DEF RunInOrder, CommitReconcile
      <4>2. About[c].starts <= job[r].at /\ job[r].at <= time
        BY <1>4, <4>1 DEF PageKnown, RunInOrder
      <4>3. About[c].starts <= time
        BY <1>1, <4>2, PublicationAssumption DEF Job
      <4> QED
        BY <1>4, <4>1, <4>3 DEF PageKnown, ProductsHeld
    <3>3. CASE c \notin job[r].withdrawn /\ c \notin job[r].shown
      BY <2>2, <3>3 DEF CommitReconcile, View
    <3> QED
      BY <3>1, <3>2, <3>3
  <2> QED
    BY <2>1, <2>2
<1>6. OffersKnown'
  BY <1>2, <1>5 DEF LifecycleInv, OffersKnown
<1>7. Bookkeeping'
  <2>1. holder' \in [OfferProduct -> OfferSource \cup {Nobody}]
    BY <1>2 DEF Unlocked, LifecycleInv, Bookkeeping
  <2>2. CASE AbortReconcile(r)
    BY <2>1, <2>2 DEF AbortReconcile, LifecycleInv, Bookkeeping
  <2>3. CASE CommitReconcile(r)
    <3> DEFINE next == [expiry |-> LastOf(cursor[r].expiry, job[r].swept),
                        publication |-> LastOf(cursor[r].publication, job[r].page)]
    <3>1. /\ cursor[r].expiry \in Nat /\ cursor[r].publication \in Nat
          /\ job[r].swept \in SUBSET Candidate /\ job[r].page \in SUBSET Candidate
      BY <1>1 DEF LifecycleInv, Bookkeeping, Job
    <3>2. next \in [expiry : Nat, publication : Nat]
      BY <3>1, LastIsNumber
    <3>3. cursor' = [cursor EXCEPT ![r] = next]
      BY <2>3 DEF CommitReconcile
    <3>4. cursor' \in [OfferSource -> [expiry : Nat, publication : Nat]]
      <4> HIDE DEF next
      <4> QED
        BY <3>2, <3>3 DEF LifecycleInv, Bookkeeping
    <3>5. passed' \in [Candidate -> Nat]
      BY <2>3 DEF CommitReconcile, LifecycleInv, Bookkeeping
    <3> QED
      BY <2>1, <3>4, <3>5 DEF Bookkeeping
  <2> QED
    BY <2>2, <2>3
<1>8. RunInv(r)'
  <2>1. /\ job'[r].phase = "idle" /\ job'[r].at = 0 /\ job'[r].page = {} /\ job'[r].swept = {}
        /\ job'[r].late = {} /\ job'[r].withdrawn = {} /\ job'[r].shown = {} /\ job'[r].basis = 0
    BY <1>3 DEF NoJob
  <2>2. PageKnown(r)' /\ SweepsPage(r)' /\ ProductsHeld(r)' /\ WithdrawsForGood(r)' /\ WithinCap(r)'
    BY <2>1 DEF PageKnown, SweepsPage, ProductsHeld, WithdrawsForGood, WithinCap
  <2>3. RunInOrder(r)'
    BY <1>1, <1>2, <2>1 DEF RunInOrder
  <2> QED
    BY <2>2, <2>3 DEF RunInv
<1>9. ASSUME NEW s \in OfferSource, s # r
      PROVE  RunInv(s)'
  <2>1. RunInOrder(s)
    BY DEF LifecycleInv, RunInv
  <2>2. ProductsKept(s)
    <3>1. \A p \in OfferProduct : holder[p] = s => holder'[p] = s
      BY <1>2, <1>9 DEF Unlocked
    <3>2. \A c \in Candidate : holder[ProductOf(c)] = s => offer'[c] = offer[c]
      BY <1>5, <1>9
    <3> QED
      BY <3>1, <3>2 DEF ProductsKept
  <2>3. cursor'[s] = cursor[s]
    BY <1>9 DEF CommitReconcile, AbortReconcile, LifecycleInv, Bookkeeping
  <2>4. \A c \in Candidate : SourceOfOffer(c) = s => offer'[c] = offer[c]
    BY <1>5, <1>9
  <2> QED
    BY <1>1, <1>2, <1>3, <1>9, <2>1, <2>2, <2>3, <2>4, RestUndisturbed DEF RunInOrder
<1> QED
  BY <1>6, <1>7, <1>8, <1>9 DEF LifecycleInv

(* No run is under way, and what is published has begun. *)
LEMMA LifecycleInit == PublicationInit => LifecycleInv
<1> SUFFICES ASSUME PublicationInit
             PROVE  LifecycleInv
  OBVIOUS
<1>1. Bookkeeping
  BY DEF PublicationInit, Bookkeeping
<1>2. OffersKnown
  <2> SUFFICES ASSUME NEW c \in Candidate
               PROVE  /\ offer[c] # "none" => review[c] = "decided"
                      /\ offer[c] = "published" => About[c].starts <= time
    BY DEF OffersKnown
  <2> QED
    BY PublicationAssumption DEF PublicationInit
<1>3. ASSUME NEW s \in OfferSource
      PROVE  RunInv(s)
  <2>1. /\ job[s].phase = "idle" /\ job[s].at = 0 /\ job[s].page = {} /\ job[s].swept = {}
        /\ job[s].late = {} /\ job[s].withdrawn = {} /\ job[s].shown = {} /\ job[s].basis = 0
        /\ time = 0 /\ changes = 0
    BY DEF PublicationInit, NoJob
  <2> QED
    BY <2>1 DEF RunInv, PageKnown, RunInOrder, SweepsPage, ProductsHeld, WithdrawsForGood, WithinCap
<1> QED
  BY <1>1, <1>2, <1>3 DEF LifecycleInv

(* Every step of the specification. *)
LEMMA LifecycleStep ==
  ASSUME RightsInv, RightsInv', LifecycleInv, [PublicationNext]_publicationVars
  PROVE  LifecycleInv'
<1>1. CASE NextSlot
  BY <1>1, LifecycleClock
<1>2. ASSUME NEW s \in OfferSource, ChangeRights(s)
      PROVE  LifecycleInv'
  BY <1>2, LifecycleRights
<1>3. ASSUME NEW s \in OfferSource, BeginReconcile(s)
      PROVE  LifecycleInv'
  BY <1>3, LifecycleBegin
<1>4. ASSUME NEW s \in OfferSource, LockProduct(s)
      PROVE  LifecycleInv'
  BY <1>4, LifecycleLock
<1>5. ASSUME NEW s \in OfferSource, Withdraw(s)
      PROVE  LifecycleInv'
  BY <1>5, LifecycleWithdraw
<1>6. ASSUME NEW s \in OfferSource, Publish(s)
      PROVE  LifecycleInv'
  BY <1>6, LifecyclePublish
<1>7. ASSUME NEW s \in OfferSource, CommitReconcile(s) \/ AbortReconcile(s)
      PROVE  LifecycleInv'
  BY <1>7, LifecycleEnd
<1>8. ASSUME NEW c \in Candidate, Extract(c)
      PROVE  LifecycleInv'
  BY <1>8, LifecycleExtract
<1>9. ASSUME NEW c \in Candidate,
             \/ RenderEvidence(c) \/ ProofExpires(c) \/ Reject(c)
             \/ BeginApproval(c) \/ CommitApproval(c) \/ AbortApproval(c)
      PROVE  LifecycleInv'
  BY <1>9, LifecycleReview
<1>10. CASE UNCHANGED publicationVars
  <2>1. /\ OffersKnown' /\ Bookkeeping' /\ time \in Nat
    BY <1>10 DEF publicationVars, LifecycleInv, OffersKnown, Bookkeeping, RightsInv, Shape
  <2>2. ASSUME NEW s \in OfferSource
        PROVE  RunInv(s)'
    <3>1. RunInOrder(s)
      BY DEF LifecycleInv, RunInv
    <3> QED
      BY <1>10, <2>1, <3>1, RestUndisturbed DEF publicationVars, RunInOrder, ProductsKept
  <2> QED
    BY <2>1, <2>2 DEF LifecycleInv
<1> QED
  BY <1>1, <1>2, <1>3, <1>4, <1>5, <1>6, <1>7, <1>8, <1>9, <1>10 DEF PublicationNext

(* The inductive invariant of the runs, which official_offer_lifecycle_reconcile_v1
   keeps with its governance lock and its product locks. *)
THEOREM LifecycleInvariance == PublicationSpec => []LifecycleInv
<1>1. RightsInv /\ RightsInv' /\ LifecycleInv /\ [PublicationNext]_publicationVars => LifecycleInv'
  BY LifecycleStep
<1> QED
  BY <1>1, RightsInvariance, LifecycleInit, PTL DEF PublicationSpec

(* "Per-product update locks serialize different sources so two concurrent
   pages cannot create a hidden 51st visible offer"
   (docs/runbooks/official-offer-foundation.md:189): a run that commits what
   it published under the rights it looked at brings no product over the
   cap. *)
THEOREM CapHolds == PublicationSpec => NoHiddenExtraOffer
<1> DEFINE CapKept ==
      \A s \in OfferSource :
        job[s].phase = "complete" /\ job'[s].phase = "idle" /\ job[s].basis = changes =>
          \A p \in OfferProduct :
            Cardinality(Shown(p)') > VisibleCap =>
              Cardinality(Shown(p)') <= Cardinality(Shown(p))
<1>1. RightsInv /\ LifecycleInv /\ [PublicationNext]_publicationVars => [CapKept]_publicationVars
  <2> SUFFICES ASSUME RightsInv, LifecycleInv, PublicationNext, NEW s \in OfferSource,
                      job[s].phase = "complete", job'[s].phase = "idle", job[s].basis = changes,
                      NEW p \in OfferProduct, Cardinality(Shown(p)') > VisibleCap
               PROVE  Cardinality(Shown(p)') <= Cardinality(Shown(p))
    BY DEF publicationVars
  <2>1. /\ time \in Nat /\ job \in [OfferSource -> Job] /\ \A t \in OfferSource : job[t] \in Job
    BY DEF RightsInv, Shape
  <2>2. PageKnown(s) /\ RunInOrder(s) /\ ProductsHeld(s) /\ WithinCap(s)
    BY DEF LifecycleInv, RunInv
  <2>3. CommitReconcile(s) \/ AbortReconcile(s)
    <3>1. ASSUME NEW r \in OfferSource, Publish(r)
          PROVE  FALSE
      <4>1. CASE r = s
        BY <3>1, <4>1 DEF Publish
      <4>2. CASE r # s
        <5>1. job'[s] = [job[s] EXCEPT !.late = job[s].late \cup job[r].page] /\ job[s] \in Job
          BY <2>1, <3>1, <4>2 DEF Publish
        <5> QED
          BY <5>1 DEF Job
      <4> QED
        BY <4>1, <4>2
    <3>2. ASSUME NEW r \in OfferSource, r # s, CommitReconcile(r) \/ AbortReconcile(r)
          PROVE  FALSE
      BY <2>1, <3>2 DEF CommitReconcile, AbortReconcile
    <3>3. ASSUME NEW r \in OfferSource, BeginReconcile(r) \/ Withdraw(r)
          PROVE  FALSE
      <4>1. r # s
        BY <3>3 DEF BeginReconcile, SourceLockFree, Withdraw
      <4>2. job'[s] = job[s]
        BY <2>1, <3>3, <4>1 DEF BeginReconcile, Withdraw
      <4> QED
        BY <4>2
    <3>4. job' # job
      OBVIOUS
    <3> QED
      BY <3>1, <3>2, <3>3, <3>4 DEF PublicationNext, NextSlot, ChangeRights, LockProduct, Extract,
         RenderEvidence, ProofExpires, Reject, BeginApproval, CommitApproval, AbortApproval
  <2>4. UNCHANGED <<time, rights, evidence>>
    BY <2>3 DEF CommitReconcile, AbortReconcile
  <2>5. \A c \in Candidate : Eligible(c)' <=> Eligible(c)
    BY <2>4, EligibleStays
  <2>6. Shown(p) \subseteq Candidate /\ Shown(p)' \subseteq Candidate
    BY DEF Shown, Projection
  <2>7. IsFiniteSet(Shown(p)) /\ IsFiniteSet(Shown(p)')
    BY <2>6, FS_Subset, PublicationAssumption
  <2>8. CASE Shown(p)' \subseteq Shown(p)
    BY <2>7, <2>8, FS_Subset
  <2>9. CASE ~(Shown(p)' \subseteq Shown(p))
    <3>1. PICK c \in Shown(p)' : c \notin Shown(p)
      BY <2>9
    <3>2. c \in Candidate /\ ProductOf(c) = p /\ offer'[c] = "published" /\ offer[c] # "published"
      BY <2>4, <2>5, <3>1 DEF Shown, Projection, ProductOf
    <3>3. CommitReconcile(s)
      BY <2>3, <3>2 DEF AbortReconcile
    <3>4. c \in job[s].shown
      BY <3>2, <3>3 DEF CommitReconcile, View
    <3> DEFINE seen == Projection(View(s), p, time, {})
    <3>5. Cardinality(seen) <= VisibleCap
      BY <2>2, <3>2, <3>4 DEF WithinCap
    <3>6. Shown(p)' \subseteq seen
      <4> SUFFICES ASSUME NEW d \in Candidate, d \in Shown(p)'
                   PROVE  d \in seen
        BY <2>6
      <4>1. /\ ProductOf(d) = p /\ offer'[d] = "published"
            /\ About[d].starts <= time /\ About[d].ends > time /\ Eligible(d) /\ About[d].before
        BY <2>4, <2>5 DEF Shown, Projection, ProductOf
      <4>2. View(s)[d] = "published"
        BY <3>3, <4>1 DEF CommitReconcile
      <4> QED
        BY <4>1, <4>2 DEF Projection
    <3>7. IsFiniteSet(seen)
      <4>1. seen \subseteq Candidate
        BY DEF Projection
      <4> QED
        BY <4>1, FS_Subset, PublicationAssumption
    <3> HIDE DEF seen
    <3>8. Cardinality(Shown(p)') <= Cardinality(seen)
      BY <3>6, <3>7, FS_Subset
    <3> QED
      BY <2>7, <3>5, <3>7, <3>8, FS_CardinalityType, PublicationAssumption
  <2> QED
    BY <2>8, <2>9
<1> QED
  BY <1>1, RightsInvariance, LifecycleInvariance, PTL DEF PublicationSpec, NoHiddenExtraOffer

(* A run withdraws for good only what has ended, what may not be shown any
   more and what is one of too many: neither its own update nor the run of
   another source takes an offer down. *)
THEOREM OffersStay == PublicationSpec => OffersStayUntilTheyEnd
<1> DEFINE Stays == \A c \in Candidate : Withdrawn(c) /\ About[c].before => Withdrawable(c)
<1>1. RightsInv /\ LifecycleInv /\ [PublicationNext]_publicationVars => [Stays]_publicationVars
  <2> SUFFICES ASSUME RightsInv, LifecycleInv, PublicationNext, NEW c \in Candidate,
                      Withdrawn(c), About[c].before
               PROVE  Withdrawable(c)
    BY DEF publicationVars
  <2>1. ASSUME NEW s \in OfferSource, CommitReconcile(s)
        PROVE  Withdrawable(c)
    <3>1. c \in job[s].withdrawn
      BY <2>1 DEF CommitReconcile, View, Withdrawn
    <3> QED
      BY <3>1 DEF LifecycleInv, RunInv, WithdrawsForGood
  <2>2. ASSUME NEW d \in Candidate, CommitApproval(d)
        PROVE  FALSE
    BY <2>2 DEF CommitApproval, Withdrawn, RightsInv, Shape
  <2>3. offer' # offer
    BY DEF Withdrawn
  <2> QED
    BY <2>1, <2>2, <2>3 DEF PublicationNext, NextSlot, ChangeRights, BeginReconcile, LockProduct,
       Withdraw, Publish, AbortReconcile, Extract, RenderEvidence, ProofExpires, Reject,
       BeginApproval, AbortApproval
<1> QED
  BY <1>1, RightsInvariance, LifecycleInvariance, PTL DEF PublicationSpec, OffersStayUntilTheyEnd

-----------------------------------------------------------------------------
(* The circular cursor. *)

(* There are fewer ahead of c than its source has offers. *)
LEMMA AheadIsCounted ==
  ASSUME NEW from \in Nat, NEW c \in Candidate
  PROVE  /\ IsFiniteSet(Ahead(from, c)) /\ Cardinality(Ahead(from, c)) \in Nat
         /\ Cardinality(SameSource(c)) \in Nat
         /\ Cardinality(Ahead(from, c)) < Cardinality(SameSource(c))
<1>1. /\ SameSource(c) \subseteq Candidate /\ c \in SameSource(c)
      /\ Ahead(from, c) \subseteq SameSource(c) \ {c}
  BY DEF SameSource, Ahead
<1>2. IsFiniteSet(SameSource(c)) /\ Cardinality(SameSource(c)) \in Nat
  BY <1>1, FS_Subset, FS_CardinalityType, PublicationAssumption
<1>3. /\ IsFiniteSet(SameSource(c) \ {c})
      /\ Cardinality(SameSource(c) \ {c}) = Cardinality(SameSource(c)) - 1
  BY <1>1, <1>2, FS_RemoveElement
<1>4. /\ IsFiniteSet(Ahead(from, c))
      /\ Cardinality(Ahead(from, c)) <= Cardinality(SameSource(c) \ {c})
  BY <1>1, <1>3, FS_Subset
<1>5. Cardinality(Ahead(from, c)) \in Nat
  BY <1>4, FS_CardinalityType
<1> QED
  BY <1>2, <1>3, <1>4, <1>5

(* After a page that does not reach c, at least a page fewer is ahead of it. *)
LEMMA PageIsPassed ==
  ASSUME NEW from \in Nat, NEW c \in Candidate, NEW S \in SUBSET SameSource(c),
         c \in S \ PageFrom(from, S)
  PROVE  Cardinality(Ahead(LastOf(from, PageFrom(from, S)), c)) + BatchLimit
           <= Cardinality(Ahead(from, c))
<1> DEFINE page == PageFrom(from, S)
           e == LastOf(from, page)
<1>0. /\ Candidate \subseteq Nat /\ BatchLimit \in Nat /\ BatchLimit > 0
      /\ SameSource(c) \subseteq Candidate
  BY PublicationAssumption DEF SameSource
<1>1. page \in SUBSET Candidate /\ page \subseteq S /\ S \in SUBSET Candidate
  BY <1>0, PageIsPart
<1>2. Cardinality(page) >= BatchLimit /\ \A d \in page : Before(from, d, c)
  BY <1>1, PageIsFull
<1>3. page # {}
  <2> HIDE DEF page
  <2> QED
    BY <1>0, <1>2, FS_EmptySet
<1>4. e \in page /\ \A d \in page \ {e} : Before(from, d, e)
  <2> HIDE DEF page
  <2> QED
    BY <1>1, <1>3, LastIsLast
<1> HIDE DEF page, e
<1>5. e \in Nat /\ page \subseteq Ahead(from, c)
  <2>1. c \notin page
    BY <1>0, <1>2, BeforeIsOrder
  <2> QED
    BY <1>0, <1>1, <1>2, <1>4, <2>1 DEF Ahead
<1>6. Ahead(e, c) \subseteq Ahead(from, c) \ page
  <2> SUFFICES ASSUME NEW d \in SameSource(c) \ {c}, Before(e, d, c)
               PROVE  Before(from, d, c) /\ d \notin page
    BY DEF Ahead
  <2>1. d \in Nat /\ c \in Nat /\ Before(from, e, c)
    BY <1>0, <1>2, <1>4
  <2>2. Before(from, d, c) /\ d # e /\ ~Before(from, d, e)
    BY <1>5, <2>1, CursorTurns
  <2> QED
    BY <1>4, <2>2
<1>7. /\ IsFiniteSet(Ahead(from, c)) /\ Cardinality(Ahead(from, c)) \in Nat
      /\ Cardinality(Ahead(e, c)) \in Nat
  BY <1>5, AheadIsCounted
<1>8. /\ IsFiniteSet(Ahead(from, c) \ page)
      /\ Cardinality(Ahead(from, c) \ page)
           = Cardinality(Ahead(from, c)) - Cardinality(Ahead(from, c) \cap page)
  BY <1>7, FS_Difference
<1>9. Cardinality(Ahead(from, c) \ page) = Cardinality(Ahead(from, c)) - Cardinality(page)
  <2>1. Ahead(from, c) \cap page = page
    BY <1>5
  <2> QED
    BY <1>8, <2>1
<1>10. Cardinality(Ahead(e, c)) <= Cardinality(Ahead(from, c) \ page)
  BY <1>6, <1>8, FS_Subset
<1>11. Cardinality(page) \in Nat
  <2>1. IsFiniteSet(page)
    BY <1>5, <1>7, FS_Subset
  <2> QED
    BY <2>1, FS_CardinalityType
<1>12. Cardinality(Ahead(e, c)) + BatchLimit <= Cardinality(Ahead(from, c))
  <2>1. Cardinality(page) >= BatchLimit
    BY <1>2
  <2> QED
    BY <1>0, <1>7, <1>9, <1>10, <1>11, <2>1
<1> QED
  BY <1>12 DEF e, page

(* Only a commit moves a cursor. *)
LEMMA RankedStep ==
  ASSUME RightsInv, LifecycleInv, Ranked, [PublicationNext]_publicationVars
  PROVE  Ranked'
<1>0. /\ \A c \in Candidate : SourceOfOffer(c) \in OfferSource /\ passed[c] \in Nat
      /\ \A s \in OfferSource : cursor[s].expiry \in Nat
      /\ BatchLimit \in Nat /\ job \in [OfferSource -> Job]
  BY PublicationAssumption DEF LifecycleInv, Bookkeeping, SourceOfOffer, RightsInv, Shape
<1>1. ASSUME NEW r \in OfferSource, CommitReconcile(r)
      PROVE  Ranked'
  <2> SUFFICES ASSUME NEW c \in Candidate
               PROVE  passed'[c] * BatchLimit + Cardinality(Ahead(cursor'[SourceOfOffer(c)].expiry, c))
                        < Cardinality(SameSource(c))
    BY DEF Ranked, Ahead, SameSource, Before, SourceOfOffer
  <2>1. CASE SourceOfOffer(c) # r
    <3>1. passed'[c] = passed[c] /\ cursor'[SourceOfOffer(c)] = cursor[SourceOfOffer(c)]
      BY <1>0, <1>1, <2>1 DEF CommitReconcile, LifecycleInv, Bookkeeping
    <3> QED
      BY <3>1 DEF Ranked
  <2>2. CASE SourceOfOffer(c) = r
    <3> DEFINE from == cursor[r].expiry
               last == LastOf(from, job[r].swept)
    <3>1. cursor'[r].expiry = last
      BY <1>1 DEF CommitReconcile, LifecycleInv, Bookkeeping
    <3>2. job[r].swept \in SUBSET Candidate
      BY <1>0 DEF Job
    <3>3. from \in Nat /\ last \in Nat
      BY <1>0, <3>2, LastIsNumber
    <3>4. CASE passed'[c] = 0
      <4>1. 0 * BatchLimit = 0
        BY <1>0
      <4>2. /\ Cardinality(Ahead(last, c)) < Cardinality(SameSource(c))
            /\ Cardinality(Ahead(last, c)) \in Nat
        BY <3>3, AheadIsCounted
      <4> HIDE DEF last, from
      <4> QED
        BY <2>2, <3>1, <3>4, <4>1, <4>2
    <3>5. CASE passed'[c] # 0
      <4> DEFINE S == Expirable(r, job[r].at)
      <4>1. passed'[c] = passed[c] + 1 /\ c \in S \ job[r].swept
        BY <1>1, <2>2, <3>5 DEF CommitReconcile
      <4>2. job[r].swept = PageFrom(from, S)
        BY <1>1 DEF CommitReconcile, LifecycleInv, RunInv, SweepsPage
      <4>3. S \in SUBSET SameSource(c)
        BY <2>2 DEF Expirable, SameSource
      <4> HIDE DEF S, from
      <4>4. Cardinality(Ahead(last, c)) + BatchLimit <= Cardinality(Ahead(from, c))
        BY <3>3, <4>1, <4>2, <4>3, PageIsPassed
      <4>5. passed[c] * BatchLimit + Cardinality(Ahead(from, c)) < Cardinality(SameSource(c))
        BY <2>2 DEF Ranked, from
      <4>6. /\ Cardinality(Ahead(last, c)) \in Nat /\ Cardinality(Ahead(from, c)) \in Nat
            /\ Cardinality(SameSource(c)) \in Nat
        BY <3>3, AheadIsCounted
      <4>7. (passed[c] + 1) * BatchLimit = passed[c] * BatchLimit + BatchLimit
            /\ passed[c] * BatchLimit \in Nat
        BY <1>0
      <4> HIDE DEF last
      <4> QED
        BY <1>0, <2>2, <3>1, <4>1, <4>4, <4>5, <4>6, <4>7
    <3> QED
      BY <3>4, <3>5
  <2> QED
    BY <2>1, <2>2
<1>2. CASE UNCHANGED <<cursor, passed>>
  BY <1>2 DEF Ranked, Ahead, SameSource, Before, SourceOfOffer
<1> QED
  BY <1>1, <1>2 DEF PublicationNext, NextSlot, ChangeRights, BeginReconcile, LockProduct, Withdraw,
     Publish, AbortReconcile, Extract, RenderEvidence, ProofExpires, Reject, BeginApproval,
     CommitApproval, AbortApproval, publicationVars

(* The circular cursors of 026 leave nothing out: an offer that should be
   examined is passed over by no more completed runs than it takes to
   examine all the others of its source, a page at a time. *)
THEOREM NobodyIsPassedOver == PublicationSpec => []NoOfferIsPassedOver
<1>1. PublicationInit => Ranked
  <2> SUFFICES ASSUME PublicationInit, NEW c \in Candidate
               PROVE  passed[c] * BatchLimit + Cardinality(Ahead(cursor[SourceOfOffer(c)].expiry, c))
                        < Cardinality(SameSource(c))
    BY DEF Ranked
  <2>1. /\ cursor[SourceOfOffer(c)].expiry = 0 /\ passed[c] = 0 /\ BatchLimit \in Nat
    BY PublicationAssumption DEF PublicationInit, SourceOfOffer
  <2>2. /\ Cardinality(Ahead(0, c)) < Cardinality(SameSource(c))
        /\ Cardinality(Ahead(0, c)) \in Nat
    BY AheadIsCounted
  <2> QED
    BY <2>1, <2>2
<1>2. RightsInv /\ LifecycleInv /\ Ranked /\ [PublicationNext]_publicationVars => Ranked'
  BY RankedStep
<1>3. LifecycleInv /\ Ranked => NoOfferIsPassedOver
  <2> SUFFICES ASSUME LifecycleInv, Ranked, NEW c \in Candidate
               PROVE  passed[c] * BatchLimit < Cardinality(SameSource(c))
    BY DEF NoOfferIsPassedOver, SameSource
  <2>1. /\ passed[c] \in Nat /\ cursor[SourceOfOffer(c)].expiry \in Nat /\ BatchLimit \in Nat
    BY PublicationAssumption DEF LifecycleInv, Bookkeeping, SourceOfOffer
  <2>2. /\ Cardinality(Ahead(cursor[SourceOfOffer(c)].expiry, c)) \in Nat
        /\ Cardinality(SameSource(c)) \in Nat
    BY <2>1, AheadIsCounted
  <2>3. passed[c] * BatchLimit \in Nat
    BY <2>1
  <2> QED
    BY <2>2, <2>3 DEF Ranked
<1> QED
  BY <1>1, <1>2, <1>3, RightsInvariance, LifecycleInvariance, PTL DEF PublicationSpec

-----------------------------------------------------------------------------
(* The types of every variable, with the bounds of the model. *)
Bounded ==
  time \in 0..LastSlot /\ changes \in 0..MaxChanges /\ done \in [OfferSource -> BOOLEAN]

(* Every variable has its type, and times and counts keep their bounds. *)
THEOREM PublicationTypes == PublicationSpec => []PublicationTypeOK
<1>1. PublicationInit => Bounded
  BY PublicationAssumption DEF PublicationInit, Bounded
<1>2. Bounded /\ [PublicationNext]_publicationVars => Bounded'
  <2> SUFFICES ASSUME Bounded, [PublicationNext]_publicationVars
               PROVE  Bounded'
    OBVIOUS
  <2>1. CASE NextSlot
    BY <2>1, PublicationAssumption DEF NextSlot, Bounded
  <2>2. ASSUME NEW s \in OfferSource, ChangeRights(s)
        PROVE  Bounded'
    BY <2>2, PublicationAssumption DEF ChangeRights, Bounded
  <2>3. ASSUME NEW s \in OfferSource, CommitReconcile(s)
        PROVE  Bounded'
    <3>1. (job[s].at = time) \in BOOLEAN
      OBVIOUS
    <3> QED
      BY <2>3, <3>1 DEF CommitReconcile, Bounded
  <2>4. CASE UNCHANGED <<time, changes, done>>
    BY <2>4 DEF Bounded
  <2> QED
    BY <2>1, <2>2, <2>3, <2>4 DEF PublicationNext, BeginReconcile, LockProduct, Withdraw, Publish,
       AbortReconcile, Extract, RenderEvidence, ProofExpires, Reject, BeginApproval,
       CommitApproval, AbortApproval, publicationVars
<1>3. Bounded /\ RightsInv /\ LifecycleInv => PublicationTypeOK
  <2> SUFFICES ASSUME Bounded, RightsInv, LifecycleInv
               PROVE  PublicationTypeOK
    OBVIOUS
  <2> DEFINE BoundedJob ==
        [phase : {"idle", "expiry", "publication", "complete"}, at : 0..LastSlot,
         page : SUBSET Candidate, swept : SUBSET Candidate,
         late : SUBSET Candidate, withdrawn : SUBSET Candidate, shown : SUBSET Candidate,
         basis : 0..MaxChanges]
  <2>1. ASSUME NEW s \in OfferSource
        PROVE  job[s] \in BoundedJob
    <3>1. job[s] \in Job /\ job[s].at <= time /\ job[s].basis <= changes
      BY DEF RightsInv, Shape, LifecycleInv, RunInv, RunInOrder
    <3>2. job[s].at \in 0..LastSlot /\ job[s].basis \in 0..MaxChanges
      <4>1. job[s].at \in Nat /\ job[s].basis \in Nat
        BY <3>1 DEF Job
      <4> QED
        BY <3>1, <4>1, PublicationAssumption DEF Bounded
    <3> QED
      BY <3>1, <3>2 DEF Job
  <2>2. job \in [OfferSource -> BoundedJob]
    <3> HIDE DEF BoundedJob
    <3> QED
      BY <2>1 DEF RightsInv, Shape
  <2> QED
    BY <2>2 DEF PublicationTypeOK, Bounded, RightsInv, Shape, Stages, Status, LifecycleInv, Bookkeeping
<1> QED
  BY <1>1, <1>2, <1>3, RightsInvariance, LifecycleInvariance, PTL DEF PublicationSpec
=============================================================================
