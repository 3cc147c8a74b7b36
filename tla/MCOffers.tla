------------------------------ MODULE MCOffers ------------------------------
(* TLC instances of OfferPublication.                                      *)
EXTENDS OfferPublication

Offered(s, p, from, to, b) ==
  [source |-> s, product |-> p, starts |-> from, ends |-> to, before |-> b]

(* Two sources meet at product 1; the last offer has no before price.      *)
TwoSources ==
  <<Offered("tjek", 2, 0, 2, TRUE), Offered("tjek", 1, 0, 3, TRUE),
    Offered("meny", 1, 0, 3, TRUE), Offered("meny", 1, 1, 2, FALSE)>>
OneToReview == <<"published", "approved", "approved", "none">>
AllToReview == <<"none", "none", "none", "none">>

=============================================================================
