------------------------------- MODULE MCPlan -------------------------------
(* TLC instances of Planner.                                               *)
EXTENDS Planner

(* Two needs: the first is met by either product, in pieces of a size, the *)
(* second by the other product, in packages.                               *)
BasketOf(stores, price, offers, at) ==
  [maxStores |-> stores, price |-> price, fits |-> <<{1, 2}, {2}>>,
   asked |-> <<[amount |-> 3, unit |-> "g"], [amount |-> 3, unit |-> "package"]>>,
   size |-> <<2, 3>>, offers |-> offers, at |-> at]

(* A bundle that leaves a remainder, a unit price from two packages on and *)
(* one whose minimum is not met.                                           *)
Offers ==
  {[product |-> 2, chain |-> 1, kind |-> "multibuy", quantity |-> 2, ore |-> 4, minimum |-> 1],
   [product |-> 1, chain |-> 2, kind |-> "unit", ore |-> 1, minimum |-> 2],
   [product |-> 1, chain |-> 3, kind |-> "unit", ore |-> 1, minimum |-> 3]}

(* Branches around the origin: on both sides of it, two of one chain.      *)
Places == {<<{1}, {2, 0 - 2}, {0 - 1}>>, <<{2}, {1}, {3, 1}>>}

Baskets ==
  {BasketOf(m, pr, o, a) : m \in 1..3, pr \in [Product -> [Chain -> {0, 1, 3}]],
                           o \in {{}, Offers}, a \in Places}

OneBasket ==
  BasketOf(1, [p \in Product |-> [c \in Chain |-> 1]], {}, <<{2}, {1}, {3, 1}>>)

(* Four chains, of which the first product is cheapest at the first.       *)
FourChains ==
  {BasketOf(3, <<<<1, 2, 3, 4>>, pr>>, {}, [c \in Chain |-> {c}]) : pr \in [Chain -> 1..4]}

=============================================================================
