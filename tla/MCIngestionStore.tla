-------------------------- MODULE MCIngestionStore --------------------------
(* TLC instance of IngestionStore in two settings.                         *)
EXTENDS IngestionStore, TLC

CONSTANTS r1, r2, a, b

(* Sessions are interchangeable, and so are the runs where they differ in  *)
(* nothing but their name: the other setting is there for one naming only. *)
Interchangeable ==
  {f @@ g : f \in Permutations(Session), g \in Permutations(Run)}

(* Two catalog runs of one source over one GTIN, under two lease           *)
(* generations, while upstream moves on and the permission changes.        *)
TwoGenerations ==
  [source |-> [r \in Run |-> a], type |-> [r \in Run |-> "catalog"],
   gtins |-> {1}, retired |-> {}, reviewed |-> {a}, versions |-> 2, gens |-> 2,
   ends |-> {"completed", "cancelled"}]

(* A catalog run and a price run of different sources over two GTINs, one  *)
(* of them retired.                                                        *)
TwoSources ==
  [source |-> [r \in Run |-> IF r = r1 THEN a ELSE b],
   type |-> [r \in Run |-> IF r = r1 THEN "catalog" ELSE "prices"],
   gtins |-> {1, 2}, retired |-> {2}, reviewed |-> {}, versions |-> 1, gens |-> 1,
   ends |-> {"completed"}]

Settings == {TwoGenerations, TwoSources}

=============================================================================
