------------------------------- MODULE MCWorker -------------------------------
(***************************************************************************)
(* The worker on small instances.                                          *)
(***************************************************************************)
EXTENDS Worker

\* A catalogue in which everything is found.
Whole ==
  [listings |-> [SEARCH |-> <<"DATASET">>, SCHEMA |-> <<"FIELD">>,
                 LINEAGE |-> <<"STAGING", "REVENUE", "FEATURES">>, QUERIES |-> <<"QUERY">>],
   aspects |-> Aspects]

\* What is wanted comes after n other entries: on the first page, on the last
\* one allowed, or beyond it.
Padded(listing, n) ==
  [Whole EXCEPT !.listings[listing] = [i \in 1 .. n |-> "OTHER"] \o @]

Without(missing) == [Whole EXCEPT !.aspects = @ \ missing]

ManyCatalogues ==
  {Padded(listing, n) : listing \in DOMAIN WantedIn, n \in {1, 2, 4}}
  \cup {Without({a}) : a \in Aspects} \cup {Without(owners) : owners \in SUBSET Owners}

OneCatalogue == {Whole}

=============================================================================
