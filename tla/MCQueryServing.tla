---------------------------- MODULE MCQueryServing -----------------------------
\* A graph query is twice the size of an ask, and too big for the cache once the
\* graph has grown.
EXTENDS QueryServing

MCSize == [q \in Queries |-> [n \in 0..MaxWrites |->
              IF q \in Asks THEN 1 ELSE 2 + 2 * n]]

=============================================================================
