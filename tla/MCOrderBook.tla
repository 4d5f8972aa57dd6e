----------------------------- MODULE MCOrderBook -----------------------------
(***************************************************************************)
(* The order book on small instances.  Three orders, two prices and two    *)
(* quantities over five commands give two orders in one level, a level each *)
(* way, sweeps over two levels, partial fills on both sides, and replaces   *)
(* that reduce, grow, move and cross.                                       *)
(***************************************************************************)
EXTENDS BookViews

\* Order identifiers are only ever compared for equality.
Symmetry == Permutations(OrderId)

\* validate_invariants(), to hold after every command: the spread, the levels,
\* their aggregated units, the index and the count.
ValidateInvariants ==
    /\ Uncrossed
    /\ \A s \in Side : \A p \in prices[s] :
          /\ orders[s][p] # <<>> /\ total[s][p] # 0
          /\ total[s][p] = FoldSeq(LAMBDA o, sum : o.units + sum, 0, orders[s][p]) % UnitModulus
          /\ \A i \in DOMAIN orders[s][p] :
                where[orders[s][p][i].id] = [side |-> s, price |-> p]
    /\ count = Cardinality({id \in OrderId : where[id] # Nowhere})
    /\ count = Cardinality(UNION {{<<s, p, i>> : i \in DOMAIN orders[s][p]}
                                     : s \in Side, p \in Price})
==============================================================================
