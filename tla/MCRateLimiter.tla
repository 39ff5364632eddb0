--------------------------- MODULE MCRateLimiter ---------------------------
(* Instances of RateLimiter for TLC. *)
EXTENDS RateLimiter, FiniteSets, TLC

CONSTANTS r1, r2, r3, r4, alice, bob

MCTenants == {alice, bob}
MCRequests == {r1, r2, r3, r4}

\* Two of the three names are the same up to the cut.
MCNames == {"alice, long", "alice, longer", "bob"}
MCCut == ("alice, long" :> alice) @@ ("alice, longer" :> alice) @@ ("bob" :> bob)
MCHeader == (r1 :> "alice, long") @@ (r2 :> "alice, longer")
            @@ (r3 :> "alice, long") @@ (r4 :> "bob")

\* Three requests of one tenant, the situation of the rate-limit test.
AliceRequests == {r1, r2, r3}
AliceHeader == [r \in AliceRequests |-> "alice, long"]

\* A tenant is granted at most the configured capacity and the refill since
\* the start, as the test of the limiter expects of "capacity 2, no refill".
TenantCapacity ==
  \A t \in Tenants : Unit * Cardinality(GrantedTo(t)) <= Cap + Refill * now
=============================================================================
