------------------------------- MODULE MCNd -------------------------------
(* PlanNd and NdExecute for TLC. *)
EXTENDS NdExecute

Shapes(n, S) == [1..n -> S]
Asked(api, D) == {[api |-> api, dims |-> d] : d \in D}

\* Complex transforms of two, three and four dimensions, lengths repeated in
\* every pattern.
MCComplex == Asked("complex", Shapes(2, {2, 4, 8}) \cup Shapes(3, {2, 4, 8})
                                  \cup Shapes(4, {2, 4}))

\* The two-dimensional real transforms whose lengths stay distinct.
MCReal2d ==
    Asked("forward", {d \in Shapes(2, {2, 3, 4, 8, 16}) : d[1] # d[2] \div 2 + 1}) \cup
    Asked("inverse", {d \in Shapes(2, {2, 3, 4, 8, 16}) : d[1] # d[2]})

\* Plans that the inits and the destroy functions agree about.
MCPlans == MCComplex \cup MCReal2d

MCNoneFails == {}
MCRealFails == {"forward", "inverse"}

\* Requests with a dimension of a single point, which ffts_init_1d refuses.
MCPairs == Asked("complex", Shapes(2, {1, 2, 4}))

\* Lengths that are a multiple of the blocks ffts_transpose moves, and shorter ones.
MCBlocks == Asked("complex", Shapes(2, {4, 8, 16}))

\* Real transforms of three dimensions.
MCCubes == Asked("forward", Shapes(3, {2, 4, 8}))
==============================================================================
