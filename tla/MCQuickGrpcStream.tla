------------------------ MODULE MCQuickGrpcStream ------------------------
EXTENDS QuickGrpcStream, TLC
CONSTANTS a1, a2, a3
\* Two argument objects with the same content, and one with another.
MCContent == (a1 :> 1) @@ (a2 :> 1) @@ (a3 :> 2)
\* Elements, clients, the methods that can be streamed and the arguments that are
\* alike are interchangeable.
Symm ==
    Permutations(Elements) \cup Permutations(Clients) \cup Permutations(Streamable)
        \cup Permutations({a1, a2})
=============================================================================
