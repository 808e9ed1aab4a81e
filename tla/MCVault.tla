------------------------------- MODULE MCVault --------------------------------
(****************************************************************************)
(* Small instances of Vault.  Two FQDNs in different domains share the      *)
(* short label "bare" and probe the same pseudonyms, whose roots "bare" and *)
(* a further short name probe as well: collisions, aliases refused for      *)
(* their label and for their root, and exhaustion all happen.               *)
(****************************************************************************)
EXTENDS Vault, TLC

CONSTANTS fqdnA, fqdnB,           \* web01.milano, web01.roma
          bare, other,            \* web01, db07
          maskA, maskB,           \* two masked FQDNs, host-x.masked.local
          rootA, rootB            \* and their first labels, host-x

MCNames == {fqdnA, fqdnB, bare, other}
MCTokens == {maskA, maskB, rootA, rootB}

MCPrf ==
    (fqdnA :> (0 :> maskA @@ 1 :> maskB)) @@
    (fqdnB :> (0 :> maskA @@ 1 :> maskB)) @@
    (bare  :> (0 :> rootA @@ 1 :> rootA)) @@
    (other :> (0 :> rootA @@ 1 :> rootB))

MCLabel == (fqdnA :> bare) @@ (fqdnB :> bare) @@ (bare :> NoName)
              @@ (other :> NoName)
MCRoot == (maskA :> rootA) @@ (maskB :> rootB) @@ (rootA :> rootA)
            @@ (rootB :> rootB)

\* The smaller instance of the liveness run: one FQDN and its label.
MCPair == {fqdnA, bare}
MCPairPrf == [n \in MCPair |-> MCPrf[n]]
MCPairLabel == [n \in MCPair |-> MCLabel[n]]

===============================================================================
