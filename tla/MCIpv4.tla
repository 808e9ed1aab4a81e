-------------------------------- MODULE MCIpv4 --------------------------------
(****************************************************************************)
(* Two customer networks, as many synthetic ones, two octets: a pseudonym   *)
(* treated again asks for a third synthetic network, which is not there.    *)
(****************************************************************************)
EXTENDS Ipv4, TLC

CONSTANTS milano, roma,       \* 10.1.1, 10.1.2
          bench1, bench2,     \* 198.18.7, 198.18.9
          five, six           \* last octets

Symmetry == Permutations({milano, roma}) \cup Permutations({bench1, bench2})
                \cup Permutations({five, six})

===============================================================================
