------------------------------ MODULE TokenStore ------------------------------
(****************************************************************************)
(* What a tenant vault promises to whoever receives a pseudonymised export, *)
(* without saying how: a token is bound to one name, for good, before it    *)
(* leaves the program; a name never has two tokens and a token never stands *)
(* for two names.  Module Vault is shown to implement this specification.   *)
(****************************************************************************)

CONSTANTS
    Names,      \* normalised originals (kind and value together)
    Tokens,     \* pseudonyms
    NoToken     \* "this name has no row"

VARIABLES
    bound,      \* bound[n]: the token durably bound to name n, or NoToken
    handed      \* the pairs <<name, token>> that left the program

vars == <<bound, handed>>

\* Two names never share a token.
Injective(f) ==
    \A m, n \in Names : f[m] # NoToken /\ f[m] = f[n] => m = n

\* g binds everything f binds, to the same tokens.
Extends(g, f) ==
    \A n \in Names : f[n] # NoToken => g[n] = f[n]

Init ==
    /\ bound = [n \in Names |-> NoToken]
    /\ handed = {}

\* One committed request binds any number of new names at once.
Bind ==
    /\ bound' \in [Names -> Tokens \cup {NoToken}]
    /\ Injective(bound')
    /\ Extends(bound', bound)
    /\ UNCHANGED handed

\* An export leaves the program: all it contains is bound already.
HandOut ==
    /\ handed \subseteq handed'
    /\ \A p \in handed' \ handed : p[1] \in Names /\ p[2] # NoToken
                                               /\ bound[p[1]] = p[2]
    /\ UNCHANGED bound

Next == Bind \/ HandOut

Spec == Init /\ [][Next]_vars

===============================================================================
