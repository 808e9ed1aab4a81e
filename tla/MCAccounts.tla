------------------------------ MODULE MCAccounts ------------------------------
(****************************************************************************)
(* An administrator, a reverser and a name still free; two requests in      *)
(* flight.                                                                  *)
(****************************************************************************)
EXTENDS Accounts, TLC

CONSTANTS ann, bob, eve, acme, ford, pw1, pw2, s1

Symmetry == Permutations(Slots)

Blank == [kind |-> "work", user |-> None, role |-> None, tenants |-> None,
          active |-> None, old |-> None, pw |-> None, perm |-> None, tenant |-> None]

MCJobs ==
    {[Blank EXCEPT !.kind = "logout"],
     [Blank EXCEPT !.kind = "change", !.old = pw1, !.pw = pw2],
     [Blank EXCEPT !.kind = "create", !.user = eve, !.role = "operator",
                   !.tenants = {acme}, !.pw = pw1],
     [Blank EXCEPT !.perm = "reverse", !.tenant = ford],
     [Blank EXCEPT !.perm = "reports", !.tenant = ford]}
    \cup
    {[Blank EXCEPT !.kind = "patch", !.user = bob, !.role = "admin"],
     [Blank EXCEPT !.kind = "patch", !.user = bob, !.pw = pw2],
     [Blank EXCEPT !.kind = "patch", !.user = bob, !.role = "operator",
                   !.tenants = {ford}],
     [Blank EXCEPT !.kind = "patch", !.user = ann, !.active = FALSE]}

\* Two patches of the reverser's account.
PatchJobs ==
    {[Blank EXCEPT !.kind = "patch", !.user = bob, !.role = "admin"],
     [Blank EXCEPT !.kind = "patch", !.user = bob, !.pw = pw2]}

MCInitialUsers ==
    [u \in Users |->
        CASE u = ann -> [role |-> "admin", active |-> TRUE, must |-> FALSE,
                         pw |-> pw1, tenants |-> {Wildcard}]
          [] u = bob -> [role |-> "reverser", active |-> TRUE, must |-> FALSE,
                         pw |-> pw1, tenants |-> {acme}]
          [] OTHER   -> [role |-> None, active |-> FALSE, must |-> FALSE,
                         pw |-> pw1, tenants |-> {}]]

\* The administrator is logged in.
MCInitialSessions ==
    [s \in Tokens |->
        IF s = s1
        THEN [user |-> ann, born |-> 0, seen |-> 0, revoked |-> FALSE, pw |-> pw1]
        ELSE [user |-> None, born |-> 0, seen |-> 0, revoked |-> FALSE, pw |-> None]]

===============================================================================
