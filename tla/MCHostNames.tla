----------------------------- MODULE MCHostNames ------------------------------
(****************************************************************************)
(* Two FQDNs share a label long enough for an alias; a third has a label of *)
(* three characters, which is linked but gets no alias row.                 *)
(****************************************************************************)
EXTENDS HostNames, TLC

CONSTANTS webMilano, webRoma, web01,   \* web01.milano.local, web01.roma.local,
          dcCorp, dc1,                 \* and web01; dc1.corp.local and dc1
          lookalike                    \* host-abcd1234, not a token

MCLabel == (webMilano :> web01) @@ (webRoma :> web01) @@ (dcCorp :> dc1)

===============================================================================
