----------------------------- MODULE MCPcapReader -----------------------------
(***************************************************************************)
(* The packets TLC looks at: every way to IP, of lengths around each of    *)
(* the checks on it.                                                       *)
(***************************************************************************)
EXTENDS PcapReader

SomeFrames ==
    [ len : {14, 48, 60, 80, 100},
      tags : {<<>>, <<"8100">>, <<"8100", "8100">>, <<"9100">>},
      encap : {"ethernet", "snap", "ip8022", "vendor"},
      type : {"ipv4", "ipv6", "other"},
      version : {4, 6}, ihl : {4, 5, 6} ]

=============================================================================
