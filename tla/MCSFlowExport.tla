----------------------------- MODULE MCSFlowExport -----------------------------
(***************************************************************************)
(* The sampled headers TLC looks at: of each protocol, with and without    *)
(* what the layers above may do to the fields.                             *)
(***************************************************************************)
EXTENDS SFlowExport

Frame(protocol, link, tag, fragment, above) ==
    [protocol |-> protocol, link |-> link, tag |-> tag, fragment |-> fragment, above |-> above]

SomeFrames ==
    { Frame("ETHERNET_ISO8023", "IPv4", "none", FALSE, "udp"),
      Frame("ETHERNET_ISO8023", "IPv4", "other", TRUE, "udp"),
      Frame("ETHERNET_ISO8023", "IPv6", "zero", FALSE, "tcp"),
      Frame("ETHERNET_ISO8023", "type", "other", FALSE, "cut"),
      Frame("ETHERNET_ISO8023", "none", "none", FALSE, "cut"),
      Frame("IPv4", "none", "none", FALSE, "cut"),
      Frame("IPv6", "none", "none", FALSE, "walk"),
      Frame("IPv6", "none", "none", FALSE, "bad"),
      Frame("IEEE80211MAC", "addresses", "none", FALSE, "cut"),
      Frame("NO_DECODE", "none", "none", FALSE, "other") }

SomeFilters == {{"other"}, {"zero", "other"}}

\* Headers enough to see a field of one sample in the output of the next.
FewFrames ==
    { Frame("ETHERNET_ISO8023", "IPv4", "none", FALSE, "udp"),
      Frame("ETHERNET_ISO8023", "IPv4", "other", FALSE, "tcp"),
      Frame("NO_DECODE", "none", "none", FALSE, "other") }

=============================================================================
