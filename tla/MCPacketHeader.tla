---------------------------- MODULE MCPacketHeader ----------------------------
(***************************************************************************)
(* The headers TLC looks at: Ethernet frames with every way to IP, bare IP *)
(* headers with chains of extensions, and wireless headers.                *)
(***************************************************************************)
EXTENDS PacketHeader

Plain == [ protocol |-> "IPv4", len |-> 64, tags |-> <<>>, encap |-> "ethernet",
           type |-> "other", version |-> 4, ihl |-> 5, fragment |-> FALSE,
           extensions |-> <<>>, above |-> "udp",
           control |-> "data", toDS |-> FALSE, fromDS |-> FALSE ]

Ethernet ==
    { [Plain EXCEPT !.protocol = "ETHERNET_ISO8023", !.len = len, !.tags = tags,
                    !.encap = encap, !.type = type, !.version = version, !.ihl = ihl] :
        len \in {13, 33, 34, 42, 50, 60, 80}, tags \in {<<>>, <<"8100">>, <<"8100", "9100">>},
        encap \in Encapsulations, type \in {"ipv4", "ipv6", "other"},
        version \in {4, 6}, ihl \in {4, 5, 15} }

IPv4 ==
    { [Plain EXCEPT !.len = len, !.ihl = ihl, !.fragment = fragment, !.above = above] :
        len \in {20, 28, 64}, ihl \in {0, 5, 15}, fragment \in BOOLEAN,
        above \in {"icmp", "tcp", "udp", "other"} }

IPv6 ==
    { [Plain EXCEPT !.protocol = "IPv6", !.version = version, !.len = len,
                    !.extensions = extensions, !.above = above] :
        version \in {4, 6}, len \in {40, 48, 96, 128},
        extensions \in {<<>>, <<0>>, <<1, 0>>, <<0, 2, 1>>},
        above \in {"icmp", "tcp", "udp", "other"} }

Wireless ==
    { [Plain EXCEPT !.protocol = "IEEE80211MAC", !.len = len, !.control = control,
                    !.toDS = toDS, !.fromDS = fromDS] :
        len \in {23, 64}, control \in {"data", "other"},
        toDS \in BOOLEAN, fromDS \in BOOLEAN }

SomeHeaders == Ethernet \cup IPv4 \cup IPv6 \cup Wireless

=============================================================================
