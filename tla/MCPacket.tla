------------------------------- MODULE MCPacket -------------------------------
(* Values of Packet's constants for TLC: IPv4 frames under every link      *)
(* header, IPv6 frames with chains of up to three extension headers, and   *)
(* chains at the parser's limit of eight.                                  *)
EXTENDS Packet, FiniteSets

Plain ==
  [link |-> "ethernet", tags |-> 0, ether |-> "ipv4", version |-> 4, words |-> 5,
   first |-> TRUE, chain |-> <<>>, protocol |-> "tcp",
   source |-> TRUE, destination |-> FALSE]

LinkFrames ==
  {[Plain EXCEPT !.link = l, !.tags = t, !.ether = e, !.version = v] :
     l \in {"ethernet", "raw", "linux_sll", "linux_sll2", "unsupported"},
     t \in 0 .. 3, e \in {"ipv4", "ipv6", "arp"}, v \in {4, 5, 6}}

Ipv4Frames ==
  {[Plain EXCEPT !.words = w, !.first = f, !.protocol = p,
                 !.source = s, !.destination = d] :
     w \in {4, 5, 6, 15}, f \in BOOLEAN, p \in {"tcp", "udp", "icmp", "other"},
     s \in BOOLEAN, d \in BOOLEAN}

Headers ==
  {[kind |-> "options", length |-> l, first |-> TRUE] : l \in {8, 16}} \cup
  {[kind |-> "fragment", length |-> 8, first |-> f] : f \in BOOLEAN} \cup
  {[kind |-> "authentication", length |-> l, first |-> TRUE] : l \in {12, 16}}

Options(count) ==
  [i \in 1 .. count |-> [kind |-> "options", length |-> 8, first |-> TRUE]]

Chains == UNION {[1 .. n -> Headers] : n \in 0 .. 2} \cup
          {Append(Options(n), h) : n \in 2 .. 8, h \in Headers}

Ipv6Frames ==
  {[Plain EXCEPT !.link = l, !.ether = "ipv6", !.version = 6, !.chain = c,
                 !.protocol = p] :
     l \in {"ethernet", "raw"}, c \in Chains, p \in {"udp", "icmp"}}

MCFrames == LinkFrames \cup Ipv4Frames \cup Ipv6Frames
===============================================================================
