-------------------------------- MODULE Packet --------------------------------
(***************************************************************************)
(* The header parser of src/packet.rs: which flow the first captured bytes *)
(* of a frame belong to.                                                   *)
(*                                                                         *)
(* A frame on the wire is a record of its headers; where a header lies     *)
(* follows from the lengths of those before it.  The capture keeps a       *)
(* prefix of the frame, and parse_packet requires each header to lie in it *)
(* before it is read.  Port numbers are represented by the offset they are *)
(* read at, and PacketError by Error, as the capture loop only counts it.  *)
(***************************************************************************)
EXTENDS Integers, Sequences, SequencesExt

CONSTANTS
  Frames,   \* the frames on the wire
  Error,    \* Err(_)
  None,     \* Ok(None)
  SnapLen   \* the bytes of a frame the capture keeps at most

(* How long an extension header can be: what its length field, one byte,   *)
(* can say, in units of 8 bytes after the first one or, for the            *)
(* authentication header, of 4 bytes after the first two.  A fragment      *)
(* header has no length field.                                             *)
Lengths == [options        |-> {8 * (n + 1) : n \in 0 .. 255},
            fragment       |-> {8},
            authentication |-> {4 * (n + 2) : n \in 0 .. 255}]

Extension ==
  {h \in [kind : DOMAIN Lengths, length : Nat, first : BOOLEAN] :
     h.length \in Lengths[h.kind]}

Frame ==
  [link : {"ethernet", "raw", "linux_sll", "linux_sll2", "unsupported"},
   tags : Nat,                         \* VLAN tags before the ether type
   ether : {"ipv4", "ipv6", "arp"},
   version : {4, 5, 6},                \* the first nibble after the link header
   words : 0 .. 15,                    \* the IPv4 header length field
   first : BOOLEAN,                    \* the IPv4 fragment offset is 0
   chain : Seq(Extension),             \* the IPv6 extension headers
   protocol : {"tcp", "udp", "icmp", "other"},
   source : BOOLEAN,                   \* the source is one of the local IPs
   destination : BOOLEAN]              \* and so is the destination

ASSUME FrameAssumption == Frames \subseteq Frame /\ SnapLen \in Nat

VARIABLES
  frame,     \* a frame on the wire
  captured   \* how many of its bytes the capture keeps

vars == <<frame, captured>>

-------------------------------------------------------------------------------
(* The link header: where the IP header starts, how many bytes must be     *)
(* there, and what follows.  At most two VLAN tags are skipped, and only   *)
(* after an Ethernet header.                                               *)
ip_offset(f) ==
  LET tags  == IF f.tags < 2 THEN f.tags ELSE 2
      inner == IF f.tags > tags THEN "vlan" ELSE f.ether
      outer == IF f.tags > 0 THEN "vlan" ELSE f.ether
  IN  CASE f.link = "ethernet"   -> [at |-> 14 + 4 * tags, need |-> 14 + 4 * tags,
                                     ether |-> inner]
        [] f.link = "raw"        -> [at |-> 0, need |-> 1,
                                     ether |-> CASE f.version = 4 -> "ipv4"
                                                 [] f.version = 6 -> "ipv6"
                                                 [] OTHER -> "invalid"]
        [] f.link = "linux_sll"  -> [at |-> 16, need |-> 16, ether |-> outer]
        [] f.link = "linux_sll2" -> [at |-> 20, need |-> 20, ether |-> outer]
        [] OTHER                 -> [at |-> 0, need |-> 0, ether |-> "invalid"]

direction(f) ==
  CASE f.source /\ ~f.destination -> "egress"
    [] ~f.source /\ f.destination -> "ingress"
    [] f.source /\ f.destination  -> "internal"
    [] OTHER                      -> "unknown"

(* The first n bytes of a frame reach to a position computed from lengths, *)
(* an usize; otherwise the parser ends with an error.                      *)
require(n, length) == length \in 0 .. n

Flow(f, protocol, ports) ==
  [direction |-> direction(f), protocol |-> protocol, ports |-> ports]

(* Mutant of parse_ports: ports that were not captured are left out.       *)
PortsIfCaptured(f, n, at, protocol) ==
  Flow(f, protocol, IF protocol \in {"tcp", "udp"} /\ require(n, at + 4) THEN at ELSE None)

parse_ports(f, n, at, protocol) ==
  IF protocol \notin {"tcp", "udp"} THEN Flow(f, protocol, None)
  ELSE IF require(n, at + 4)        THEN Flow(f, protocol, at)
                                    ELSE Error

parse_ipv4(f, n, at) ==
  IF /\ require(n, at + 20) /\ f.version = 4 /\ f.words >= 5
     /\ require(n, at + 4 * f.words)
  THEN IF f.first THEN parse_ports(f, n, at + 4 * f.words, f.protocol)
                  ELSE Flow(f, f.protocol, None)
  ELSE Error

(* The length field as a sender writes it, and how the parser reads it.    *)
LengthField(h) ==
  IF h.kind = "authentication" THEN h.length \div 4 - 2 ELSE h.length \div 8 - 1

(* Mutant of extension_length: one unit for all headers.                   *)
length_in_words(h) == IF h.kind = "fragment" THEN 8 ELSE (LengthField(h) + 1) * 8

extension_length(h) ==
  CASE h.kind = "options"        -> (LengthField(h) + 1) * 8
    [] h.kind = "fragment"       -> 8
    [] h.kind = "authentication" -> (LengthField(h) + 2) * 4

(* At most eight extension headers are walked, each required to its end.   *)
skip(w, h) ==
  LET end == w.at + extension_length(h)
  IN  [at    |-> end,
       first |-> IF h.kind = "fragment" THEN h.first ELSE w.first,
       ends  |-> w.ends \cup {end}]

walk(f, start) ==
  FoldLeft(skip, [at |-> start, first |-> TRUE, ends |-> {}],
           SubSeq(f.chain, 1, IF Len(f.chain) < 8 THEN Len(f.chain) ELSE 8))

parse_ipv6(f, n, at) ==
  LET w        == walk(f, at + 40)
      protocol == IF Len(f.chain) > 8 THEN "other" ELSE f.protocol
  IN  IF /\ require(n, at + 40) /\ f.version = 6
         /\ \A end \in w.ends : require(n, end)
      THEN IF w.first THEN parse_ports(f, n, w.at, protocol)
                      ELSE Flow(f, protocol, None)
      ELSE Error

parse_packet(f, n) ==
  LET ip == ip_offset(f)
  IN  IF require(n, ip.need) /\ ip.ether # "invalid"
      THEN CASE ip.ether = "ipv4" -> parse_ipv4(f, n, ip.at)
             [] ip.ether = "ipv6" -> parse_ipv6(f, n, ip.at)
             [] OTHER             -> None
      ELSE Error

-------------------------------------------------------------------------------
(* One frame, captured with a snapshot length that grows byte by byte.     *)
Init == frame \in Frames /\ captured = 0

CaptureMore ==
  /\ captured < SnapLen
  /\ captured' = captured + 1
  /\ UNCHANGED frame

Next == CaptureMore

Spec == Init /\ [][Next]_vars

-------------------------------------------------------------------------------
(* Properties.                                                             *)

ChainLength(chain) == FoldLeft(LAMBDA total, h : total + h.length, 0, chain)

LinkLength(f) == CASE f.link = "ethernet"   -> 14 + 4 * f.tags
                   [] f.link = "raw"        -> 0
                   [] f.link = "linux_sll"  -> 16
                   [] f.link = "linux_sll2" -> 20

IpLength(f) == IF f.ether = "ipv4" THEN 4 * f.words ELSE 40 + ChainLength(f.chain)

(* A fragment that is not the first one carries no transport header.       *)
FirstFragment(f) ==
  IF f.ether = "ipv4" THEN f.first
  ELSE \A i \in DOMAIN f.chain : f.chain[i].kind = "fragment" => f.chain[i].first

(* Frames as hosts send them, and within what the parser means to handle.  *)
WellFormed(f) ==
  /\ f.link # "unsupported"
  /\ f.tags <= IF f.link = "ethernet" THEN 2 ELSE 0
  /\ f.ether # "arp" /\ f.version = (IF f.ether = "ipv4" THEN 4 ELSE 6)
  /\ f.ether = "ipv4" => f.words >= 5
  /\ f.ether = "ipv6" =>
       /\ Len(f.chain) <= 8
       /\ \A i \in DOMAIN f.chain :
            f.chain[i].kind = "fragment" /\ ~f.chain[i].first => i = Len(f.chain)

HasPorts(f) == f.protocol \in {"tcp", "udp"} /\ FirstFragment(f)

(* The parser finds the flow of a well-formed frame, with its ports where  *)
(* the transport header really is, exactly when all the headers it needs   *)
(* were captured; otherwise it reports an error and never another flow.    *)
FindsTheFlow ==
  WellFormed(frame) =>
    LET ports == LinkLength(frame) + IpLength(frame)
    IN  parse_packet(frame, captured) =
          IF captured < ports + (IF HasPorts(frame) THEN 4 ELSE 0)
            THEN Error
            ELSE Flow(frame, frame.protocol, IF HasPorts(frame) THEN ports ELSE None)

(* How much of a frame was captured never changes the flow it is counted   *)
(* for: once a prefix is enough, any longer one gives the same answer.     *)
(* This is so for malformed frames too.                                    *)
CaptureLengthIrrelevant ==
  [][parse_packet(frame, captured) # Error =>
       parse_packet(frame', captured') = parse_packet(frame, captured)]_vars
===============================================================================
