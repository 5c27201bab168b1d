------------------------------ MODULE PacketProofs -----------------------------
(***************************************************************************)
(* Theorems about the header parser, for every frame and every snapshot    *)
(* length.  That capturing more changes nothing is shown with the walk     *)
(* over the IPv6 extension headers left folded; that the walk ends where   *)
(* the headers end is shown from its closed form, Walked.                  *)
(***************************************************************************)
EXTENDS Packet, SumProofs

-------------------------------------------------------------------------------
(* Capturing more of a frame.                                              *)

(* What is there stays there when more is captured.                        *)
LEMMA RequireLonger ==
  ASSUME NEW n \in Nat, NEW m \in Nat, n <= m, NEW length, require(n, length)
  PROVE  require(m, length)
BY DEF require

(* Ports that were found are found again.                                  *)
LEMMA PortsLonger ==
  ASSUME NEW n \in Nat, NEW m \in Nat, n <= m, NEW f, NEW at, NEW protocol,
         parse_ports(f, n, at, protocol) # Error
  PROVE  parse_ports(f, m, at, protocol) = parse_ports(f, n, at, protocol)
<1>1. CASE protocol \notin {"tcp", "udp"}
  BY <1>1 DEF parse_ports
<1>2. CASE protocol \in {"tcp", "udp"}
  <2>1. require(n, at + 4)
    BY <1>2 DEF parse_ports
  <2>2. require(m, at + 4)
    BY <2>1, RequireLonger
  <2> QED
    BY <1>2, <2>1, <2>2 DEF parse_ports
<1> QED
  BY <1>1, <1>2

(* An IPv4 header that was parsed is parsed the same way again.            *)
LEMMA Ipv4Longer ==
  ASSUME NEW n \in Nat, NEW m \in Nat, n <= m, NEW f, NEW at,
         parse_ipv4(f, n, at) # Error
  PROVE  parse_ipv4(f, m, at) = parse_ipv4(f, n, at)
<1> DEFINE top == at + 4 * f.words
<1>1. require(n, at + 20) /\ f.version = 4 /\ f.words >= 5 /\ require(n, top)
  BY DEF parse_ipv4
<1>2. require(m, at + 20) /\ require(m, top)
  BY <1>1, RequireLonger
<1>3. CASE f.first
  <2>1. /\ parse_ipv4(f, n, at) = parse_ports(f, n, top, f.protocol)
        /\ parse_ipv4(f, m, at) = parse_ports(f, m, top, f.protocol)
    BY <1>1, <1>2, <1>3 DEF parse_ipv4
  <2> HIDE DEF top
  <2> QED
    BY <2>1, PortsLonger
<1>4. CASE ~f.first
  BY <1>1, <1>2, <1>4 DEF parse_ipv4
<1> QED
  BY <1>3, <1>4

(* So is an IPv6 header, with all the extension headers after it.          *)
LEMMA Ipv6Longer ==
  ASSUME NEW n \in Nat, NEW m \in Nat, n <= m, NEW f, NEW at,
         parse_ipv6(f, n, at) # Error
  PROVE  parse_ipv6(f, m, at) = parse_ipv6(f, n, at)
<1> DEFINE w        == walk(f, at + 40)
           protocol == IF Len(f.chain) > 8 THEN "other" ELSE f.protocol
<1>1. require(n, at + 40) /\ f.version = 6 /\ \A end \in w.ends : require(n, end)
  BY DEF parse_ipv6
<1>2. require(m, at + 40) /\ \A end \in w.ends : require(m, end)
  BY <1>1, RequireLonger
<1>3. /\ parse_ipv6(f, n, at) = IF w.first THEN parse_ports(f, n, w.at, protocol)
                                           ELSE Flow(f, protocol, None)
      /\ parse_ipv6(f, m, at) = IF w.first THEN parse_ports(f, m, w.at, protocol)
                                           ELSE Flow(f, protocol, None)
  BY <1>1, <1>2 DEF parse_ipv6
<1> HIDE DEF w, protocol
<1> QED
  BY <1>3, PortsLonger

(* Once a prefix is enough, any longer one gives the same answer.          *)
LEMMA PacketLonger ==
  ASSUME NEW n \in Nat, NEW m \in Nat, n <= m, NEW f, parse_packet(f, n) # Error
  PROVE  parse_packet(f, m) = parse_packet(f, n)
<1> DEFINE ip == ip_offset(f)
<1>1. require(n, ip.need) /\ ip.ether # "invalid"
  BY DEF parse_packet
<1>2. require(m, ip.need)
  BY <1>1, RequireLonger
<1>3. \A k \in {n, m} :
        parse_packet(f, k) = CASE ip.ether = "ipv4" -> parse_ipv4(f, k, ip.at)
                               [] ip.ether = "ipv6" -> parse_ipv6(f, k, ip.at)
                               [] OTHER             -> None
  BY <1>1, <1>2 DEF parse_packet
<1> HIDE DEF ip
<1>4. CASE ip.ether = "ipv4"
  BY <1>3, <1>4, Ipv4Longer
<1>5. CASE ip.ether = "ipv6"
  BY <1>3, <1>5, Ipv6Longer
<1>6. CASE ip.ether \notin {"ipv4", "ipv6"}
  BY <1>3, <1>6
<1> QED
  BY <1>4, <1>5, <1>6

-------------------------------------------------------------------------------
(* Folds over a sequence.                                                  *)

(* Two functions on the subsets of a finite set of numbers that agree on a *)
(* set whenever they agree on it without its greatest element agree on the *)
(* whole set.  FoldLeft is the value of such a function, so that a fold is *)
(* whatever a closed form with the same recursion says.                    *)
LEMMA FoldsAgree ==
  ASSUME NEW D, IsFiniteSet(D), \A i \in D : i \in Nat, NEW g, NEW h,
         g[{}] = h[{}],
         \A s \in SUBSET D : s # {} /\ g[s \ {Max(s)}] = h[s \ {Max(s)}] => g[s] = h[s]
  PROVE  g[D] = h[D]
<1> DEFINE Bad == {s \in SUBSET D : g[s] # h[s]}
<1>1. SUFFICES ASSUME Bad # {}
               PROVE  FALSE
  <2>1. D \notin Bad
    BY <1>1
  <2> QED
    BY <2>1
<1>2. PICK s \in Bad : \A u \in Bad : ~(u \subseteq s /\ u # s)
  <2>1. Bad \in SUBSET SUBSET D
    OBVIOUS
  <2> HIDE DEF Bad
  <2> QED
    BY <1>1, <2>1, LeastSubset
<1>3. s \in SUBSET D /\ s # {} /\ g[s] # h[s]
  BY <1>2
<1>4. Max(s) \in s
  <2>1. IsFiniteSet(s) /\ \A i \in s : i \in Nat
    BY <1>3, FS_Subset
  <2> QED
    BY <1>3, <2>1, Extremes
<1>5. s \ {Max(s)} \notin Bad
  BY <1>2, <1>4
<1> QED
  BY <1>3, <1>5

(* The indices of a sequence.                                              *)
LEMMA Indices ==
  ASSUME NEW S, NEW chain \in Seq(S)
  PROVE  /\ DOMAIN chain = 1 .. Len(chain) /\ Len(chain) \in Nat
         /\ IsFiniteSet(DOMAIN chain) /\ \A i \in DOMAIN chain : i \in Nat /\ chain[i] \in S
<1>1. DOMAIN chain = 1 .. Len(chain) /\ Len(chain) \in Nat
  OBVIOUS
<1> QED
  BY <1>1, FS_Interval, SMTT(30)

-------------------------------------------------------------------------------
(* The extension headers.                                                  *)

LengthsOf(chain) == [i \in DOMAIN chain |-> chain[i].length]

(* The parser takes a header to be as long as it is.                       *)
LEMMA HeaderLength ==
  ASSUME NEW h \in Extension
  PROVE  /\ extension_length(h) = h.length /\ h.length \in Nat /\ h.first \in BOOLEAN
<1>1. /\ h.kind \in {"options", "fragment", "authentication"}
      /\ h.length \in Nat /\ h.first \in BOOLEAN /\ h.length \in Lengths[h.kind]
  BY DEF Extension, Lengths
<1>2. CASE h.kind = "options"
  <2>1. PICK n \in 0 .. 255 : h.length = 8 * (n + 1)
    BY <1>1, <1>2 DEF Lengths
  <2>2. h.length \div 8 = n + 1
    BY <2>1
  <2> QED
    BY <1>1, <1>2, <2>1, <2>2 DEF extension_length, LengthField
<1>3. CASE h.kind = "fragment"
  BY <1>1, <1>3 DEF extension_length, Lengths
<1>4. CASE h.kind = "authentication"
  <2>1. PICK n \in 0 .. 255 : h.length = 4 * (n + 2)
    BY <1>1, <1>4 DEF Lengths
  <2>2. h.length \div 4 = n + 2
    BY <2>1
  <2> QED
    BY <1>1, <1>4, <2>1, <2>2 DEF extension_length, LengthField
<1> QED
  BY <1>1, <1>2, <1>3, <1>4

(* The lengths of a chain can be added up.                                 *)
LEMMA LengthsNat ==
  ASSUME NEW chain \in Seq(Extension), NEW s \in SUBSET DOMAIN chain
  PROVE  /\ IsFiniteSet(s) /\ \A i \in s : i \in Nat /\ LengthsOf(chain)[i] \in Nat
         /\ Sum(LengthsOf(chain), s) \in Nat
<1>1. IsFiniteSet(s) /\ \A i \in s : i \in Nat /\ i \in DOMAIN chain /\ chain[i] \in Extension
  BY Indices, FS_Subset
<1>2. \A i \in s : LengthsOf(chain)[i] \in Nat
  BY <1>1, HeaderLength DEF LengthsOf
<1> QED
  BY <1>1, <1>2, SumNat

(* The length of a chain is the sum of the lengths of its headers.         *)
LEMMA ChainAdds ==
  ASSUME NEW chain \in Seq(Extension)
  PROVE  ChainLength(chain) = Sum(LengthsOf(chain), DOMAIN chain)
<1> DEFINE D == DOMAIN chain
           Totals(g) == g = [s \in SUBSET D |->
                               IF s = {} THEN 0 ELSE g[s \ {Max(s)}] + chain[Max(s)].length]
           total  == CHOOSE g : Totals(g)
           closed == [s \in SUBSET D |-> Sum(LengthsOf(chain), s)]
<1>1. ChainLength(chain) = total[D]
  BY DEF ChainLength, FoldLeft, MapThenFoldSet
<1>2. \A s \in SUBSET D : s # {} => closed[s] = closed[s \ {Max(s)}] + chain[Max(s)].length
  <2> SUFFICES ASSUME NEW s \in SUBSET D, s # {}
               PROVE  closed[s] = closed[s \ {Max(s)}] + chain[Max(s)].length
    OBVIOUS
  <2> DEFINE m == Max(s)
  <2>1. m \in s
    BY LengthsNat, Extremes
  <2> HIDE DEF m
  <2>2. Sum(LengthsOf(chain), s) = LengthsOf(chain)[m] + Sum(LengthsOf(chain), s \ {m})
    BY <2>1, LengthsNat, SumTake
  <2>3. LengthsOf(chain)[m] = chain[m].length /\ LengthsOf(chain)[m] \in Nat
    BY <2>1, LengthsNat DEF LengthsOf
  <2>4. Sum(LengthsOf(chain), s \ {m}) \in Nat
    BY LengthsNat
  <2>5. closed[s] = closed[s \ {m}] + chain[m].length
    BY <2>2, <2>3, <2>4
  <2> QED
    BY <2>5 DEF m
<1>3. closed[{}] = 0
  BY SumEmpty
<1>4. Totals(closed)
  <2> DEFINE e(s) == IF s = {} THEN 0 ELSE closed[s \ {Max(s)}] + chain[Max(s)].length
  <2> HIDE DEF closed
  <2>1. \A s \in SUBSET D : closed[s] = e(s)
    BY <1>2, <1>3
  <2>2. closed = [s \in SUBSET D |-> closed[s]]
    BY DEF closed
  <2> HIDE DEF e
  <2>3. closed = [s \in SUBSET D |-> e(s)]
    BY <2>1, <2>2
  <2> QED
    BY <2>3 DEF e
<1>5. Totals(total)
  <2> HIDE DEF Totals, closed
  <2> QED
    BY <1>4
<1> HIDE DEF total
<1>6. total[{}] = 0 /\ \A s \in SUBSET D : s # {} =>
        total[s] = total[s \ {Max(s)}] + chain[Max(s)].length
  BY <1>5
<1>7. closed[D] = Sum(LengthsOf(chain), D)
  OBVIOUS
<1>8. IsFiniteSet(D) /\ \A i \in D : i \in Nat
  BY Indices
<1> HIDE DEF closed, Totals
<1>9. \A s \in SUBSET D : s # {} /\ total[s \ {Max(s)}] = closed[s \ {Max(s)}] =>
                             total[s] = closed[s]
  BY <1>2, <1>6
<1>10. total[D] = closed[D]
  <2>1. total[{}] = closed[{}]
    BY <1>3, <1>6
  <2> HIDE DEF D
  <2> QED
    BY <1>8, <1>9, <2>1, FoldsAgree
<1> QED
  BY <1>1, <1>7, <1>10

(* Where the walk is after the headers of s: behind them, with the end of  *)
(* each of them required.                                                  *)
UpTo(s, i) == {j \in s : j <= i}

Ends(chain, start, s) == {start + Sum(LengthsOf(chain), UpTo(s, i)) : i \in s}

Walked(chain, start, s) ==
  [at    |-> start + Sum(LengthsOf(chain), s),
   first |-> \A i \in s : chain[i].kind = "fragment" => chain[i].first,
   ends  |-> Ends(chain, start, s)]

(* Only the last header may be a fragment header of a later fragment.      *)
LastFragment(chain) ==
  \A i \in DOMAIN chain : chain[i].kind = "fragment" /\ ~chain[i].first => i = Len(chain)

(* The walk goes from one header to the next.                              *)
LEMMA WalkStep ==
  ASSUME NEW chain \in Seq(Extension), LastFragment(chain), NEW start \in Nat,
         NEW s \in SUBSET DOMAIN chain, s # {}
  PROVE  Walked(chain, start, s) = skip(Walked(chain, start, s \ {Max(s)}), chain[Max(s)])
<1> DEFINE m    == Max(s)
           rest == s \ {m}
           L    == LengthsOf(chain)
           w    == Walked(chain, start, rest)
           end  == start + Sum(L, s)
<1>1. m \in s /\ \A i \in s : i <= m
  BY LengthsNat, Extremes
<1>2. \A i \in s : i \in Nat /\ L[i] \in Nat
  BY LengthsNat
<1>3. /\ chain[m] \in Extension /\ m \in 1 .. Len(chain)
      /\ \A i \in s : i \in 1 .. Len(chain)
  BY <1>1, Indices
<1>4. Sum(L, s) = L[m] + Sum(L, rest) /\ Sum(L, rest) \in Nat
  <2> HIDE DEF m
  <2> QED
    BY <1>1, LengthsNat, SumTake
<1>5. extension_length(chain[m]) = L[m]
  BY <1>1, <1>3, HeaderLength DEF LengthsOf
<1> HIDE DEF m, L
<1>6. w.at + extension_length(chain[m]) = end
  BY <1>1, <1>2, <1>4, <1>5 DEF Walked, L
<1>7. (IF chain[m].kind = "fragment" THEN chain[m].first ELSE w.first)
        = \A i \in s : chain[i].kind = "fragment" => chain[i].first
  <2>1. w.first = \A i \in rest : chain[i].kind = "fragment" => chain[i].first
    BY DEF Walked
  <2>2. chain[m].first \in BOOLEAN
    BY <1>3, HeaderLength
  <2>3. ASSUME NEW i \in rest, chain[i].kind = "fragment"
        PROVE  chain[i].first
    <3>1. i # Len(chain)
      BY <1>1, <1>2, <1>3
    <3> QED
      BY <2>3, <3>1 DEF LastFragment
  <2>4. CASE chain[m].kind = "fragment"
    <3>1. chain[m].first <=> \A i \in s : chain[i].kind = "fragment" => chain[i].first
      BY <1>1, <2>3, <2>4
    <3> QED
      BY <2>2, <2>4, <3>1
  <2>5. CASE chain[m].kind # "fragment"
    <3>1. w.first <=> \A i \in s : chain[i].kind = "fragment" => chain[i].first
      BY <1>1, <2>1, <2>5
    <3> QED
      BY <2>1, <2>5, <3>1
  <2> QED
    BY <2>4, <2>5
<1>8. w.ends \cup {end} = Ends(chain, start, s)
  <2>1. w.ends = Ends(chain, start, rest)
    BY DEF Walked
  <2>2. \A i \in rest : UpTo(rest, i) = UpTo(s, i)
    <3> SUFFICES ASSUME NEW i \in rest
                 PROVE  UpTo(rest, i) = UpTo(s, i)
      OBVIOUS
    <3>1. i \in Nat /\ m \in Nat /\ i < m
      BY <1>1, <1>2
    <3> QED
      BY <3>1 DEF UpTo
  <2>3. UpTo(s, m) = s
    BY <1>1 DEF UpTo
  <2>4. Ends(chain, start, rest) = {start + Sum(L, UpTo(s, i)) : i \in rest}
    BY <2>2 DEF Ends, L
  <2>5. Ends(chain, start, s) = {start + Sum(L, UpTo(s, i)) : i \in s}
    BY DEF Ends, L
  <2> DEFINE e == [i \in s |-> start + Sum(L, UpTo(s, i))]
  <2>6. e[m] = end /\ s = rest \cup {m}
    BY <1>1, <2>3
  <2>7. Ends(chain, start, rest) = {e[i] : i \in rest} /\ Ends(chain, start, s) = {e[i] : i \in s}
    BY <2>4, <2>5
  <2> HIDE DEF w, e, end, rest
  <2>8. {e[i] : i \in s} = {e[i] : i \in rest} \cup {e[m]}
    BY <2>6
  <2> QED
    BY <2>1, <2>6, <2>7, <2>8
<1> HIDE DEF w
<1>9. skip(w, chain[m]) =
        [at    |-> end,
         first |-> \A i \in s : chain[i].kind = "fragment" => chain[i].first,
         ends  |-> Ends(chain, start, s)]
  BY <1>6, <1>7, <1>8 DEF skip
<1>10. Walked(chain, start, s) = skip(w, chain[m])
  BY <1>9 DEF Walked, L
<1> QED
  BY <1>10 DEF w, m

(* What is walked of a chain that is not too long is the chain.            *)
LEMMA WholeChain ==
  ASSUME NEW S, NEW chain \in Seq(S), Len(chain) <= 8
  PROVE  SubSeq(chain, 1, IF Len(chain) < 8 THEN Len(chain) ELSE 8) = chain
<1>1. Len(chain) \in Nat /\ DOMAIN chain = 1 .. Len(chain)
  BY Indices
<1>2. (IF Len(chain) < 8 THEN Len(chain) ELSE 8) = Len(chain)
  BY <1>1
<1>3. SubSeq(chain, 1, Len(chain)) = chain
  BY <1>1
<1> QED
  BY <1>2, <1>3

(* The walk along a whole chain.                                           *)
LEMMA WalkIsWalked ==
  ASSUME NEW f, f.chain \in Seq(Extension), Len(f.chain) <= 8, LastFragment(f.chain),
         NEW start \in Nat
  PROVE  walk(f, start) = Walked(f.chain, start, DOMAIN f.chain)
<1> DEFINE chain == f.chain
           D     == DOMAIN chain
           none  == [at |-> start, first |-> TRUE, ends |-> {}]
           Walks(g) == g = [s \in SUBSET D |->
                              IF s = {} THEN none ELSE skip(g[s \ {Max(s)}], chain[Max(s)])]
           steps  == CHOOSE g : Walks(g)
           closed == [s \in SUBSET D |-> Walked(chain, start, s)]
<1>1. walk(f, start) = steps[D]
  <2>1. walk(f, start) = FoldLeft(skip, none, chain)
    BY WholeChain DEF walk
  <2>2. FoldLeft(skip, none, chain) = steps[D]
    BY DEF FoldLeft, MapThenFoldSet
  <2> QED
    BY <2>1, <2>2
<1>2. \A s \in SUBSET D : s # {} => closed[s] = skip(closed[s \ {Max(s)}], chain[Max(s)])
  <2> SUFFICES ASSUME NEW s \in SUBSET D, s # {}
               PROVE  closed[s] = skip(closed[s \ {Max(s)}], chain[Max(s)])
    OBVIOUS
  <2>1. /\ closed[s] = Walked(chain, start, s)
        /\ closed[s \ {Max(s)}] = Walked(chain, start, s \ {Max(s)})
    OBVIOUS
  <2> HIDE DEF closed
  <2> QED
    BY <2>1, WalkStep
<1>3. closed[{}] = none
  <2>1. closed[{}] = Walked(chain, start, {})
    OBVIOUS
  <2>2. Ends(chain, start, {}) = {} /\ start + Sum(LengthsOf(chain), {}) = start
    BY SumEmpty DEF Ends
  <2> HIDE DEF closed
  <2> QED
    BY <2>1, <2>2 DEF Walked
<1>4. Walks(closed)
  <2> DEFINE e(s) == IF s = {} THEN none ELSE skip(closed[s \ {Max(s)}], chain[Max(s)])
  <2> HIDE DEF closed
  <2>1. \A s \in SUBSET D : closed[s] = e(s)
    BY <1>2, <1>3
  <2>2. closed = [s \in SUBSET D |-> closed[s]]
    BY DEF closed
  <2> HIDE DEF e
  <2>3. closed = [s \in SUBSET D |-> e(s)]
    BY <2>1, <2>2
  <2> QED
    BY <2>3 DEF e
<1>5. Walks(steps)
  <2> HIDE DEF Walks, closed
  <2> QED
    BY <1>4
<1> HIDE DEF steps
<1>6. steps[{}] = none /\ \A s \in SUBSET D : s # {} =>
        steps[s] = skip(steps[s \ {Max(s)}], chain[Max(s)])
  BY <1>5
<1>7. closed[D] = Walked(chain, start, D)
  OBVIOUS
<1>8. IsFiniteSet(D) /\ \A i \in D : i \in Nat
  BY Indices
<1> HIDE DEF closed, Walks, none
<1>9. \A s \in SUBSET D : s # {} /\ steps[s \ {Max(s)}] = closed[s \ {Max(s)}] =>
                             steps[s] = closed[s]
  BY <1>2, <1>6
<1>10. steps[D] = closed[D]
  <2>1. steps[{}] = closed[{}]
    BY <1>3, <1>6
  <2> HIDE DEF D
  <2> QED
    BY <1>8, <1>9, <2>1, FoldsAgree
<1> QED
  BY <1>1, <1>7, <1>10

-------------------------------------------------------------------------------
(* Well-formed frames.                                                     *)

(* The IP header of a well-formed frame is where its link header ends,     *)
(* under every link type and behind up to two VLAN tags.                   *)
LEMMA IpOffset ==
  ASSUME NEW f \in Frame, WellFormed(f)
  PROVE  LET ip == ip_offset(f)
         IN  /\ ip.ether = f.ether /\ ip.at = LinkLength(f)
             /\ ip.at \in Nat /\ ip.need \in 0 .. ip.at + 1
<1> USE DEF Frame, WellFormed
<1>1. /\ f.link \in {"ethernet", "raw", "linux_sll", "linux_sll2"}
      /\ f.tags \in Nat /\ f.ether \in {"ipv4", "ipv6"}
      /\ f.version = IF f.ether = "ipv4" THEN 4 ELSE 6
  OBVIOUS
<1>2. CASE f.link = "ethernet"
  <2>1. f.tags <= 2
    BY <1>2
  <2>2. (IF f.tags < 2 THEN f.tags ELSE 2) = f.tags
    BY <1>1, <2>1
  <2>3. ip_offset(f) = [at |-> 14 + 4 * f.tags, need |-> 14 + 4 * f.tags, ether |-> f.ether]
    BY <1>1, <1>2, <2>2 DEF ip_offset
  <2>4. LinkLength(f) = 14 + 4 * f.tags
    BY <1>2 DEF LinkLength
  <2> QED
    BY <1>1, <2>3, <2>4
<1>3. CASE f.link # "ethernet"
  <2>1. f.tags = 0
    BY <1>1, <1>3
  <2>2. CASE f.link = "raw"
    BY <1>1, <2>2 DEF ip_offset, LinkLength
  <2>3. CASE f.link = "linux_sll"
    BY <2>1, <2>3 DEF ip_offset, LinkLength
  <2>4. CASE f.link = "linux_sll2"
    BY <2>1, <2>4 DEF ip_offset, LinkLength
  <2> QED
    BY <1>1, <1>3, <2>2, <2>3, <2>4
<1> QED
  BY <1>2, <1>3

(* The parser finds the flow of a well-formed IPv4 frame exactly when all  *)
(* the headers it needs were captured.                                     *)
LEMMA FindsIpv4 ==
  ASSUME NEW f \in Frame, NEW n \in Nat, WellFormed(f), f.ether = "ipv4"
  PROVE  LET ports == LinkLength(f) + 4 * f.words
         IN  parse_packet(f, n) =
               IF n < ports + (IF HasPorts(f) THEN 4 ELSE 0)
                 THEN Error
                 ELSE Flow(f, f.protocol, IF HasPorts(f) THEN ports ELSE None)
<1> DEFINE ip    == ip_offset(f)
           at    == LinkLength(f)
           ports == at + 4 * f.words
           found == Flow(f, f.protocol, IF HasPorts(f) THEN ports ELSE None)
<1>1. /\ ip.ether = "ipv4" /\ ip.at = at /\ at \in Nat /\ ip.need \in 0 .. at + 1
      /\ f.version = 4 /\ f.words \in 5 .. 15 /\ f.first \in BOOLEAN
  BY IpOffset, SMTT(30) DEF Frame, WellFormed
<1>2. HasPorts(f) <=> f.protocol \in {"tcp", "udp"} /\ f.first
  BY DEF HasPorts, FirstFragment
<1>3. parse_packet(f, n) = IF require(n, ip.need) THEN parse_ipv4(f, n, at) ELSE Error
  BY <1>1 DEF parse_packet
<1>4. parse_ipv4(f, n, at) =
        IF require(n, at + 20) /\ require(n, ports)
        THEN IF f.first THEN parse_ports(f, n, ports, f.protocol)
                        ELSE Flow(f, f.protocol, None)
        ELSE Error
  BY <1>1 DEF parse_ipv4
<1>5. ports \in Nat /\ at + 20 <= ports
  BY <1>1
<1> HIDE DEF ip, at, ports
<1>6. /\ require(n, ports) <=> n >= ports
      /\ require(n, ports + 4) <=> n >= ports + 4
      /\ n >= ports => require(n, at + 20) /\ require(n, ip.need)
  BY <1>1, <1>5 DEF require
<1>7. CASE HasPorts(f)
  <2>1. parse_ports(f, n, ports, f.protocol) = IF n >= ports + 4 THEN found ELSE Error
    BY <1>2, <1>6, <1>7 DEF parse_ports
  <2>2. parse_packet(f, n) = IF n >= ports + 4 THEN found ELSE Error
    BY <1>2, <1>3, <1>4, <1>5, <1>6, <1>7, <2>1
  <2> QED
    BY <1>5, <1>7, <2>2 DEF ports, at
<1>8. CASE ~HasPorts(f)
  <2>1. parse_packet(f, n) = IF n >= ports THEN found ELSE Error
    <3>1. f.first => parse_ports(f, n, ports, f.protocol) = found
      BY <1>2, <1>8 DEF parse_ports
    <3> QED
      BY <1>1, <1>3, <1>4, <1>6, <1>8, <3>1
  <2> QED
    BY <1>5, <1>8, <2>1 DEF ports, at
<1> QED
  BY <1>7, <1>8

(* The walk over the extension headers of a well-formed frame ends where   *)
(* they end, and nothing it requires on the way lies behind that.          *)
LEMMA WalkReaches ==
  ASSUME NEW f \in Frame, WellFormed(f), f.ether = "ipv6", NEW start \in Nat
  PROVE  LET w   == walk(f, start)
             end == start + ChainLength(f.chain)
         IN  /\ w.at = end /\ end \in Nat /\ start <= end
             /\ w.first \in BOOLEAN /\ w.first = FirstFragment(f)
             /\ \A e \in w.ends : e \in 0 .. end
             /\ start = end \/ end \in w.ends
<1> DEFINE chain == f.chain
           D     == DOMAIN chain
           L     == LengthsOf(chain)
           w     == walk(f, start)
           end   == start + ChainLength(chain)
<1>1. chain \in Seq(Extension) /\ Len(chain) <= 8 /\ LastFragment(chain)
  BY DEF Frame, WellFormed, LastFragment
<1>2. w = Walked(chain, start, D)
  BY <1>1, WalkIsWalked
<1>3. end = start + Sum(L, D) /\ Sum(L, D) \in Nat
  BY <1>1, ChainAdds, LengthsNat
<1>4. w.at = end /\ end \in Nat /\ start <= end
  BY <1>2, <1>3 DEF Walked
<1>5. w.first \in BOOLEAN /\ w.first = FirstFragment(f)
  BY <1>2 DEF Walked, FirstFragment
<1>6. w.ends = {start + Sum(L, UpTo(D, i)) : i \in D}
  BY <1>2 DEF Walked, Ends
<1>7. ASSUME NEW i \in D
      PROVE  start + Sum(L, UpTo(D, i)) \in 0 .. end
  <2>1. UpTo(D, i) \in SUBSET D
    BY DEF UpTo
  <2>2. IsFiniteSet(D) /\ \A j \in D : L[j] \in Nat
    BY <1>1, LengthsNat
  <2>3. Sum(L, UpTo(D, i)) \in Nat /\ Sum(L, UpTo(D, i)) <= Sum(L, D)
    BY <2>1, <2>2, SumPart
  <2> QED
    BY <1>3, <2>3
<1>8. \A e \in w.ends : e \in 0 .. end
  <2> HIDE DEF w, end, D, L
  <2> QED
    BY <1>6, <1>7
<1>9. start = end \/ end \in w.ends
  <2>1. CASE D = {}
    <3>1. Sum(L, D) = 0
      BY <2>1, SumEmpty
    <3> QED
      BY <1>3, <3>1
  <2>2. CASE D # {}
    <3>1. Max(D) \in D /\ \A i \in D : i <= Max(D)
      BY <1>1, <2>2, LengthsNat, Extremes
    <3>2. UpTo(D, Max(D)) = D
      BY <3>1 DEF UpTo
    <3> HIDE DEF w, end, D, L
    <3> QED
      BY <1>3, <1>6, <3>1, <3>2
  <2> QED
    BY <2>1, <2>2
<1> QED
  BY <1>4, <1>5, <1>8, <1>9

(* The parser finds the flow of a well-formed IPv6 frame exactly when all  *)
(* the headers it needs were captured, whatever extension headers it has.  *)
LEMMA FindsIpv6 ==
  ASSUME NEW f \in Frame, NEW n \in Nat, WellFormed(f), f.ether = "ipv6"
  PROVE  LET ports == LinkLength(f) + (40 + ChainLength(f.chain))
         IN  parse_packet(f, n) =
               IF n < ports + (IF HasPorts(f) THEN 4 ELSE 0)
                 THEN Error
                 ELSE Flow(f, f.protocol, IF HasPorts(f) THEN ports ELSE None)
<1> DEFINE ip    == ip_offset(f)
           at    == LinkLength(f)
           start == at + 40
           ports == start + ChainLength(f.chain)
           w     == walk(f, start)
           found == Flow(f, f.protocol, IF HasPorts(f) THEN ports ELSE None)
<1>1. /\ ip.ether = "ipv6" /\ ip.at = at /\ at \in Nat /\ ip.need \in 0 .. at + 1
      /\ f.version = 6 /\ Len(f.chain) <= 8 /\ f.chain \in Seq(Extension)
  BY IpOffset DEF Frame, WellFormed
<1>2. start \in Nat
  BY <1>1
<1>3. /\ w.at = ports /\ ports \in Nat /\ start <= ports
      /\ w.first \in BOOLEAN /\ w.first = FirstFragment(f)
      /\ \A e \in w.ends : e \in 0 .. ports
      /\ start = ports \/ ports \in w.ends
  <2> HIDE DEF start
  <2> QED
    BY <1>2, WalkReaches
<1>4. parse_packet(f, n) = IF require(n, ip.need) THEN parse_ipv6(f, n, at) ELSE Error
  BY <1>1 DEF parse_packet
<1>5. parse_ipv6(f, n, at) =
        IF require(n, start) /\ \A e \in w.ends : require(n, e)
        THEN IF w.first THEN parse_ports(f, n, w.at, f.protocol)
                        ELSE Flow(f, f.protocol, None)
        ELSE Error
  <2>1. ~(Len(f.chain) > 8)
    BY <1>1
  <2> QED
    BY <1>1, <2>1 DEF parse_ipv6
<1>6. 40 + ChainLength(f.chain) = ports - at /\ at + (40 + ChainLength(f.chain)) = ports
  <2>1. ChainLength(f.chain) \in Nat
    BY <1>1, ChainAdds, LengthsNat
  <2> QED
    BY <1>1, <2>1
<1>7. ip.need <= start
  BY <1>1
<1>8. HasPorts(f) <=> f.protocol \in {"tcp", "udp"} /\ w.first
  BY <1>3 DEF HasPorts
<1> HIDE DEF ip, start, ports, w
<1>9. /\ require(n, ports + 4) <=> n >= ports + 4
      /\ n >= ports <=> require(n, start) /\ \A e \in w.ends : require(n, e)
      /\ n >= ports => require(n, ip.need)
  BY <1>1, <1>2, <1>3, <1>7 DEF require
<1>10. parse_packet(f, n) =
         IF n >= ports THEN IF w.first THEN parse_ports(f, n, ports, f.protocol)
                                       ELSE Flow(f, f.protocol, None)
                       ELSE Error
  BY <1>3, <1>4, <1>5, <1>9
<1>11. parse_packet(f, n) = IF n < ports + (IF HasPorts(f) THEN 4 ELSE 0) THEN Error ELSE found
  <2>1. CASE HasPorts(f)
    <3>1. parse_ports(f, n, ports, f.protocol) = IF n >= ports + 4 THEN found ELSE Error
      BY <1>8, <1>9, <2>1 DEF parse_ports
    <3> QED
      BY <1>3, <1>8, <1>10, <2>1, <3>1
  <2>2. CASE ~HasPorts(f)
    <3>1. w.first => parse_ports(f, n, ports, f.protocol) = found
      BY <1>8, <2>2 DEF parse_ports
    <3> QED
      BY <1>3, <1>10, <2>2, <3>1
  <2> QED
    BY <2>1, <2>2
<1> QED
  BY <1>6, <1>11

-------------------------------------------------------------------------------
(* The results.                                                            *)

IInv == frame \in Frames /\ captured \in 0 .. SnapLen

(* A frame stays what it is, and no more of it is kept than asked for.     *)
LEMMA PacketIInv == Spec => []IInv
<1>1. Init => IInv
  BY FrameAssumption DEF Init, IInv
<1>2. IInv /\ [Next]_vars => IInv'
  BY FrameAssumption DEF IInv, Next, CaptureMore, vars
<1> QED
  BY <1>1, <1>2, PTL DEF Spec

(* How much of a frame was captured never changes the flow it is counted   *)
(* for, whatever the frame: malformed ones, unknown link types and chains  *)
(* longer than the parser walks included.                                  *)
THEOREM PacketCaptureLengthIrrelevant == Spec => CaptureLengthIrrelevant
<1>1. IInv /\ [Next]_vars =>
        [parse_packet(frame, captured) # Error =>
           parse_packet(frame', captured') = parse_packet(frame, captured)]_vars
  <2> SUFFICES ASSUME IInv, CaptureMore, parse_packet(frame, captured) # Error
               PROVE  parse_packet(frame', captured') = parse_packet(frame, captured)
    BY DEF Next
  <2>1. captured \in Nat /\ captured' = captured + 1 /\ frame' = frame
    BY FrameAssumption DEF IInv, CaptureMore
  <2>2. captured' \in Nat /\ captured <= captured'
    BY <2>1
  <2> QED
    BY <2>1, <2>2, PacketLonger
<1> QED
  BY <1>1, PacketIInv, PTL DEF Spec, CaptureLengthIrrelevant

(* The parser finds the flow of every well-formed frame, with its ports    *)
(* where the transport header really is, exactly when all the headers it   *)
(* needs were captured: under every link header, with every number of IPv4 *)
(* options and every chain of up to eight IPv6 extension headers, cut      *)
(* anywhere.                                                               *)
THEOREM PacketFindsTheFlow == Spec => []FindsTheFlow
<1>1. IInv => FindsTheFlow
  <2> SUFFICES ASSUME IInv, WellFormed(frame)
               PROVE  FindsTheFlow
    BY DEF FindsTheFlow
  <2>1. frame \in Frame /\ captured \in Nat
    BY FrameAssumption DEF IInv
  <2>2. CASE frame.ether = "ipv4"
    <3>1. IpLength(frame) = 4 * frame.words
      BY <2>2 DEF IpLength
    <3> QED
      BY <2>1, <2>2, <3>1, FindsIpv4 DEF FindsTheFlow
  <2>3. CASE frame.ether = "ipv6"
    <3>1. IpLength(frame) = 40 + ChainLength(frame.chain)
      BY <2>3 DEF IpLength
    <3> QED
      BY <2>1, <2>3, <3>1, FindsIpv6 DEF FindsTheFlow
  <2> QED
    BY <2>1, <2>2, <2>3 DEF Frame, WellFormed
<1> QED
  BY <1>1, PacketIInv, PTL

===============================================================================
