------------------------------ MODULE Rewrite -------------------------------
(***************************************************************************)
(* What gtp_xdp.c writes into a frame that a rule forwards: the NAT        *)
(* rewrite of an address with the incremental update of the checksums that *)
(* cover it (nat_src_rewrite, nat_dst_rewrite, csum_update_u32), the       *)
(* removal of the tunnel headers (decap_gtpu) and the new tunnel headers   *)
(* (encap_gtpu, encap_gtpu_5g).                                            *)
(*                                                                         *)
(* Words have their 16 bits: arithmetic is modulo Word, and the fields     *)
(* keep the widths of the code.  An address is its two words.  Of the rest *)
(* of the IP header, and of the rest of what a TCP or UDP checksum covers, *)
(* only the sum of its words matters.                                      *)
(***************************************************************************)
EXTENDS Integers, Sequences

CONSTANTS
    Addr,       \* addresses, <<high word, low word>>
    Rest,       \* sums of the words a checksum covers besides the addresses
    TotLen      \* total lengths of the inner packets

Word == 65536           \* 2^16
MaxWord == Word - 1

EthSz == 14
IpSz == 20
UdpSz == 8
GtpSz == 8
OptSz == 4
ExtSz == 4      \* the PDU Session Container

IsWord(w) == w \in 0 .. MaxWord

ASSUME RewriteAssumption ==
    /\ \A a \in Addr : Len(a) = 2 /\ IsWord(a[1]) /\ IsWord(a[2])
    /\ Rest \subseteq Nat \ {0}
    /\ \A n \in TotLen : IsWord(n)

VARIABLES
    pkt,        \* the inner packet, as it is in the frame
    sent,       \* history: the inner packet as its sender built it
    rule,       \* the addresses of the rule: nat_ip, src_ip, dst_ip
    tunnel,     \* the tunnel headers in front of the inner packet
    pc          \* the rewrite that comes next, "out" or "drop" after the last

vars == <<pkt, sent, rule, tunnel, pc>>

NoAddr == <<0, 0>>

Sum(a) == a[1] + a[2]

\* ~w
Not(w) == MaxWord - w

\* (s >> 16) + (s & 0xffff)
Fold(s) == (s \div Word) + (s % Word)

\* The reference, for words that carry their own checksum: they add up to a
\* multiple of 2^16 - 1 that is not 0.
Verifies(s) == s # 0 /\ s % MaxWord = 0

IpVerifies(p) == Verifies(p.iprest + Sum(p.src) + Sum(p.dst) + p.check)
L4Verifies(p) == Verifies(p.l4rest + Sum(p.src) + Sum(p.dst) + p.l4check)

-----------------------------------------------------------------------------
(* The packets senders build *)

\* The checksum of words that add up to s # 0.
Checksum(s) == Not(IF s % MaxWord = 0 THEN MaxWord ELSE s % MaxWord)

\* What a sender writes into the L4 checksum of a packet: UDP 0xffff for a
\* computed zero, and zero for no checksum; TCP what it computed.
L4Checks(proto, s) ==
    CASE proto = "tcp" -> {Checksum(s)}
      [] proto = "udp" -> {0, IF Checksum(s) = 0 THEN MaxWord ELSE Checksum(s)}
      [] OTHER -> {0}

\* Which rewrites a rule asks for, by the table and the action it has: decap
\* in teid_map or ueip_map, encap in nat_map, encap in ueip_map.
Path == {"decap", "natdst", "encap"}

\* No tunnel in front of the packet.
Bare == [size |-> 0]

\* whole: the headers the rewrites look at lie inside the frame.
Init ==
    /\ \E s, d \in Addr, proto \in {"tcp", "udp", "icmp"}, n \in TotLen,
          whole \in BOOLEAN, r, q \in Rest :
          \E c \in L4Checks(proto, q + Sum(s) + Sum(d)) :
             pkt = [src |-> s, dst |-> d, proto |-> proto, tot |-> n,
                    whole |-> whole, iprest |-> r,
                    check |-> Checksum(r + Sum(s) + Sum(d)),
                    l4rest |-> q, l4check |-> c]
    /\ sent = pkt
    /\ rule \in [nat_ip : Addr \cup {NoAddr}, src_ip : Addr, dst_ip : Addr]
    /\ pc \in Path
    /\ tunnel = IF pc = "decap" THEN [size |-> IpSz + UdpSz + GtpSz] ELSE Bare

-----------------------------------------------------------------------------
(* NAT *)

\* Mutant: the carries are not added in.
csum_update_unfolded(check, old, new) ==
    Not(Not(check) + Not(old[1]) + Not(old[2]) + new[1] + new[2])

\* Mutant: one fold, the carry of which is cut off.
csum_update_once(check, old, new) ==
    LET s == Not(check) + Not(old[1]) + Not(old[2]) + new[1] + new[2]
    IN  Not(Fold(s) % Word)

\* csum_update_u32: the new checksum, after old became new.
csum_update_u32(check, old, new) ==
    LET s == Not(check) + Not(old[1]) + Not(old[2]) + new[1] + new[2]
    IN  Not(Fold(Fold(s)) % Word)

\* Mutant: TCP is forgotten.
L4UpdatedUdpOnly(p, old, new) ==
    IF p.proto = "udp" /\ p.l4check # 0
    THEN csum_update_u32(p.l4check, old, new) ELSE p.l4check

\* The L4 checksum of a rewritten packet: ICMP's does not cover the addresses,
\* and zero is taken for no checksum.
L4Updated(p, old, new) ==
    IF p.proto \in {"tcp", "udp"} /\ p.l4check # 0
    THEN csum_update_u32(p.l4check, old, new) ELSE p.l4check

\* Both checksums of p, after one of its addresses went from old to new.
Rechecked(p, old, new) ==
    [p EXCEPT !.check = csum_update_u32(@, old, new),
              !.l4check = L4Updated(p, old, new)]

\* One of the rewrites; a frame that ends before the headers it needs is
\* dropped, and its bytes do not matter any more.
Rewritten(from, new, p) ==
    /\ pc = from
    /\ pc' = IF pkt.whole THEN new ELSE "drop"
    /\ pkt' = IF pkt.whole THEN p ELSE pkt
    /\ UNCHANGED <<sent, rule>>

\* The tunnel headers go, and the NAT of the uplink follows if the rule has it.
decap_gtpu ==
    /\ tunnel' = Bare
    /\ Rewritten("decap", IF rule.nat_ip = NoAddr THEN "out" ELSE "natsrc", pkt)

nat_src_rewrite ==
    /\ UNCHANGED tunnel
    /\ Rewritten("natsrc", "out",
                 Rechecked([pkt EXCEPT !.src = rule.nat_ip], pkt.src, rule.nat_ip))

nat_dst_rewrite ==
    /\ UNCHANGED tunnel
    /\ Rewritten("natdst", "encap5g",
                 Rechecked([pkt EXCEPT !.dst = rule.nat_ip], pkt.dst, rule.nat_ip))

-----------------------------------------------------------------------------
(* Encapsulation *)

\* The checksum of the new outer IP header: 0x4500, 0x4011, the total length
\* and the rule's addresses.
OuterCheck(tot) ==
    Not(Fold(Fold(17664 + tot + 16401 + Sum(rule.src_ip) + Sum(rule.dst_ip)))
            % Word)

\* Mutant: the UDP length of the 4G tunnel in both kinds of tunnel.
HeadersShortUdp(ext) ==
    LET overhead == IpSz + UdpSz + GtpSz + ext
        tot == (pkt.tot + overhead) % Word
    IN  [size |-> overhead, tot_len |-> tot, check |-> OuterCheck(tot),
         udp_len |-> (pkt.tot + UdpSz + GtpSz) % Word,
         gtp_len |-> (pkt.tot + ext) % Word,
         opt |-> ext # 0, ext |-> IF ext = 0 THEN <<>> ELSE <<1>>]

\* The new headers, ext of whose bytes are the optional fields and the
\* extension header.
Headers(ext) ==
    LET overhead == IpSz + UdpSz + GtpSz + ext
        tot == (pkt.tot + overhead) % Word
    IN  [size |-> overhead, tot_len |-> tot, check |-> OuterCheck(tot),
         udp_len |-> (pkt.tot + UdpSz + GtpSz + ext) % Word,
         gtp_len |-> (pkt.tot + ext) % Word,
         opt |-> ext # 0, ext |-> IF ext = 0 THEN <<>> ELSE <<1>>]

Encap(from, ext) ==
    /\ tunnel' = IF pkt.whole THEN Headers(ext) ELSE tunnel
    /\ Rewritten(from, "out", pkt)

encap_gtpu == Encap("encap", 0)

encap_gtpu_5g == Encap("encap5g", OptSz + ExtSz)

\* The frame was handed to the driver.
Done == pc \in {"out", "drop"} /\ UNCHANGED vars

Next ==
    \/ decap_gtpu \/ nat_src_rewrite
    \/ nat_dst_rewrite \/ encap_gtpu_5g
    \/ encap_gtpu
    \/ Done

Spec == Init /\ [][Next]_vars

-----------------------------------------------------------------------------
(* Properties *)

TypeOK ==
    /\ {pkt.src, pkt.dst} \subseteq Addr \cup {NoAddr}
    /\ IsWord(pkt.check) /\ IsWord(pkt.l4check)
    /\ pc \in Path \cup {"natsrc", "encap5g", "out", "drop"}
    /\ tunnel.size \in {0, 36, 44}

\* The inner IP header of a frame that goes out verifies, whatever addresses
\* NAT exchanged: two folds are enough for the carries of csum_update_u32.
IpSound == pc = "out" => IpVerifies(pkt)

\* A TCP or UDP checksum survives NAT: if its sender wrote one that is not
\* zero, it verifies in the frame that goes out.
L4Sound ==
    (pc = "out" /\ sent.proto \in {"tcp", "udp"} /\ sent.l4check # 0)
        => L4Verifies(pkt)

\* The headers of a new tunnel agree with each other and with the packet: the
\* outer checksum verifies, each length is the next one's plus a header, and
\* the parser of this program would strip exactly what was put in front (for
\* total lengths that do not overflow the outer one).
TunnelSound ==
    (pc = "out" /\ tunnel # Bare) =>
        /\ Verifies(17664 + 16401 + tunnel.tot_len + Sum(rule.src_ip)
                      + Sum(rule.dst_ip) + tunnel.check)
        /\ tunnel.size = IpSz + UdpSz + GtpSz
                           + (IF tunnel.opt THEN OptSz ELSE 0)
                           + (IF tunnel.ext = <<>> THEN 0 ELSE 4 * tunnel.ext[1])
        /\ pkt.tot + tunnel.size < Word =>
              /\ tunnel.tot_len = tunnel.size + pkt.tot
              /\ tunnel.udp_len = tunnel.tot_len - IpSz
              /\ tunnel.gtp_len = tunnel.udp_len - UdpSz - GtpSz

\* gtp_xdp.c: the rewrites work by "fixing IP and L4 checksums".  A TCP segment
\* whose checksum its sender computed verifies after NAT.
TcpSound == (pc = "out" /\ sent.proto = "tcp") => L4Verifies(pkt)

=============================================================================
