---------------------------- MODULE RewriteProofs ---------------------------
(* Theorems about Rewrite, for all addresses, headers and lengths.           *)
EXTENDS Rewrite, TLAPS

-----------------------------------------------------------------------------
(* One's complement arithmetic *)

LEMMA WordValue == Word = 65536 /\ MaxWord = 65535
  BY SMT DEF Word, MaxWord

LEMMA WordBounds ==
    ASSUME NEW w
    PROVE  IsWord(w) <=> w \in Nat /\ w <= 65535
  <1>1. \A m \in Nat : w \in 0 .. m <=> w \in Nat /\ w <= m
    BY SMT
  <1>2. MaxWord \in Nat
    BY WordValue, SMT
  <1>3. IsWord(w) <=> w \in Nat /\ w <= MaxWord
    BY <1>1, <1>2, SMT DEF IsWord
  <1> QED BY <1>3, WordValue, SMT

\* A fold takes away a multiple of 2^16 - 1.
LEMMA FoldOnce ==
    ASSUME NEW s \in Nat, s <= 393215
    PROVE  /\ Fold(s) \in Nat /\ Fold(s) <= 65540
           /\ \E q \in Nat : Fold(s) = s - 65535 * q
  <1> DEFINE q == s \div 65536
             r == s % 65536
  <1>1. q \in Nat /\ q <= 5 /\ r \in Nat /\ r <= 65535 /\ s = 65536 * q + r
    BY SMT
  <1>2. Fold(s) = q + r
    BY WordValue, SMT DEF Fold
  <1> HIDE DEF q, r
  <1>3. Fold(s) = s - 65535 * q
    BY <1>1, <1>2, SMT
  <1> QED BY <1>1, <1>2, <1>3, SMT

LEMMA FoldTwice ==
    ASSUME NEW s \in Nat, s <= 393215
    PROVE  /\ Fold(Fold(s)) \in Nat /\ Fold(Fold(s)) <= 65535
           /\ Fold(Fold(s)) % Word = Fold(Fold(s))
           /\ \E q \in Nat : Fold(Fold(s)) = s - 65535 * q
  <1>1. PICK q \in Nat : Fold(s) = s - 65535 * q
    BY FoldOnce, SMT
  <1> DEFINE t == Fold(s)
  <1>2. t \in Nat /\ t <= 65540 /\ t = s - 65535 * q
    BY <1>1, FoldOnce, SMT
  <1> HIDE DEF t
  <1>3. /\ Fold(t) \in Nat /\ Fold(t) <= 65535
        /\ \E p \in Nat : Fold(t) = t - 65535 * p
    <2>1. CASE t < 65536
      <3>1. t \div 65536 = 0 /\ t % 65536 = t
        BY <1>2, <2>1, SMT
      <3>2. Fold(t) = t
        BY <1>2, <3>1, WordValue, SMT DEF Fold
      <3>3. Fold(t) = t - 65535 * 0
        BY <1>2, <3>2, SMT
      <3> QED BY <1>2, <2>1, <3>2, <3>3, SMT
    <2>2. CASE t >= 65536
      <3>1. t \div 65536 = 1 /\ t % 65536 = t - 65536
        BY <1>2, <2>2, SMT
      <3>2. Fold(t) = t - 65535 * 1
        BY <1>2, <3>1, WordValue, SMT DEF Fold
      <3> QED BY <1>2, <2>2, <3>2, SMT
    <2> QED BY <1>2, <2>1, <2>2, SMT
  <1>4. \A x \in Nat : x <= 65535 => x % 65536 = x
    BY SMT
  <1>5. Fold(t) % Word = Fold(t)
    BY <1>3, <1>4, WordValue, SMT
  <1>6. PICK p \in Nat : Fold(t) = t - 65535 * p
    BY <1>3, SMT
  <1>7. p + q \in Nat /\ Fold(t) = s - 65535 * (p + q)
    BY <1>2, <1>6, SMT
  <1> QED BY <1>3, <1>5, <1>7, SMT DEF t

\* A sum that verifies and one that differs from it by a multiple of 2^16 - 1.
LEMMA VerifiesShift ==
    ASSUME NEW s \in Nat, NEW t \in Nat \ {0}, NEW q \in Int,
           Verifies(s), t = s + 65535 * q
    PROVE  Verifies(t)
  <1>1. s % 65535 = 0
    BY WordValue, SMT DEF Verifies
  <1>2. t % 65535 = 0
    BY <1>1, SMT
  <1> QED BY <1>2, WordValue, SMT DEF Verifies

\* Words and a checksum computed over them.
LEMMA ChecksumVerifies ==
    ASSUME NEW s \in Nat \ {0}
    PROVE  /\ Checksum(s) \in Nat /\ Checksum(s) <= 65535
           /\ Verifies(s + Checksum(s))
  <1> DEFINE r == s % 65535
             q == s \div 65535
  <1>1. r \in Nat /\ r <= 65534 /\ q \in Nat /\ s = 65535 * q + r
    BY SMT
  <1>2. Checksum(s) = 65535 - (IF r = 0 THEN 65535 ELSE r)
    BY WordValue, SMT DEF Checksum, Not
  <1> HIDE DEF r, q
  <1>3. Checksum(s) \in Nat /\ Checksum(s) <= 65535
    BY <1>1, <1>2, SMT
  <1>4. \E k \in Nat \ {0} : s + Checksum(s) = 65535 * k
    <2>1. CASE r = 0
      <3>1. s + Checksum(s) = 65535 * q /\ q # 0
        BY <1>1, <1>2, <2>1, SMT
      <3> QED BY <1>1, <3>1, SMT
    <2>2. CASE r # 0
      <3>1. s + Checksum(s) = 65535 * (q + 1) /\ q + 1 \in Nat \ {0}
        BY <1>1, <1>2, <2>2, SMT
      <3> QED BY <3>1, SMT
    <2> QED BY <2>1, <2>2, SMT
  <1>5. PICK k \in Nat \ {0} : s + Checksum(s) = 65535 * k
    BY <1>4, SMT
  <1>6. (65535 * k) % 65535 = 0 /\ 65535 * k # 0
    BY SMT
  <1> QED BY <1>3, <1>5, <1>6, WordValue, SMT DEF Verifies

-----------------------------------------------------------------------------
(* The incremental update *)

Address == Addr \cup {NoAddr}

LEMMA AddressWords ==
    ASSUME NEW a \in Address
    PROVE  /\ a[1] \in Nat /\ a[1] <= 65535 /\ a[2] \in Nat /\ a[2] <= 65535
           /\ Sum(a) \in Nat /\ Sum(a) <= 131070
  <1>1. IsWord(a[1]) /\ IsWord(a[2])
    <2>1. CASE a \in Addr
      BY <2>1, RewriteAssumption, SMT
    <2>2. CASE a = NoAddr
      <3>1. a[1] = 0 /\ a[2] = 0
        BY <2>2, SMT DEF NoAddr
      <3> QED BY <3>1, WordBounds, SMT
    <2> QED BY <2>1, <2>2, SMT DEF Address
  <1>2. a[1] \in Nat /\ a[1] <= 65535 /\ a[2] \in Nat /\ a[2] <= 65535
    BY <1>1, WordBounds, SMT
  <1> QED BY <1>2, SMT DEF Sum

\* The updated checksum is a word, and makes up for the change of the address.
LEMMA UpdateShift ==
    ASSUME NEW check \in Nat, check <= 65535, NEW old \in Address, NEW new \in Address
    PROVE  /\ csum_update_u32(check, old, new) \in Nat
           /\ csum_update_u32(check, old, new) <= 65535
           /\ \E q \in Int : csum_update_u32(check, old, new)
                                 = check + Sum(old) - Sum(new) + 65535 * q
  <1> DEFINE s == Not(check) + Not(old[1]) + Not(old[2]) + new[1] + new[2]
             c == csum_update_u32(check, old, new)
  <1>1. /\ old[1] \in Nat /\ old[1] <= 65535 /\ old[2] \in Nat /\ old[2] <= 65535
        /\ new[1] \in Nat /\ new[1] <= 65535 /\ new[2] \in Nat /\ new[2] <= 65535
    BY AddressWords, SMT
  <1>2. s = 196605 - check - old[1] - old[2] + new[1] + new[2]
    BY <1>1, WordValue, SMT DEF Not
  <1>3. c = Not(Fold(Fold(s)) % Word) /\ c = csum_update_u32(check, old, new)
    BY SMT DEF csum_update_u32
  <1> HIDE DEF s, c
  <1>4. s \in Nat /\ s <= 393215
    BY <1>1, <1>2, SMT
  <1>5. /\ Fold(Fold(s)) \in Nat /\ Fold(Fold(s)) <= 65535
        /\ Fold(Fold(s)) % Word = Fold(Fold(s))
        /\ \E p \in Nat : Fold(Fold(s)) = s - 65535 * p
    BY <1>4, FoldTwice, SMT
  <1>6. PICK p \in Nat : Fold(Fold(s)) = s - 65535 * p
    BY <1>5, SMT
  <1>7. c = 65535 - Fold(Fold(s))
    BY <1>3, <1>5, WordValue, SMT DEF Not
  <1>8. c \in Nat /\ c <= 65535
    BY <1>5, <1>7, SMT
  <1>9. c = check + (old[1] + old[2]) - (new[1] + new[2]) + 65535 * (p - 2)
    BY <1>1, <1>2, <1>4, <1>6, <1>7, SMT
  <1>10. p - 2 \in Int /\ c = check + Sum(old) - Sum(new) + 65535 * (p - 2)
    BY <1>9, SMT DEF Sum
  <1>11. \E q \in Int : c = check + Sum(old) - Sum(new) + 65535 * q
    <2> DEFINE d == p - 2
    <2>1. d \in Int /\ c = check + Sum(old) - Sum(new) + 65535 * d
      BY <1>10, SMT
    <2> HIDE DEF d
    <2> USE <2>1
    <2> WITNESS d \in Int
    <2> QED BY SMT
  <1>12. /\ c \in Nat /\ c <= 65535
         /\ \E q \in Int : c = check + Sum(old) - Sum(new) + 65535 * q
    BY <1>8, <1>11, SMT
  <1> QED BY <1>3, <1>12, SMT

\* Words b, an address and a checksum that verify still do when the address and
\* the checksum are updated.
LEMMA UpdateVerifies ==
    ASSUME NEW check \in Nat, check <= 65535, NEW old \in Address, NEW new \in Address,
           NEW b \in Nat \ {0}, Verifies(b + Sum(old) + check)
    PROVE  Verifies(b + Sum(new) + csum_update_u32(check, old, new))
  <1> DEFINE c == csum_update_u32(check, old, new)
  <1>1. c \in Nat /\ \E q \in Int : c = check + Sum(old) - Sum(new) + 65535 * q
    BY UpdateShift, SMT
  <1> HIDE DEF c
  <1>2. PICK q \in Int : c = check + Sum(old) - Sum(new) + 65535 * q
    BY <1>1, SMT
  <1>3. Sum(old) \in Nat /\ Sum(new) \in Nat
    BY AddressWords, SMT
  <1> DEFINE t == b + Sum(new) + c
             u == b + Sum(old) + check
  <1>4. t \in Nat \ {0} /\ u \in Nat /\ t = u + 65535 * q /\ Verifies(u)
    BY <1>1, <1>2, <1>3, SMT
  <1> HIDE DEF t, u
  <1>5. Verifies(t)
    BY <1>4, VerifiesShift, SMT
  <1> QED BY <1>5, SMT DEF t, c

-----------------------------------------------------------------------------
(* The invariant *)

Words == 0 .. MaxWord

Packet == [src : Address, dst : Address, proto : {"tcp", "udp", "icmp"},
           tot : TotLen, whole : BOOLEAN, iprest : Rest, check : Words,
           l4rest : Rest, l4check : Words]

\* The sender wrote an L4 checksum that NAT has to keep right.
Covered(p) == p.proto \in {"tcp", "udp"} /\ p.l4check # 0

\* The packet is whole, its IP header verifies, its L4 checksum too if it has one;
\* no address was exchanged before the NAT steps.
PacketInv ==
    /\ pkt \in Packet /\ sent \in Packet
    /\ pkt.proto = sent.proto
    /\ pc \in {"decap", "natsrc", "natdst", "encap"} => pkt = sent
    /\ IpVerifies(pkt)
    /\ Covered(sent) => L4Verifies(pkt)

\* The headers in front of the packet.
TunnelInv ==
    /\ rule \in [nat_ip : Address, src_ip : Addr, dst_ip : Addr]
    /\ pc \in Path \cup {"natsrc", "encap5g", "out", "drop"}
    /\ tunnel.size \in {0, 36, 44}
    /\ pc \in {"natsrc", "natdst", "encap", "encap5g"} => tunnel = Bare
    /\ pc = "out" => tunnel \in {Bare, Headers(0), Headers(8)}

IInv == PacketInv /\ TunnelInv

\* The words of a packet.
LEMMA PacketWords ==
    ASSUME NEW p \in Packet
    PROVE  /\ p.check \in Nat /\ p.check <= 65535
           /\ p.l4check \in Nat /\ p.l4check <= 65535
           /\ p.iprest \in Nat \ {0} /\ p.l4rest \in Nat \ {0}
           /\ p.src \in Address /\ p.dst \in Address
           /\ Sum(p.src) \in Nat /\ Sum(p.dst) \in Nat
  <1>1. /\ p.check \in Words /\ p.l4check \in Words
        /\ p.iprest \in Rest /\ p.l4rest \in Rest
        /\ p.src \in Address /\ p.dst \in Address
    BY SMT DEF Packet
  <1>2. p.iprest \in Nat \ {0} /\ p.l4rest \in Nat \ {0}
    <2>1. Rest \subseteq Nat \ {0}
      BY RewriteAssumption, SMT
    <2> QED BY <1>1, <2>1, Zenon
  <1>3. IsWord(p.check) /\ IsWord(p.l4check)
    BY <1>1, SMT DEF IsWord, Words
  <1>4. /\ p.check \in Nat /\ p.check <= 65535 /\ p.l4check \in Nat /\ p.l4check <= 65535
    BY <1>3, WordBounds, SMT
  <1>5. Sum(p.src) \in Nat /\ Sum(p.dst) \in Nat
    BY <1>1, AddressWords, SMT
  <1> QED BY <1>1, <1>2, <1>4, <1>5, SMT

LEMMA WordSet == ASSUME NEW w \in Nat, w <= 65535 PROVE w \in Words
  BY WordBounds, SMT DEF IsWord, Words

\* What a sender writes into the L4 checksum, if anything, verifies.
LEMMA SentVerifies ==
    ASSUME NEW s \in Nat \ {0}, NEW proto \in {"tcp", "udp", "icmp"},
           NEW c \in L4Checks(proto, s)
    PROVE  /\ c \in Nat /\ c <= 65535
           /\ proto \in {"tcp", "udp"} /\ c # 0 => Verifies(s + c)
  <1> DEFINE k == Checksum(s)
  <1>1. k \in Nat /\ k <= 65535 /\ Verifies(s + k)
    BY ChecksumVerifies, SMT
  <1>2. \/ c = 0
        \/ c = k
        \/ k = 0 /\ c = MaxWord
    <2>1. CASE proto = "tcp"
      BY <2>1, SMT DEF L4Checks
    <2>2. CASE proto = "udp"
      <3>1. L4Checks(proto, s) = {0, IF Checksum(s) = 0 THEN MaxWord ELSE Checksum(s)}
        BY <2>2, SMT DEF L4Checks
      <3> QED BY <3>1, SMT
    <2>3. CASE proto = "icmp"
      BY <2>3, SMT DEF L4Checks
    <2> QED BY <2>1, <2>2, <2>3, SMT
  <1>3. proto # "icmp" \/ c = 0
    BY SMT DEF L4Checks
  <1> HIDE DEF k
  <1>4. CASE c = 0
    BY <1>4, SMT
  <1>5. CASE c = k
    BY <1>1, <1>5, SMT
  <1>6. CASE k = 0 /\ c = MaxWord
    <2>1. c = 65535
      BY <1>6, WordValue, SMT
    <2> DEFINE u == s + k
               t == s + c
    <2>2. u \in Nat /\ t \in Nat \ {0} /\ t = u + 65535 * 1 /\ Verifies(u)
      BY <1>1, <1>6, <2>1, SMT
    <2> HIDE DEF u, t
    <2>3. Verifies(t)
      BY <2>2, VerifiesShift, SMT
    <2> QED BY <2>1, <2>3, SMT DEF t
  <1> QED BY <1>2, <1>4, <1>5, <1>6, SMT

LEMMA InitInv == Init => IInv
  <1> SUFFICES ASSUME Init PROVE IInv
    BY Zenon
  <1>1. PICK s \in Addr, d \in Addr, proto \in {"tcp", "udp", "icmp"}, n \in TotLen,
             whole \in BOOLEAN, r \in Rest, q \in Rest :
             \E c \in L4Checks(proto, q + Sum(s) + Sum(d)) :
                pkt = [src |-> s, dst |-> d, proto |-> proto, tot |-> n,
                       whole |-> whole, iprest |-> r,
                       check |-> Checksum(r + Sum(s) + Sum(d)),
                       l4rest |-> q, l4check |-> c]
    BY Zenon DEF Init
  <1>2. PICK c \in L4Checks(proto, q + Sum(s) + Sum(d)) :
                pkt = [src |-> s, dst |-> d, proto |-> proto, tot |-> n,
                       whole |-> whole, iprest |-> r,
                       check |-> Checksum(r + Sum(s) + Sum(d)),
                       l4rest |-> q, l4check |-> c]
    BY <1>1, Zenon
  <1> DEFINE S == r + Sum(s) + Sum(d)
             L == q + Sum(s) + Sum(d)
             k == Checksum(S)
  <1>3. Rest \subseteq Nat \ {0}
    BY RewriteAssumption, Zenon
  <1>4. r \in Nat \ {0} /\ q \in Nat \ {0}
    BY <1>3, Zenon
  <1>5. s \in Address /\ d \in Address
    BY Zenon DEF Address
  <1>6. Sum(s) \in Nat /\ Sum(d) \in Nat
    BY <1>5, AddressWords, SMT
  <1>7. S \in Nat \ {0} /\ L \in Nat \ {0}
    BY <1>4, <1>6, SMT
  <1>8. /\ pkt = [src |-> s, dst |-> d, proto |-> proto, tot |-> n,
                  whole |-> whole, iprest |-> r, check |-> k, l4rest |-> q, l4check |-> c]
        /\ c \in L4Checks(proto, L)
    BY <1>2, Zenon
  <1>9. /\ r + Sum(s) + Sum(d) = S /\ q + Sum(s) + Sum(d) = L
    BY Zenon
  <1>10. k \in Nat /\ k <= 65535 /\ Verifies(S + k)
    BY <1>7, ChecksumVerifies, SMT
  <1> HIDE DEF S, L, k
  <1>11. /\ c \in Nat /\ c <= 65535
         /\ proto \in {"tcp", "udp"} /\ c # 0 => Verifies(L + c)
    BY <1>7, <1>8, SentVerifies, SMT
  <1>12. k \in Words /\ c \in Words
    BY <1>10, <1>11, WordSet, SMT
  <1>13. /\ pkt.src = s /\ pkt.dst = d /\ pkt.proto = proto /\ pkt.check = k
         /\ pkt.iprest = r /\ pkt.l4rest = q /\ pkt.l4check = c
    BY <1>8, SMT
  <1>14. pkt \in Packet
    BY <1>5, <1>8, <1>12, SMT DEF Packet
  <1>15. sent = pkt
    BY Zenon DEF Init
  <1>16. IpVerifies(pkt)
    BY <1>9, <1>10, <1>13, SMT DEF IpVerifies
  <1>17. Covered(sent) => L4Verifies(pkt)
    BY <1>9, <1>11, <1>13, <1>15, SMT DEF L4Verifies, Covered
  <1>18. PacketInv
    BY <1>14, <1>15, <1>16, <1>17, Zenon DEF PacketInv
  <1>19. TunnelInv
    <2>1. /\ rule \in [nat_ip : Address, src_ip : Addr, dst_ip : Addr]
          /\ pc \in {"decap", "natdst", "encap"}
          /\ tunnel = IF pc = "decap" THEN [size |-> IpSz + UdpSz + GtpSz] ELSE Bare
      BY Zenon DEF Init, Address, Path
    <2>2. IpSz + UdpSz + GtpSz = 36
      BY SMT DEF IpSz, UdpSz, GtpSz
    <2>3. tunnel.size \in {0, 36, 44}
      BY <2>1, <2>2, SMT DEF Bare
    <2> QED BY <2>1, <2>3, SMT DEF TunnelInv, Path
  <1> QED BY <1>18, <1>19, Zenon DEF IInv

LEMMA UpdateWord ==
    ASSUME NEW check \in Words, NEW old \in Address, NEW new \in Address
    PROVE  csum_update_u32(check, old, new) \in Words
  <1>1. check \in Nat /\ check <= 65535
    BY WordBounds, SMT DEF IsWord, Words
  <1>2. /\ csum_update_u32(check, old, new) \in Nat
        /\ csum_update_u32(check, old, new) <= 65535
    BY <1>1, UpdateShift, SMT
  <1> QED BY <1>2, WordSet, SMT

\* A packet with other checksums.
WithChecks(p, k, m) == [p EXCEPT !.check = k, !.l4check = m]

LEMMA PacketUpdate ==
    ASSUME NEW p \in Packet, NEW k \in Words, NEW m \in Words
    PROVE  LET q == WithChecks(p, k, m)
           IN  /\ q \in Packet /\ q.check = k /\ q.l4check = m
               /\ q.src = p.src /\ q.dst = p.dst
               /\ q.proto = p.proto /\ q.iprest = p.iprest /\ q.l4rest = p.l4rest
  <1> DEFINE r == [p EXCEPT !.check = k]
             q == WithChecks(p, k, m)
  <1>1. /\ r \in Packet /\ r.check = k /\ r.src = p.src /\ r.dst = p.dst
        /\ r.proto = p.proto /\ r.iprest = p.iprest /\ r.l4rest = p.l4rest
    BY SMT DEF Packet
  <1>2. q = [r EXCEPT !.l4check = m]
    BY SMT DEF Packet, WithChecks
  <1> HIDE DEF r, q
  <1>3. /\ q \in Packet /\ q.check = k /\ q.l4check = m
        /\ q.src = p.src /\ q.dst = p.dst
        /\ q.proto = p.proto /\ q.iprest = p.iprest /\ q.l4rest = p.l4rest
    BY <1>1, <1>2, SMT DEF Packet
  <1> QED BY <1>3, Zenon DEF q

\* The NAT of an address of a packet as it was sent.
LEMMA RecheckedInv ==
    ASSUME PacketInv, pkt = sent, NEW new \in Address, NEW old \in Address, NEW p,
           \/ p = [pkt EXCEPT !.src = new] /\ old = pkt.src
           \/ p = [pkt EXCEPT !.dst = new] /\ old = pkt.dst
    PROVE  LET q == Rechecked(p, old, new)
           IN  /\ q \in Packet /\ q.proto = sent.proto
               /\ IpVerifies(q)
               /\ Covered(sent) => L4Verifies(q)
  <1> DEFINE q == Rechecked(p, old, new)
             k == csum_update_u32(pkt.check, old, new)
             l == csum_update_u32(pkt.l4check, old, new)
             m == L4Updated(p, old, new)
  <1>0. pkt.check \in Words /\ pkt.l4check \in Words
    BY SMT DEF PacketInv, Packet
  <1>1. pkt \in Packet /\ IpVerifies(pkt) /\ (Covered(sent) => L4Verifies(pkt))
    BY Zenon DEF PacketInv
  <1>2. /\ pkt.check \in Nat /\ pkt.check <= 65535
        /\ pkt.l4check \in Nat /\ pkt.l4check <= 65535
        /\ pkt.iprest \in Nat \ {0} /\ pkt.l4rest \in Nat \ {0}
        /\ pkt.src \in Address /\ pkt.dst \in Address
        /\ Sum(pkt.src) \in Nat /\ Sum(pkt.dst) \in Nat
    BY <1>1, PacketWords, SMT
  <1>3. /\ p \in Packet /\ p.check = pkt.check /\ p.l4check = pkt.l4check
        /\ p.proto = pkt.proto /\ p.iprest = pkt.iprest /\ p.l4rest = pkt.l4rest
        /\ \/ p.src = new /\ p.dst = pkt.dst /\ old = pkt.src
           \/ p.dst = new /\ p.src = pkt.src /\ old = pkt.dst
    BY <1>1, SMT DEF Packet
  <1>4. k \in Words /\ l \in Words
    BY <1>0, UpdateWord, Zenon
  <1>5. m = IF Covered(pkt) THEN l ELSE pkt.l4check
    BY <1>3, SMT DEF L4Updated, Covered
  <1>6. m \in Words
    <2>1. pkt.l4check \in Words
      BY <1>1, SMT DEF Packet
    <2> HIDE DEF l, m
    <2> QED BY <1>4, <1>5, <2>1, SMT
  <1>7. q = WithChecks(p, k, m)
    BY <1>3, SMT DEF Rechecked, WithChecks
  <1> HIDE DEF q, k, l, m
  <1>8. /\ q \in Packet /\ q.check = k /\ q.l4check = m /\ q.src = p.src /\ q.dst = p.dst
        /\ q.proto = p.proto /\ q.iprest = p.iprest /\ q.l4rest = p.l4rest
    <2>1. p \in Packet
      BY <1>3, Zenon
    <2>2. k \in Words /\ m \in Words
      BY <1>4, <1>6, Zenon
    <2> QED BY <2>1, <2>2, <1>7, PacketUpdate, SMT
  <1>9. Sum(old) \in Nat /\ Sum(new) \in Nat
    BY AddressWords, SMT
  \* The other address.
  <1> DEFINE o == IF p.src = new /\ p.dst = pkt.dst /\ old = pkt.src
                  THEN Sum(pkt.dst) ELSE Sum(pkt.src)
  <1>10. /\ o \in Nat
         /\ Sum(pkt.src) + Sum(pkt.dst) = o + Sum(old)
         /\ Sum(q.src) + Sum(q.dst) = o + Sum(new)
    BY <1>2, <1>3, <1>8, <1>9, SMT
  <1> HIDE DEF o
  <1>11. IpVerifies(q)
    <2> DEFINE b == pkt.iprest + o
    <2>1. b \in Nat \ {0}
      BY <1>2, <1>10, SMT
    <2>2. pkt.iprest + Sum(pkt.src) + Sum(pkt.dst) + pkt.check = b + Sum(old) + pkt.check
      BY <1>2, <1>9, <1>10, SMT
    <2>3. Verifies(b + Sum(old) + pkt.check)
      BY <1>1, <2>2, SMT DEF IpVerifies
    <2> HIDE DEF b
    <2>4. Verifies(b + Sum(new) + k)
      BY <1>2, <2>1, <2>3, UpdateVerifies, SMT DEF k
    <2>5. q.iprest + Sum(q.src) + Sum(q.dst) + q.check = b + Sum(new) + k
      <3>1. Sum(q.src) \in Nat /\ Sum(q.dst) \in Nat /\ k \in Nat
        BY <1>8, PacketWords, SMT
      <3>2. q.iprest = pkt.iprest /\ q.check = k
        BY <1>3, <1>8, Zenon
      <3> QED BY <1>2, <1>9, <1>10, <3>1, <3>2, SMT DEF b
    <2> QED BY <2>4, <2>5, Zenon DEF IpVerifies
  <1>12. Covered(sent) => L4Verifies(q)
    <2> SUFFICES ASSUME Covered(sent) PROVE L4Verifies(q)
      BY Zenon
    <2> DEFINE b == pkt.l4rest + o
    <2>1. b \in Nat \ {0}
      BY <1>2, <1>10, SMT
    <2>2. pkt.l4rest + Sum(pkt.src) + Sum(pkt.dst) + pkt.l4check = b + Sum(old) + pkt.l4check
      BY <1>2, <1>9, <1>10, SMT
    <2>3. Verifies(b + Sum(old) + pkt.l4check)
      BY <1>1, <2>2, SMT DEF L4Verifies
    <2> HIDE DEF b
    <2>4. Verifies(b + Sum(new) + l)
      BY <1>2, <2>1, <2>3, UpdateVerifies, SMT DEF l
    <2>5. m = l
      BY <1>5, SMT
    <2>6. q.l4rest + Sum(q.src) + Sum(q.dst) + q.l4check = b + Sum(new) + l
      <3>1. Sum(q.src) \in Nat /\ Sum(q.dst) \in Nat /\ l \in Nat
        BY <1>8, <2>5, PacketWords, SMT
      <3>2. q.l4rest = pkt.l4rest /\ q.l4check = l
        BY <1>3, <1>8, <2>5, Zenon
      <3> QED BY <1>2, <1>9, <1>10, <3>1, <3>2, SMT DEF b
    <2> QED BY <2>4, <2>6, Zenon DEF L4Verifies
  <1>13. q \in Packet /\ q.proto = sent.proto
    BY <1>3, <1>8, Zenon
  <1> QED BY <1>11, <1>12, <1>13, Zenon DEF q

-----------------------------------------------------------------------------
(* The rewrites *)

\* A rewrite that leaves the packet's bytes alone.
LEMMA SamePacket ==
    ASSUME PacketInv, pkt' = pkt, sent' = sent,
           pc' \in {"out", "drop"} \/ pc \in {"decap", "natsrc", "natdst", "encap"}
    PROVE  PacketInv'
  BY Zenon DEF PacketInv, IpVerifies, L4Verifies, Covered

LEMMA decapInv == ASSUME IInv, decap_gtpu PROVE IInv'
  <1>1. /\ pc = "decap" /\ pc' \in {"out", "natsrc", "drop"} /\ tunnel' = Bare
        /\ pkt' = pkt /\ sent' = sent /\ rule' = rule
    BY SMT DEF decap_gtpu, Rewritten
  <1>2. PacketInv'
    BY <1>1, SamePacket, Zenon DEF IInv
  <1>3. TunnelInv'
    <2>1. Bare.size = 0
      BY SMT DEF Bare
    <2>2. rule \in [nat_ip : Address, src_ip : Addr, dst_ip : Addr]
      BY Zenon DEF IInv, TunnelInv
    <2>3. tunnel'.size = 0
      BY <1>1, <2>1, Zenon
    <2> QED BY <1>1, <2>2, <2>3, SMT DEF TunnelInv
  <1> QED BY <1>2, <1>3, Zenon DEF IInv

\* The NAT rewrites.
LEMMA natInv ==
    ASSUME IInv, nat_src_rewrite \/ nat_dst_rewrite
    PROVE  IInv'
  <1> DEFINE new == rule.nat_ip
  <1>0. rule \in [nat_ip : Address, src_ip : Addr, dst_ip : Addr]
    BY Zenon DEF IInv, TunnelInv
  <1>1. new \in Address
    BY <1>0, SMT
  <1>2. /\ pc \in {"natsrc", "natdst"} /\ pc' \in {"out", "encap5g", "drop"}
        /\ sent' = sent /\ rule' = rule /\ tunnel' = tunnel
    BY SMT DEF nat_src_rewrite, nat_dst_rewrite, Rewritten
  <1>3. /\ pkt = sent /\ PacketInv /\ pkt \in Packet
    BY <1>2, Zenon DEF IInv, PacketInv
  <1>4. \/ pkt' = pkt
        \/ pkt' = Rechecked([pkt EXCEPT !.src = new], pkt.src, new)
        \/ pkt' = Rechecked([pkt EXCEPT !.dst = new], pkt.dst, new)
    BY SMT DEF nat_src_rewrite, nat_dst_rewrite, Rewritten
  <1>5. pkt.src \in Address /\ pkt.dst \in Address
    BY <1>3, PacketWords, SMT
  <1> HIDE DEF new
  <1>6. /\ pkt' \in Packet /\ pkt'.proto = sent.proto
        /\ IpVerifies(pkt') /\ (Covered(sent) => L4Verifies(pkt'))
    <2>1. CASE pkt' = pkt
      BY <1>3, <2>1, Zenon DEF PacketInv
    <2>2. CASE pkt' = Rechecked([pkt EXCEPT !.src = new], pkt.src, new)
      BY <1>1, <1>3, <1>5, <2>2, RecheckedInv, Zenon
    <2>3. CASE pkt' = Rechecked([pkt EXCEPT !.dst = new], pkt.dst, new)
      BY <1>1, <1>3, <1>5, <2>3, RecheckedInv, Zenon
    <2> QED BY <1>4, <2>1, <2>2, <2>3, Zenon
  <1>7. PacketInv'
    BY <1>2, <1>3, <1>6, SMT DEF PacketInv, IpVerifies, L4Verifies, Covered
  <1>8. tunnel = Bare /\ tunnel.size \in {0, 36, 44}
    BY <1>2, SMT DEF IInv, TunnelInv
  <1>9. TunnelInv'
    BY <1>0, <1>2, <1>8, SMT DEF TunnelInv
  <1> QED BY <1>7, <1>9, Zenon DEF IInv

\* The headers depend on the packet's length and the rule only.
LEMMA HeadersSame ==
    ASSUME pkt' = pkt, rule' = rule
    PROVE  Headers(0)' = Headers(0) /\ Headers(8)' = Headers(8)
  BY SMT DEF Headers, OuterCheck

LEMMA encapInv ==
    ASSUME IInv, encap_gtpu \/ encap_gtpu_5g
    PROVE  IInv'
  <1>0. rule \in [nat_ip : Address, src_ip : Addr, dst_ip : Addr]
    BY Zenon DEF IInv, TunnelInv
  <1>1. OptSz + ExtSz = 8
    BY SMT DEF OptSz, ExtSz
  <1>2. Encap("encap", 0) \/ Encap("encap5g", 8)
    BY <1>1, SMT DEF encap_gtpu, encap_gtpu_5g
  <1>3. /\ pc \in {"encap", "encap5g"} /\ pc' \in {"out", "drop"}
        /\ pkt' = pkt /\ sent' = sent /\ rule' = rule
        /\ tunnel' \in {tunnel, Headers(0), Headers(8)}
    BY <1>2, SMT DEF Encap, Rewritten
  <1>4. PacketInv'
    BY <1>3, SamePacket, Zenon DEF IInv
  <1>5. tunnel = Bare /\ tunnel.size \in {0, 36, 44}
    BY <1>3, SMT DEF IInv, TunnelInv
  <1>6. Headers(0).size = 36 /\ Headers(8).size = 44
    BY SMT DEF Headers, IpSz, UdpSz, GtpSz
  <1>7. tunnel' \in {Bare, Headers(0)', Headers(8)'}
    BY <1>3, <1>5, HeadersSame, Zenon
  <1>8. tunnel'.size \in {0, 36, 44}
    BY <1>3, <1>5, <1>6, Zenon
  <1>9. TunnelInv'
    BY <1>0, <1>3, <1>7, <1>8, Zenon DEF TunnelInv
  <1> QED BY <1>4, <1>9, Zenon DEF IInv

LEMMA StepInv == IInv /\ [Next]_vars => IInv'
  <1> SUFFICES ASSUME IInv, [Next]_vars PROVE IInv'
    BY Zenon
  <1>1. CASE decap_gtpu
    BY <1>1, decapInv, Zenon
  <1>2. CASE nat_src_rewrite \/ nat_dst_rewrite
    BY <1>2, natInv, Zenon
  <1>3. CASE encap_gtpu \/ encap_gtpu_5g
    BY <1>3, encapInv, Zenon
  <1>4. CASE UNCHANGED vars
    <2>1. /\ pkt' = pkt /\ sent' = sent /\ rule' = rule /\ tunnel' = tunnel /\ pc' = pc
      BY <1>4, Zenon DEF vars
    <2>2. PacketInv'
      BY <2>1, Zenon DEF IInv, PacketInv, IpVerifies, L4Verifies, Covered
    <2>3. TunnelInv'
      BY <2>1, HeadersSame, Zenon DEF IInv, TunnelInv
    <2> QED BY <2>2, <2>3, Zenon DEF IInv
  <1> QED BY <1>1, <1>2, <1>3, <1>4, Zenon DEF Next, Done

LEMMA Invariant == Spec => []IInv
  BY InitInv, StepInv, PTL DEF Spec

\* The outer header with total length tot verifies with checksum check.
OuterSound(tot, check) ==
    Verifies(17664 + 16401 + tot + Sum(rule.src_ip) + Sum(rule.dst_ip) + check)

LEMMA OuterVerifies ==
    ASSUME NEW tot \in Nat, tot <= 65535,
           rule.src_ip \in Address, rule.dst_ip \in Address
    PROVE  OuterSound(tot, OuterCheck(tot))
  <1> DEFINE a == Sum(rule.src_ip)
             b == Sum(rule.dst_ip)
             s == 17664 + tot + 16401 + a + b
             f == Fold(Fold(s))
             c == OuterCheck(tot)
  <1>1. a \in Nat /\ a <= 131070 /\ b \in Nat /\ b <= 131070
    BY AddressWords, SMT
  <1>2. c = Not(f % Word)
    BY SMT DEF OuterCheck
  <1> HIDE DEF a, b, f, c
  <1>3. s \in Nat /\ s <= 393215 /\ s # 0
    BY <1>1, SMT
  <1>4. s = 17664 + 16401 + tot + a + b
    BY <1>1, SMT
  <1> HIDE DEF s
  <1>5. /\ f \in Nat /\ f <= 65535 /\ f % Word = f
        /\ \E q \in Nat : f = s - 65535 * q
    BY <1>3, FoldTwice, SMT DEF f
  <1>6. PICK q \in Nat : f = s - 65535 * q
    BY <1>5, SMT
  <1>7. c = 65535 - f
    BY <1>2, <1>5, WordValue, SMT DEF Not
  <1>8. s + c = 65535 * (q + 1) /\ s + c # 0
    BY <1>3, <1>5, <1>6, <1>7, SMT
  <1>9. (65535 * (q + 1)) % 65535 = 0
    BY SMT
  <1>10. Verifies(s + c)
    BY <1>8, <1>9, WordValue, SMT DEF Verifies
  <1> QED BY <1>4, <1>10, SMT DEF OuterSound, a, b, c

-----------------------------------------------------------------------------
(* Theorems *)

\* Every checksum stays a word and every address one that a rule or the sender
\* names; the tunnel in front of the packet is none, the 4G or the 5G one.
THEOREM TypeCorrect == Spec => []TypeOK
  <1>1. IInv => TypeOK
    <2> SUFFICES ASSUME IInv PROVE TypeOK
      BY Zenon
    <2>1. pkt \in Packet
      BY Zenon DEF IInv, PacketInv
    <2>2. /\ pkt.src \in Address /\ pkt.dst \in Address
          /\ pkt.check \in Words /\ pkt.l4check \in Words
      BY <2>1, SMT DEF Packet
    <2>3. {pkt.src, pkt.dst} \subseteq Addr \cup {NoAddr}
      BY <2>2, Zenon DEF Address
    <2>4. IsWord(pkt.check) /\ IsWord(pkt.l4check)
      BY <2>2, Zenon DEF IsWord, Words
    <2> QED BY <2>3, <2>4, Zenon DEF TypeOK, IInv, TunnelInv
  <1> QED BY <1>1, Invariant, PTL

\* nat_src_rewrite, nat_dst_rewrite: two folds of csum_update_u32 are enough for
\* every checksum and every pair of addresses, so the inner IP header of a frame
\* that goes out verifies.
THEOREM IpSoundHolds == Spec => []IpSound
  <1>1. IInv => IpSound
    BY Zenon DEF IInv, PacketInv, IpSound
  <1> QED BY <1>1, Invariant, PTL

\* A TCP or UDP checksum that its sender wrote, and that is not zero, verifies in
\* the frame that goes out.
THEOREM L4SoundHolds == Spec => []L4Sound
  <1>1. IInv => L4Sound
    BY Zenon DEF IInv, PacketInv, L4Sound, Covered
  <1> QED BY <1>1, Invariant, PTL

\* encap_gtpu, encap_gtpu_5g: the headers of a new tunnel agree with each other and
\* with the packet, for every length and every pair of tunnel addresses: the outer
\* checksum verifies, two folds being enough for five words, and the lengths nest.
THEOREM TunnelSoundHolds == Spec => []TunnelSound
  <1>1. IInv => TunnelSound
    <2> SUFFICES ASSUME IInv, pc = "out", tunnel # Bare PROVE TunnelSound
      BY SMT DEF TunnelSound
    <2>1. pkt \in Packet /\ rule \in [nat_ip : Address, src_ip : Addr, dst_ip : Addr]
      BY Zenon DEF IInv, PacketInv, TunnelInv
    <2>2. pkt.tot \in TotLen /\ rule.src_ip \in Addr /\ rule.dst_ip \in Addr
      BY <2>1, SMT DEF Packet
    <2>3. IsWord(pkt.tot)
      BY <2>2, RewriteAssumption, Zenon
    <2>4. rule.src_ip \in Address /\ rule.dst_ip \in Address
      BY <2>2, Zenon DEF Address
    <2> DEFINE n == pkt.tot
    <2>5. n \in Nat /\ n <= 65535
      BY <2>3, WordBounds, SMT
    <2>7. PICK e \in {0, 8} : tunnel = Headers(e)
      BY Zenon DEF IInv, TunnelInv
    <2>8. /\ tunnel.size = 36 + e
          /\ tunnel.tot_len = (n + (36 + e)) % 65536
          /\ tunnel.check = OuterCheck(tunnel.tot_len)
          /\ tunnel.udp_len = (n + 8 + 8 + e) % 65536
          /\ tunnel.gtp_len = (n + e) % 65536
          /\ tunnel.opt = (e # 0)
          /\ tunnel.ext = IF e = 0 THEN <<>> ELSE <<1>>
      BY <2>5, <2>7, WordValue, SMT DEF Headers, IpSz, UdpSz, GtpSz
    <2> HIDE DEF n
    <2>9. tunnel.tot_len \in Nat /\ tunnel.tot_len <= 65535
      BY <2>5, <2>8, SMT
    <2>10. OuterSound(tunnel.tot_len, tunnel.check)
      BY <2>4, <2>8, <2>9, OuterVerifies, SMT
    <2>11. tunnel.size = IpSz + UdpSz + GtpSz
                           + (IF tunnel.opt THEN OptSz ELSE 0)
                           + (IF tunnel.ext = <<>> THEN 0 ELSE 4 * tunnel.ext[1])
      <3>0. tunnel.opt = (e # 0)
        BY <2>7, Zenon DEF Headers
      <3>1. CASE e = 0
        <4>1. ~tunnel.opt
          BY <3>0, <3>1, Zenon
        <4>2. tunnel.ext = <<>> /\ tunnel.size = 36
          BY <2>8, <3>1, SMT
        <4> QED BY <4>1, <4>2, SMT DEF IpSz, UdpSz, GtpSz, OptSz
      <3>2. CASE e = 8
        <4>0. e # 0
          BY <3>2, SMT
        <4>1. tunnel.opt
          BY <3>0, <4>0, Zenon
        <4>3. tunnel.ext = <<1>> /\ tunnel.size = 44
          BY <2>8, <3>2, SMT
        <4>2. tunnel.ext # <<>> /\ tunnel.ext[1] = 1
          BY <4>3, SMT
        <4> QED BY <4>1, <4>2, <4>3, SMT DEF IpSz, UdpSz, GtpSz, OptSz
      <3> QED BY <3>1, <3>2, SMT
    <2>12. n + tunnel.size < Word =>
              /\ tunnel.tot_len = tunnel.size + n
              /\ tunnel.udp_len = tunnel.tot_len - IpSz
              /\ tunnel.gtp_len = tunnel.udp_len - UdpSz - GtpSz
      <3> SUFFICES ASSUME n + tunnel.size < Word
                   PROVE  /\ tunnel.tot_len = tunnel.size + n
                          /\ tunnel.udp_len = tunnel.tot_len - IpSz
                          /\ tunnel.gtp_len = tunnel.udp_len - UdpSz - GtpSz
        BY Zenon
      <3>1. \A x \in Nat : x < 65536 => x % 65536 = x
        BY SMT
      <3>2. n + (36 + e) < 65536
        BY <2>8, WordValue, SMT
      <3>3. /\ tunnel.tot_len = n + (36 + e)
            /\ tunnel.udp_len = n + 8 + 8 + e
            /\ tunnel.gtp_len = n + e
        BY <2>5, <2>8, <3>1, <3>2, SMT
      <3> QED BY <2>5, <2>8, <3>3, SMT DEF IpSz, UdpSz, GtpSz
    <2> QED BY <2>10, <2>11, <2>12, SMT DEF TunnelSound, OuterSound, n
  <1> QED BY <1>1, Invariant, PTL

=============================================================================
