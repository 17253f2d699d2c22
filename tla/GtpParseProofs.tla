--------------------------- MODULE GtpParseProofs ---------------------------
(* Theorems about GtpParse, for every set of frames, of any length and with  *)
(* any number of extension headers, and every bound of the loop.             *)
EXTENDS GtpParse, WellFoundedInduction, TLAPS

\* Where the GTP-U header of the frame ends.
GtpEnd == EthSz + 4 * frame.ihl + UdpSz + GtpSz

\* The loop over the extension headers has left none that it could still take.
LoopDone == ~MoreExt \/ walked >= MaxExt

\* What the cursor points at, header by header: in the loop and after it, at the
\* start of extension header walked + 1, or of the inner packet; opt_sz is what
\* lies between the GTP-U header and the cursor.
CursorInv ==
    /\ pc = "eth" => cursor = 0
    /\ pc = "ip"  => cursor = EthSz
    /\ pc = "udp" => cursor = EthSz + 4 * frame.ihl
    /\ pc = "gtp" => cursor = EthSz + 4 * frame.ihl + UdpSz
    /\ pc = "opt" => cursor = GtpEnd /\ frame.opt
    /\ pc \in {"eth", "ip", "udp", "gtp", "opt"} => opt_sz = 0 /\ walked = 0
    /\ pc \in {"ext", "inner"} =>
          /\ walked <= Len(frame.ext)
          /\ cursor = frame.at[walked + 1]
          /\ cursor = GtpEnd + opt_sz
    /\ pc = "inner" => LoopDone

\* What a match has established.
MatchInv ==
    pc = "match" =>
        /\ walked <= Len(frame.ext) /\ LoopDone
        /\ EthSz + strip = frame.at[walked + 1]
        /\ cursor = EthSz + strip + IpSz
        /\ cursor <= frame.len

\* No header of a well-formed G-PDU was refused.
AcceptInv ==
    (WellFormed(frame) /\ Len(frame.ext) <= MaxExt)
        => pc \notin {"bare", "pass", "drop", "lost"}

IInv ==
    /\ TypeOK
    /\ CursorInv
    /\ MatchInv
    /\ AcceptInv

-----------------------------------------------------------------------------
(* Lemmas about frames *)

\* A nonempty set of naturals has a least element: induction, in a form that
\* takes a set.
LEMMA LeastNat ==
    ASSUME NEW T \in SUBSET Nat, T # {}
    PROVE  \E n \in T : \A m \in T : n <= m
  <1> DEFINE R == OpToRel(<, Nat)
  <1>1. IsWellFoundedOn(R, Nat)
    BY NatLessThanWellFounded
  <1>2. \A x, y \in Nat : y < x => <<y, x>> \in R
    BY DEF OpToRel
  <1> HIDE DEF R
  <1>3. PICK x \in T : \A y \in T : ~(<<y, x>> \in R)
    BY <1>1, WFMin
  <1>4. \A y \in T : ~(y < x)
    BY <1>2, <1>3
  <1> QED BY <1>4

\* The offsets of a frame are naturals.
LEMMA OffsetType ==
    ASSUME NEW f \in Frame, Placed(f)
    PROVE  /\ Len(f.ext) \in Nat
           /\ \A i \in 1 .. Len(f.ext) : f.ext[i] \in Nat
           /\ \A i \in 1 .. Len(f.ext) + 1 : f.at[i] \in Nat
           /\ InnerOffset(f) \in Nat
  <1>1. f.ext \in Seq(Nat) /\ f.at \in Seq(Nat)
    BY DEF Frame
  <1>2. Len(f.ext) \in Nat /\ Len(f.at) = Len(f.ext) + 1
    BY <1>1 DEF Placed
  <1>3. \A i \in 1 .. Len(f.ext) : f.ext[i] \in Nat
    BY <1>1
  <1>4. \A i \in 1 .. Len(f.ext) + 1 : f.at[i] \in Nat
    BY <1>1, <1>2
  <1>5. InnerOffset(f) \in Nat
    BY <1>2, <1>4 DEF InnerOffset
  <1> QED BY <1>2, <1>3, <1>4, <1>5

\* Every extension header starts before the inner packet, with one word in
\* between at least if none is empty.
LEMMA OffsetsMonotone ==
    ASSUME NEW f \in Frame, Placed(f)
    PROVE  \A i \in 1 .. Len(f.ext) + 1 : f.at[i] <= InnerOffset(f)
  <1> DEFINE n == Len(f.ext) + 1
             T == {k \in 0 .. n - 1 : ~(f.at[n - k] <= InnerOffset(f))}
  <1>0. n \in Nat /\ n >= 1
    BY OffsetType
  <1>1. SUFFICES T = {}
    <2> SUFFICES ASSUME NEW i \in 1 .. n PROVE f.at[i] <= InnerOffset(f)
      OBVIOUS
    <2>1. n - i \in 0 .. n - 1 /\ n - (n - i) = i
      BY <1>0
    <2> QED BY <1>1, <2>1
  <1>2. SUFFICES ASSUME T # {} PROVE FALSE
    OBVIOUS
  <1>3. T \in SUBSET Nat
    BY <1>0
  <1>4. PICK k \in T : \A m \in T : k <= m
    BY <1>2, <1>3, LeastNat
  <1>5. k # 0
    BY <1>0, OffsetType DEF InnerOffset
  <1>6. k - 1 \in 0 .. n - 1 /\ k - 1 \notin T
    BY <1>4, <1>5, <1>0
  <1>7. f.at[n - k + 1] <= InnerOffset(f)
    <2>1. n - (k - 1) = n - k + 1
      BY <1>0
    <2> QED BY <1>6, <2>1
  <1>8. n - k \in 1 .. Len(f.ext)
    BY <1>0, <1>5
  <1>9. f.at[n - k + 1] = f.at[n - k] + 4 * f.ext[n - k]
    BY <1>8 DEF Placed
  <1>10. /\ f.at[n - k] \in Nat /\ f.ext[n - k] \in Nat
         /\ f.at[n - k + 1] \in Nat /\ InnerOffset(f) \in Nat
    BY <1>8, OffsetType
  <1>11. f.at[n - k] <= InnerOffset(f)
    <2> DEFINE a == f.at[n - k]
               b == f.at[n - k + 1]
               e == f.ext[n - k]
               o == InnerOffset(f)
    <2>1. a \in Nat /\ b \in Nat /\ e \in Nat /\ o \in Nat /\ b = a + 4 * e /\ b <= o
      BY <1>7, <1>9, <1>10
    <2> HIDE DEF a, b, e, o
    <2>2. a <= o
      BY <2>1
    <2> QED BY <2>2 DEF a, o
  <1> QED BY <1>4, <1>11

-----------------------------------------------------------------------------
(* The invariant *)

LEMMA InitInv == Init => IInv
  <1> SUFFICES ASSUME Init PROVE IInv
    OBVIOUS
  <1>1. TypeOK
    BY FramesAssumption DEF Init, TypeOK
  <1> QED BY <1>1 DEF Init, IInv, CursorInv, MatchInv, AcceptInv

\* What the steps below use of the frame.
LEMMA FrameFacts ==
    ASSUME TypeOK
    PROVE  /\ frame.len \in Nat /\ frame.ihl \in Nat /\ frame.opt \in BOOLEAN
           /\ GtpEnd \in Nat
           /\ ~frame.opt => Len(frame.ext) = 0 /\ frame.at[1] = GtpEnd
           /\ frame.opt => frame.at[1] = GtpEnd + OptSz
           /\ InnerOffset(frame) \in Nat
           /\ GtpEnd <= InnerOffset(frame)
           /\ frame.opt => GtpEnd + OptSz <= InnerOffset(frame)
  <1>1. frame \in Frame /\ Placed(frame)
    BY DEF TypeOK
  <1>2. /\ frame.len \in Nat /\ frame.ihl \in Nat /\ frame.opt \in BOOLEAN
        /\ GtpEnd \in Nat
    BY <1>1 DEF Frame, GtpEnd, EthSz, UdpSz, GtpSz
  <1>3. Len(<<>>) = 0
    OBVIOUS
  <1>4. frame.at[1] = GtpEnd + (IF frame.opt THEN OptSz ELSE 0)
    BY <1>1 DEF Placed, Payload, GtpEnd
  <1>5. frame.at[1] \in Nat /\ frame.at[1] <= InnerOffset(frame)
        /\ InnerOffset(frame) \in Nat
    <2>1. 1 \in 1 .. Len(frame.ext) + 1
      BY <1>1, OffsetType
    <2> QED BY <2>1, <1>1, OffsetType, OffsetsMonotone
  <1>6. ~frame.opt => Len(frame.ext) = 0
    BY <1>1, <1>3 DEF Placed
  <1> QED BY <1>2, <1>4, <1>5, <1>6 DEF OptSz

\* A well-formed G-PDU passes every test on its fixed headers and is long enough
\* for each of them.
LEMMA WellFormedFacts ==
    ASSUME TypeOK, WellFormed(frame)
    PROVE  /\ ~(~frame.ethip) /\ ~(~frame.udp) /\ ~(~frame.gtpport) /\ ~(~frame.gpdu)
           /\ frame.version = 4 /\ ~(frame.ihl < 5) /\ frame.inner = 4
           /\ EthSz + 4 * frame.ihl + UdpSz + GtpSz + IpSz <= frame.len
           /\ frame.opt => EthSz + 4 * frame.ihl + UdpSz + GtpSz + OptSz <= frame.len
           /\ \A i \in 1 .. Len(frame.ext) : frame.ext[i] >= 1
           /\ InnerOffset(frame) + IpSz <= frame.len
  <1>1. /\ ~(~frame.ethip) /\ ~(~frame.udp) /\ ~(~frame.gtpport) /\ ~(~frame.gpdu)
    BY Zenon DEF WellFormed
  <1>2. /\ frame.version = 4 /\ frame.ihl >= 5 /\ frame.inner = 4
        /\ \A i \in 1 .. Len(frame.ext) : frame.ext[i] >= 1
        /\ InnerOffset(frame) + IpSz <= frame.len
    BY DEF WellFormed
  <1>3. /\ EthSz + 4 * frame.ihl + UdpSz + GtpSz + IpSz <= frame.len
        /\ frame.opt => EthSz + 4 * frame.ihl + UdpSz + GtpSz + OptSz <= frame.len
    <2>1. /\ GtpEnd \in Nat /\ InnerOffset(frame) \in Nat /\ frame.len \in Nat
          /\ GtpEnd <= InnerOffset(frame)
          /\ frame.opt => GtpEnd + OptSz <= InnerOffset(frame)
      BY FrameFacts
    <2>2. GtpEnd + IpSz <= frame.len /\ (frame.opt => GtpEnd + OptSz <= frame.len)
      BY <1>2, <2>1 DEF IpSz, OptSz
    <2> QED BY <2>2 DEF GtpEnd
  <1>4. ~(frame.ihl < 5)
    BY <1>2, FrameFacts
  <1> QED BY <1>1, <1>2, <1>3, <1>4

LEMMA StepInv == IInv /\ [Next]_vars => IInv'
  <1> SUFFICES ASSUME IInv, [Next]_vars PROVE IInv'
    OBVIOUS
  <1> USE DEF IInv
  <1>0. MaxExt \in Nat
    BY FramesAssumption
  <1>1. CASE ParseEth
    <2>1. TypeOK'
      BY <1>1 DEF TypeOK, ParseEth, Step, EthSz, Ended
    <2>2. CursorInv' /\ MatchInv'
      BY <1>1 DEF CursorInv, MatchInv, ParseEth, Step, EthSz
    <2>3. AcceptInv'
      <3> SUFFICES ASSUME WellFormed(frame)
                   PROVE  pc' \notin {"bare", "pass", "drop", "lost"}
        BY <1>1 DEF AcceptInv, ParseEth
      <3> QED BY <1>1, FrameFacts, WellFormedFacts
              DEF CursorInv, ParseEth, Step, Short, EthSz, UdpSz, GtpSz, IpSz
    <2> QED BY <2>1, <2>2, <2>3
  <1>2. CASE ParseIp
    <2>1. TypeOK'
      BY <1>2, FrameFacts DEF TypeOK, ParseIp, Step, Ended
    <2>2. CursorInv' /\ MatchInv'
      BY <1>2 DEF CursorInv, MatchInv, ParseIp, Step
    <2>3. AcceptInv'
      <3> SUFFICES ASSUME WellFormed(frame)
                   PROVE  pc' \notin {"bare", "pass", "drop", "lost"}
        BY <1>2 DEF AcceptInv, ParseIp
      <3>1. cursor = EthSz
        BY <1>2 DEF CursorInv, ParseIp, Step
      <3>2. /\ frame.ihl \in Nat /\ frame.len \in Nat
            /\ EthSz + 4 * frame.ihl + UdpSz + GtpSz + IpSz <= frame.len
        BY FrameFacts, WellFormedFacts
      <3>3. ~Short(IpSz) /\ ~Short(4 * frame.ihl)
        BY <3>1, <3>2 DEF Short, EthSz, UdpSz, GtpSz, IpSz
      <3> QED BY <1>2, <3>3, WellFormedFacts DEF ParseIp, Step
    <2> QED BY <2>1, <2>2, <2>3
  <1>3. CASE ParseUdp
    <2>1. TypeOK'
      BY <1>3 DEF TypeOK, ParseUdp, Step, Ended, UdpSz
    <2>2. CursorInv' /\ MatchInv'
      BY <1>3 DEF CursorInv, MatchInv, ParseUdp, Step
    <2>3. AcceptInv'
      <3> SUFFICES ASSUME WellFormed(frame)
                   PROVE  pc' \notin {"bare", "pass", "drop", "lost"}
        BY <1>3 DEF AcceptInv, ParseUdp
      <3>1. cursor = EthSz + 4 * frame.ihl
        BY <1>3 DEF CursorInv, ParseUdp, Step
      <3>2. /\ frame.ihl \in Nat /\ frame.len \in Nat
            /\ EthSz + 4 * frame.ihl + UdpSz + GtpSz + IpSz <= frame.len
        BY FrameFacts, WellFormedFacts
      <3>3. ~Short(UdpSz)
        BY <3>1, <3>2 DEF Short, EthSz, UdpSz, GtpSz, IpSz
      <3> QED BY <1>3, <3>3, WellFormedFacts DEF ParseUdp, Step
    <2> QED BY <2>1, <2>2, <2>3
  <1>4. CASE ParseGtp
    <2>1. TypeOK'
      BY <1>4 DEF TypeOK, ParseGtp, Step, Ended, GtpSz
    <2>2. CursorInv' /\ MatchInv'
      BY <1>4, <1>0, FrameFacts
         DEF CursorInv, MatchInv, ParseGtp, Step, GtpEnd, LoopDone, MoreExt
    <2>3. AcceptInv'
      <3> SUFFICES ASSUME WellFormed(frame)
                   PROVE  pc' \notin {"bare", "pass", "drop", "lost"}
        BY <1>4 DEF AcceptInv, ParseGtp
      <3>1. cursor = EthSz + 4 * frame.ihl + UdpSz
        BY <1>4 DEF CursorInv, ParseGtp, Step
      <3>2. /\ frame.ihl \in Nat /\ frame.len \in Nat
            /\ EthSz + 4 * frame.ihl + UdpSz + GtpSz + IpSz <= frame.len
        BY FrameFacts, WellFormedFacts
      <3>3. ~Short(GtpSz)
        BY <3>1, <3>2 DEF Short, EthSz, UdpSz, GtpSz, IpSz
      <3> QED BY <1>4, <3>3, WellFormedFacts DEF ParseGtp, Step
    <2> QED BY <2>1, <2>2, <2>3
  <1>5. CASE ParseOpt
    <2>1. TypeOK'
      BY <1>5 DEF TypeOK, ParseOpt, Step, Ended, OptSz
    <2>2. CursorInv' /\ MatchInv'
      BY <1>5, FrameFacts, OffsetType
         DEF CursorInv, MatchInv, ParseOpt, Step, GtpEnd, OptSz, TypeOK
    <2>3. AcceptInv'
      <3> SUFFICES ASSUME WellFormed(frame)
                   PROVE  pc' \notin {"bare", "pass", "drop", "lost"}
        BY <1>5 DEF AcceptInv, ParseOpt
      <3>1. cursor = GtpEnd /\ frame.opt
        BY <1>5 DEF CursorInv, ParseOpt, Step
      <3>2. frame.len \in Nat /\ GtpEnd \in Nat /\ GtpEnd + OptSz <= frame.len
        BY <3>1, FrameFacts, WellFormedFacts DEF GtpEnd
      <3>3. ~Short(OptSz)
        BY <3>1, <3>2 DEF Short, OptSz
      <3> QED BY <1>5, <3>3 DEF ParseOpt, Step
    <2> QED BY <2>1, <2>2, <2>3
  <1>6. CASE WalkExt
    <2> DEFINE i == walked + 1
    <2>1. /\ i \in 1 .. Len(frame.ext) /\ frame.ext[i] \in Nat
          /\ frame.at[i] \in Nat /\ frame.at[i + 1] \in Nat
          /\ frame.at[i + 1] = frame.at[i] + 4 * frame.ext[i]
          /\ frame.at[i + 1] <= InnerOffset(frame)
          /\ walked \in Nat /\ walked < MaxExt
      <3>1. /\ walked \in Nat /\ walked < MaxExt /\ walked < Len(frame.ext)
            /\ Len(frame.ext) \in Nat
        BY <1>0, <1>6, OffsetType DEF WalkExt, MoreExt, TypeOK
      <3>2. /\ i \in 1 .. Len(frame.ext)
            /\ i \in 1 .. Len(frame.ext) + 1 /\ i + 1 \in 1 .. Len(frame.ext) + 1
        BY <3>1
      <3>3. frame \in Frame /\ Placed(frame)
        BY DEF TypeOK
      <3> HIDE DEF i
      <3>4. /\ frame.ext[i] \in Nat /\ frame.at[i] \in Nat /\ frame.at[i + 1] \in Nat
            /\ frame.at[i + 1] <= InnerOffset(frame)
        BY <3>2, <3>3, OffsetType, OffsetsMonotone
      <3>5. frame.at[i + 1] = frame.at[i] + 4 * frame.ext[i]
        BY <3>2, <3>3 DEF Placed
      <3> QED BY <3>1, <3>2, <3>4, <3>5
    <2>2. /\ ExtBytes = 4 * frame.ext[i] /\ ExtBytes \in Nat
          /\ cursor = frame.at[i] /\ cursor = GtpEnd + opt_sz
          /\ opt_sz \in Nat /\ cursor \in Nat /\ GtpEnd \in Nat
          /\ pc = "ext" /\ frame' = frame /\ strip' = strip
      <3>1. ExtBytes = 4 * frame.ext[i] /\ ExtBytes \in Nat
        BY <2>1 DEF ExtBytes
      <3>2. pc = "ext" /\ frame' = frame /\ strip' = strip
        BY <1>6 DEF WalkExt
      <3>3. opt_sz \in Nat /\ cursor \in Nat
        BY DEF TypeOK
      <3>4. cursor = frame.at[i] /\ cursor = GtpEnd + opt_sz
        BY <3>2 DEF CursorInv
      <3> QED BY <3>1, <3>2, <3>3, <3>4, FrameFacts
    <2>3. CASE BadExt
      <3>1. pc' = "drop" /\ UNCHANGED <<cursor, opt_sz, walked>>
        BY <1>6, <2>3 DEF WalkExt
      <3>2. TypeOK' /\ CursorInv' /\ MatchInv'
        BY <2>2, <3>1 DEF TypeOK, CursorInv, MatchInv, Ended
      <3>3. ~(WellFormed(frame) /\ Len(frame.ext) <= MaxExt)
        <4> SUFFICES ASSUME WellFormed(frame) PROVE FALSE
          OBVIOUS
        <4>1. frame.ext[i] >= 1 /\ InnerOffset(frame) + IpSz <= frame.len
          BY <2>1, WellFormedFacts
        <4>2. frame.len \in Nat /\ InnerOffset(frame) \in Nat
          BY FrameFacts
        <4>3. ExtBytes >= 4 /\ cursor + ExtBytes <= InnerOffset(frame)
          BY <4>1, <2>1, <2>2
        <4> QED BY <4>1, <4>2, <4>3, <2>2, <2>3 DEF BadExt, Short, IpSz
      <3> QED BY <2>2, <3>2, <3>3 DEF AcceptInv
    <2>4. CASE ~BadExt
      <3>1. /\ cursor' = cursor + ExtBytes /\ opt_sz' = opt_sz + ExtBytes
            /\ walked' = walked + 1 /\ pc' = pc
        BY <1>6, <2>4 DEF WalkExt
      <3>2. TypeOK'
        <4>1. walked' \in 0 .. MaxExt /\ cursor' \in Nat /\ opt_sz' \in Nat
          <5>1. walked \in Nat /\ walked < MaxExt /\ walked' = walked + 1
            BY <2>1, <3>1
          <5>2. /\ cursor \in Nat /\ opt_sz \in Nat /\ ExtBytes \in Nat
                /\ cursor' = cursor + ExtBytes /\ opt_sz' = opt_sz + ExtBytes
            BY <2>2, <3>1
          <5> QED BY <1>0, <5>1, <5>2
        <4> QED BY <2>2, <3>1, <4>1 DEF TypeOK
      <3>3. CursorInv'
        <4>1. walked' <= Len(frame.ext) /\ cursor' = frame.at[walked' + 1]
          BY <2>1, <2>2, <3>1
        <4>2. cursor' = GtpEnd' + opt_sz'
          BY <2>2, <3>1 DEF GtpEnd
        <4> QED BY <2>2, <3>1, <4>1, <4>2 DEF CursorInv
      <3> QED BY <2>2, <3>1, <3>2, <3>3 DEF MatchInv, AcceptInv
    <2> QED BY <2>3, <2>4
  <1>7. CASE ExtDone
    <2>1. pc = "ext" /\ pc' = "inner" /\ LoopDone
      BY <1>7 DEF ExtDone, Step, LoopDone
    <2>2. UNCHANGED <<frame, cursor, opt_sz, walked, strip>>
      BY <1>7 DEF ExtDone
    <2> QED BY <2>1, <2>2
            DEF TypeOK, CursorInv, MatchInv, AcceptInv, GtpEnd, LoopDone, MoreExt
  <1>8. CASE ParseInner
    <2>1. /\ pc = "inner" /\ cursor' = cursor + IpSz
          /\ strip' = 4 * frame.ihl + UdpSz + GtpSz + opt_sz
          /\ UNCHANGED <<frame, opt_sz, walked>>
      BY <1>8 DEF ParseInner, Step
    <2>2. /\ walked <= Len(frame.ext) /\ LoopDone
          /\ cursor = frame.at[walked + 1] /\ cursor = GtpEnd + opt_sz
          /\ cursor \in Nat /\ opt_sz \in Nat /\ walked \in Nat
      BY <1>0, <2>1 DEF CursorInv, TypeOK
    <2>3. pc' \in {"lost", "pass", "match"}
      BY <1>8 DEF ParseInner, Step
    <2>4. TypeOK'
      <3> DEFINE h == frame.ihl
      <3>1. h \in Nat /\ opt_sz \in Nat /\ cursor \in Nat
        BY <2>2, FrameFacts
      <3>2. strip' = 4 * h + UdpSz + GtpSz + opt_sz /\ cursor' = cursor + IpSz
        BY <2>1
      <3> HIDE DEF h
      <3>3. strip' \in Nat /\ cursor' \in Nat
        BY <3>1, <3>2 DEF IpSz, UdpSz, GtpSz
      <3> QED BY <2>1, <2>3, <3>3 DEF TypeOK, Ended
    <2>5. CursorInv'
      BY <2>3 DEF CursorInv
    <2>6. MatchInv'
      <3> SUFFICES ASSUME pc' = "match"
                   PROVE  /\ walked <= Len(frame.ext) /\ LoopDone
                          /\ EthSz + strip' = frame.at[walked + 1]
                          /\ cursor' = EthSz + strip' + IpSz
                          /\ cursor' <= frame.len
        BY <2>1 DEF MatchInv, LoopDone, MoreExt
      <3>1. ~Short(IpSz)
        BY <1>8 DEF ParseInner, Step
      <3>2. frame.ihl \in Nat /\ frame.len \in Nat
        BY FrameFacts
      <3>3. EthSz + strip' = cursor
        <4> DEFINE h == frame.ihl
        <4>1. /\ h \in Nat /\ opt_sz \in Nat
              /\ strip' = 4 * h + UdpSz + GtpSz + opt_sz
              /\ cursor = EthSz + 4 * h + UdpSz + GtpSz + opt_sz
          BY <2>1, <2>2, <3>2 DEF GtpEnd
        <4> HIDE DEF h
        <4> QED BY <4>1 DEF EthSz, UdpSz, GtpSz
      <3>4. cursor + IpSz <= frame.len
        BY <2>2, <3>1, <3>2 DEF Short, IpSz
      <3> QED BY <2>1, <2>2, <3>3, <3>4
    <2>7. AcceptInv'
      <3> SUFFICES ASSUME WellFormed(frame), Len(frame.ext) <= MaxExt
                   PROVE  pc' = "match"
        BY <2>1 DEF AcceptInv
      <3>1. walked = Len(frame.ext) /\ ~MoreExt
        BY <1>0, <2>2, OffsetType DEF LoopDone, MoreExt, TypeOK
      <3>2. cursor = InnerOffset(frame)
        BY <2>2, <3>1 DEF InnerOffset
      <3>3. ~Short(IpSz)
        BY <2>2, <3>2, FrameFacts, WellFormedFacts DEF Short, IpSz
      <3>4. VersionHere = 4
        BY <3>1, WellFormedFacts DEF VersionHere
      <3> QED BY <1>8, <3>3, <3>4 DEF ParseInner, Step
    <2> QED BY <2>4, <2>5, <2>6, <2>7
  <1>9. CASE UNCHANGED vars
    BY <1>9 DEF vars, TypeOK, CursorInv, MatchInv, AcceptInv, GtpEnd, LoopDone, MoreExt
  <1> QED
    BY <1>1, <1>2, <1>3, <1>4, <1>5, <1>6, <1>7, <1>8, <1>9 DEF Next, Returned

LEMMA Invariant == Spec => []IInv
  BY InitInv, StepInv, PTL DEF Spec

-----------------------------------------------------------------------------
(* Theorems *)

\* The parser's state keeps its types, whatever frames arrive.
THEOREM TypeCorrect == Spec => []TypeOK
  <1>1. IInv => TypeOK
    BY DEF IInv
  <1> QED BY <1>1, Invariant, PTL

\* What decap_gtpu() strips ends where the inner packet starts: for every chain
\* of extension headers, announced by the flag E, that the loop can walk to its end.
THEOREM StripExactHolds == Spec => []StripExact
  <1>1. IInv => StripExact
    <2> SUFFICES ASSUME IInv, pc = "match", Chained(frame), Len(frame.ext) <= MaxExt
                 PROVE  EthSz + strip = InnerOffset(frame)
      BY DEF StripExact
    <2>1. walked = Len(frame.ext)
      BY OffsetType, FramesAssumption DEF IInv, TypeOK, MatchInv, LoopDone, MoreExt
    <2> QED BY <2>1 DEF IInv, MatchInv, InnerOffset
  <1> QED BY <1>1, Invariant, PTL

\* A match never reaches beyond data_end, however the frame was cut and however
\* many extension headers the loop left alone.
THEOREM MatchInBoundsHolds == Spec => []MatchInBounds
  <1>1. IInv => MatchInBounds
    BY DEF IInv, MatchInv, MatchInBounds
  <1> QED BY <1>1, Invariant, PTL

\* The parser refuses no well-formed G-PDU whose extension headers it can walk.
THEOREM WellFormedMatchedHolds == Spec => []WellFormedMatched
  <1>1. IInv => WellFormedMatched
    BY DEF IInv, AcceptInv, WellFormedMatched, Ended
  <1> QED BY <1>1, Invariant, PTL

=============================================================================
