------------------------------ MODULE GtpParse ------------------------------
(***************************************************************************)
(* How xdp_gtp_router() takes a frame apart before any rule is looked up:  *)
(* Ethernet, outer IPv4, UDP, GTP-U, the optional GTP-U fields, the chain  *)
(* of extension headers and the inner IPv4 header.  Each header is one     *)
(* step; each iteration of the extension loop is one step.  A frame is     *)
(* described by what the program tests in it and by where its headers lie; *)
(* it may end anywhere (len is data_end - data).                           *)
(*                                                                         *)
(* The parser ends in one of                                               *)
(*   "match"  a G-PDU: look up its TEID, then its inner destination        *)
(*   "bare"   not GTP-U: try_encap() on its destination                    *)
(*   "pass"   counted in STAT_PASS and left to the kernel                  *)
(*   "drop"   counted in STAT_DROP                                         *)
(*   "lost"   CURSOR_ADVANCE found the frame too short: XDP_DROP, no count *)
(***************************************************************************)
EXTENDS Integers, Sequences

CONSTANTS
    Frames,     \* the frames that arrive
    MaxExt      \* iterations of the extension loop: 4 in the code

EthSz == 14
IpSz == 20
UdpSz == 8
GtpSz == 8      \* GTPU_MANDATORY_SZ
OptSz == 4      \* GTPU_OPTIONAL_SZ

\* opt: one of the flags E, S and PN is set, so that the optional fields are there;
\* e: the flag E is, so that extension headers may follow.  ext is the chain that
\* next_ext and the bytes after it describe, which is there to be read whatever E
\* says: ext[i] is the length byte of its i-th header, at[i] is where that header
\* starts and at[Len(ext) + 1] is where the chain ends; inner is the version
\* nibble there.
Frame == [len : Nat, ethip : BOOLEAN, version : Nat, ihl : Nat, udp : BOOLEAN,
          gtpport : BOOLEAN, gpdu : BOOLEAN, opt : BOOLEAN, e : BOOLEAN,
          ext : Seq(Nat), at : Seq(Nat), inner : Nat]

\* Where the GTP-U payload starts: after the fixed headers of the frame.
Payload(f) ==
    EthSz + 4 * f.ihl + UdpSz + GtpSz + (IF f.opt THEN OptSz ELSE 0)

\* The headers lie one after the other.
Placed(f) ==
    /\ ~f.opt => f.ext = <<>> /\ ~f.e
    /\ Len(f.at) = Len(f.ext) + 1
    /\ f.at[1] = Payload(f)
    /\ \A i \in 1 .. Len(f.ext) : f.at[i + 1] = f.at[i] + 4 * f.ext[i]

InnerOffset(f) == f.at[Len(f.ext) + 1]

\* The chain is one of extension headers: with E clear, next_ext means nothing and
\* the inner packet follows the optional fields.
Chained(f) == f.e \/ f.ext = <<>>

ASSUME FramesAssumption ==
    /\ Frames \subseteq Frame
    /\ \A f \in Frames : Placed(f)
    /\ MaxExt \in Nat

VARIABLES
    frame,      \* the frame being parsed
    pc,         \* the header that is parsed next, or how the parser ended
    cursor,     \* offset of the next byte to parse
    opt_sz,     \* bytes of optional fields and extension headers
    walked,     \* iterations of the extension loop done
    strip       \* what decap_gtpu() is asked to strip, set on a match

vars == <<frame, pc, cursor, opt_sz, walked, strip>>

Ended == {"match", "bare", "pass", "drop", "lost"}

Init ==
    /\ frame \in Frames
    /\ pc = "eth"
    /\ cursor = 0
    /\ opt_sz = 0
    /\ walked = 0
    /\ strip = 0

\* CURSOR_ADVANCE's test.
Short(n) == cursor + n > frame.len

\* Where a header's tests send the parser.
Step(from, to) == pc = from /\ pc' = to

ParseEth ==
    /\ Step("eth", IF Short(EthSz) THEN "lost"
                   ELSE IF ~frame.ethip THEN "pass" ELSE "ip")
    /\ cursor' = EthSz
    /\ UNCHANGED <<frame, opt_sz, walked, strip>>

\* The cursor goes past the IP options before the UDP header is read.
ParseIp ==
    /\ Step("ip", IF Short(IpSz) THEN "lost"
                  ELSE IF frame.version # 4 \/ frame.ihl < 5 THEN "pass"
                  ELSE IF ~frame.udp THEN "bare"
                  ELSE IF Short(4 * frame.ihl) THEN "pass" ELSE "udp")
    /\ cursor' = cursor + 4 * frame.ihl
    /\ UNCHANGED <<frame, opt_sz, walked, strip>>

ParseUdp ==
    /\ Step("udp", IF Short(UdpSz) THEN "lost"
                   ELSE IF ~frame.gtpport THEN "bare" ELSE "gtp")
    /\ cursor' = cursor + UdpSz
    /\ UNCHANGED <<frame, opt_sz, walked, strip>>

\* Version 1, protocol type GTP, message type G-PDU.
ParseGtp ==
    /\ Step("gtp", IF Short(GtpSz) THEN "lost"
                   ELSE IF ~frame.gpdu THEN "pass"
                   ELSE IF frame.opt THEN "opt" ELSE "inner")
    /\ cursor' = cursor + GtpSz
    /\ UNCHANGED <<frame, opt_sz, walked, strip>>

ParseOpt ==
    /\ Step("opt", IF Short(OptSz) THEN "lost" ELSE "ext")
    /\ cursor' = cursor + OptSz
    /\ opt_sz' = OptSz
    /\ UNCHANGED <<frame, walked, strip>>

\* next_ext # 0: one more extension header follows.  The flag E is not asked.
MoreExt == walked < Len(frame.ext)

\* ext_sz, from the length byte under the cursor.
ExtBytes == 4 * frame.ext[walked + 1]

\* Mutant: an extension header of one word is refused with the empty ones.
BadExtOneWord == Short(1) \/ ExtBytes <= 4 \/ Short(ExtBytes)

\* The extension header is cut off, or empty.
BadExt == Short(1) \/ ExtBytes < 4 \/ Short(ExtBytes)

\* Mutant: the walk goes on to the end of the chain, which the verifier of
\* the code's kernel would not accept.
WalkExtUnbounded ==
    /\ pc = "ext" /\ MoreExt
    /\ IF BadExt
       THEN pc' = "drop" /\ UNCHANGED <<cursor, opt_sz, walked>>
       ELSE /\ cursor' = cursor + ExtBytes
            /\ opt_sz' = opt_sz + ExtBytes
            /\ walked' = walked + 1
            /\ pc' = pc
    /\ UNCHANGED <<frame, strip>>

\* One iteration of the loop over the extension headers.
WalkExt ==
    /\ pc = "ext" /\ MoreExt /\ walked < MaxExt
    /\ IF BadExt
       THEN pc' = "drop" /\ UNCHANGED <<cursor, opt_sz, walked>>
       ELSE /\ cursor' = cursor + ExtBytes
            /\ opt_sz' = opt_sz + ExtBytes
            /\ walked' = walked + 1
            /\ pc' = pc
    /\ UNCHANGED <<frame, strip>>

\* The loop ends: no more headers, or no more iterations.
ExtDone ==
    /\ Step("ext", "inner")
    /\ ~MoreExt \/ walked >= MaxExt
    /\ UNCHANGED <<frame, cursor, opt_sz, walked, strip>>

\* The version nibble under the cursor: of the inner packet, or of the length
\* byte of an extension header the loop did not get to.
VersionHere ==
    IF MoreExt THEN frame.ext[walked + 1] \div 16 ELSE frame.inner

\* Mutant: the IP options of the outer header are forgotten.
ParseInnerNoOptions ==
    /\ Step("inner", IF Short(IpSz) THEN "lost"
                     ELSE IF VersionHere # 4 THEN "pass" ELSE "match")
    /\ cursor' = cursor + IpSz
    /\ strip' = IpSz + UdpSz + GtpSz + opt_sz
    /\ UNCHANGED <<frame, opt_sz, walked>>

\* Mutant: the inner header is not checked against the end of the frame.
ParseInnerUnchecked ==
    /\ Step("inner", IF VersionHere # 4 THEN "pass" ELSE "match")
    /\ cursor' = cursor + IpSz
    /\ strip' = 4 * frame.ihl + UdpSz + GtpSz + opt_sz
    /\ UNCHANGED <<frame, opt_sz, walked>>

\* The inner IPv4 header; strip is computed as for FWD_ACTION_DECAP_FWD.
ParseInner ==
    /\ Step("inner", IF Short(IpSz) THEN "lost"
                     ELSE IF VersionHere # 4 THEN "pass" ELSE "match")
    /\ cursor' = cursor + IpSz
    /\ strip' = 4 * frame.ihl + UdpSz + GtpSz + opt_sz
    /\ UNCHANGED <<frame, opt_sz, walked>>

\* The verdict was returned.
Returned == pc \in Ended /\ UNCHANGED vars

Next ==
    \/ ParseEth \/ ParseIp \/ ParseUdp \/ ParseGtp \/ ParseOpt
    \/ WalkExt \/ ExtDone \/ ParseInner
    \/ Returned

Spec == Init /\ [][Next]_vars

-----------------------------------------------------------------------------
(* Properties *)

TypeOK ==
    /\ frame \in Frame /\ Placed(frame)
    /\ pc \in {"eth", "ip", "udp", "gtp", "opt", "ext", "inner"} \cup Ended
    /\ cursor \in Nat
    /\ opt_sz \in Nat
    /\ walked \in 0 .. MaxExt
    /\ strip \in Nat

\* A frame that carries a whole IPv4 packet in a well-formed G-PDU.
WellFormed(f) ==
    /\ f.ethip /\ f.version = 4 /\ f.ihl >= 5 /\ f.udp /\ f.gtpport /\ f.gpdu
    /\ Chained(f) /\ \A i \in 1 .. Len(f.ext) : f.ext[i] >= 1
    /\ f.inner = 4
    /\ InnerOffset(f) + IpSz <= f.len

\* Decapsulation strips exactly the tunnel: on a match, with as many extension
\* headers as the loop has iterations at the most, the bytes decap_gtpu() is
\* told to strip after the Ethernet header end where the inner packet starts.  A
\* frame whose next_ext is set while E is clear is beyond it: the loop walks there
\* too.
StripExact ==
    (pc = "match" /\ Chained(frame) /\ Len(frame.ext) <= MaxExt)
        => EthSz + strip = InnerOffset(frame)

\* A match lies inside the frame: the inner header that is read, and the bytes
\* that are stripped, are not beyond data_end, however the frame was cut.
MatchInBounds ==
    pc = "match" => cursor <= frame.len /\ EthSz + strip + IpSz <= frame.len

\* No well-formed G-PDU with at most MaxExt extension headers is refused or
\* left to the kernel: the parser never gives up on one half-way.
WellFormedMatched ==
    (pc \in Ended /\ WellFormed(frame) /\ Len(frame.ext) <= MaxExt)
        => pc = "match"

=============================================================================
