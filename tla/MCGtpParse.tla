----------------------------- MODULE MCGtpParse -----------------------------
(* Frames with and without IP options, optional fields and up to five        *)
(* extension headers, announced by the flag E or not, cut at every length.   *)
EXTENDS GtpParse

\* Offsets of the headers of a frame: start, then the start of each extension
\* header, then the inner packet.
Sum4(ext, n) ==
    LET s[i \in 0 .. n] == IF i = 0 THEN 0 ELSE s[i - 1] + 4 * ext[i] IN s[n]

Place(f) == [f EXCEPT !.at = [i \in 1 .. Len(f.ext) + 1 |->
                                 Payload(f) + Sum4(f.ext, i - 1)]]

Base == [len |-> 0, ethip |-> TRUE, version |-> 4, ihl |-> 5, udp |-> TRUE,
         gtpport |-> TRUE, gpdu |-> TRUE, opt |-> TRUE, e |-> TRUE,
         ext |-> <<>>, at |-> <<>>, inner |-> 4]

Chains == UNION {[1 .. n -> {0, 1, 2}] : n \in 0 .. 2}
            \cup {<<1, 1, 1>>, <<1, 2, 1, 1>>, <<1, 1, 1, 1, 1>>, <<2, 1, 1, 1, 1>>}

\* Where the last byte may fall: anywhere from nothing to past the inner IP.
Lengths(f) == 0 .. InnerOffset(f) + IpSz + 1

Cut(f) == {[Place(f) EXCEPT !.len = n] : n \in Lengths(Place(f))}

Odd == {[Base EXCEPT !.ethip = FALSE], [Base EXCEPT !.version = 6],
        [Base EXCEPT !.ihl = 4], [Base EXCEPT !.udp = FALSE],
        [Base EXCEPT !.gtpport = FALSE], [Base EXCEPT !.gpdu = FALSE],
        [Base EXCEPT !.inner = 6], [Base EXCEPT !.opt = FALSE, !.e = FALSE]}

\* The flags S or PN without E, and a next_ext that is 0 or not: the length byte is
\* then the first one of the inner packet, 0x45, or whatever else is there.
Unchained == {[Base EXCEPT !.e = FALSE, !.ext = c] :
                  c \in {<<>>, <<0>>, <<1>>, <<69>>, <<1, 2>>}}

MCFrames ==
    UNION {Cut(f) : f \in Odd \cup Unchained \cup
              {[Base EXCEPT !.ihl = h, !.ext = c] : h \in {5, 7}, c \in Chains}}

=============================================================================
