----------------------------- MODULE MCRewrite ------------------------------
(* Rewrite on words where carries and zeros happen.                          *)
EXTENDS Rewrite

\* 10.45.0.2, 255.255.255.255 and 10.45.245.210, whose words add up to
\* 2^16 - 1.
MCAddr == {<<2605, 2>>, <<65535, 65535>>, <<2605, 62930>>}

\* With 65535 the other words already verify; with 65534 they are one short, and
\* with 65536 one over: there the first fold of an update carries again.
MCRest == {65534, 65535, 65536, 100000}

\* 65500 is too long for a tunnel's headers.
MCTotLen == {1400, 65500}

=============================================================================
