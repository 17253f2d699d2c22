-------------------------- MODULE ForwardingProofs --------------------------
(* Theorems about Forwarding, for any tables, rules and interfaces and any    *)
(* number of operators and frames.                                           *)
EXTENDS Forwarding, FiniteSetTheorems, TLAPS

\* A NAT rule has an egress interface, which is why its command provisions one.
NatOut == \A k \in Key : Has("nat", k) => rules["nat"][k].out # 0

\* What the data plane keeps, and what the control plane keeps.
DataInv == CountedOnce /\ IsFiniteSet(Shown) /\ RulesWithinStats
NatInv == NatOut /\ NatProvisioned

IInv == TypeOK /\ DataInv /\ NatInv

-----------------------------------------------------------------------------
(* The counters *)

\* The rule a frame is handled by is one of the tables'.
LEMMA HitType ==
    ASSUME NEW f \in Frame
    PROVE  Hit(f) = NoHit \/ \E t \in Table, k \in Key : Hit(f) = <<t, k>>
  <1>0. {"teid", "ueip", "nat"} \subseteq Table
    BY DEF Table
  <1>1. CASE f.kind = "gtp"
    <2>1. f.teid \in Key /\ f.dst \in Key
      BY <1>1 DEF Frame
    <2>2. Hit(f) = UplinkHit(f)
      BY <1>1 DEF Hit
    <2> QED BY <1>0, <2>1, <2>2 DEF UplinkHit
  <1>2. CASE f.kind = "bare"
    <2>1. f.dst \in Key
      BY <1>2 DEF Frame
    <2>2. Hit(f) = DownlinkHit(f)
      BY <1>2 DEF Hit
    <2> QED BY <1>0, <2>1, <2>2 DEF DownlinkHit
  <1>3. CASE f.kind # "gtp" /\ f.kind # "bare"
    BY <1>3 DEF Hit
  <1> QED BY <1>1, <1>2, <1>3

\* What may happen to a frame: the counter it goes to is the one of its verdict,
\* and only truncated frames go to none.
Matched(o, h, seen) ==
    \/ o.stat = "pass" /\ o.hit = NoHit /\ seen = "pass"
    \/ o.stat = "none" /\ o.hit = NoHit /\ seen = "truncated"
    \/ o.stat = "drop" /\ o.hit \in {NoHit, h} /\ seen = "drop"
    \/ o.stat = "redirect" /\ o.hit = h /\ seen \in {"redirect", "aborted"}

LEMMA OutcomeCases ==
    ASSUME NEW f \in Frame, NEW enforced \in BOOLEAN, NEW ok \in BOOLEAN
    PROVE  LET o == xdp_gtp_router(f, enforced, ok)
           IN  Matched(o, Hit(f), Seen(f, o.verdict))
  <1> DEFINE h == Hit(f)
             o == xdp_gtp_router(f, enforced, ok)
  <1>1. CASE f.kind = "truncated"
    <2>1. o = Outcome("none", NoHit, "drop")
      BY <1>1 DEF xdp_gtp_router
    <2> QED BY <1>1, <2>1 DEF Outcome, Seen, Matched
  <1>2. CASE f.kind # "truncated"
    <2> DEFINE Ends == {Passed, Dropped, Outcome("drop", h, "drop"), Forwarded(h)}
    <2>1. Apply(f, h, ok) \in Ends
      BY DEF Apply
    <2>2. o \in Ends
      BY <1>2, <2>1 DEF xdp_gtp_router
    <2> HIDE DEF h, o
    <2>3. \A e \in Ends : Matched(e, h, e.verdict)
      BY DEF Passed, Dropped, Outcome, Forwarded, redirect_out, Matched
    <2> HIDE DEF Ends
    <2>4. Matched(o, h, o.verdict)
      BY <2>2, <2>3
    <2> QED BY <1>2, <2>4 DEF Seen, h, o
  <1> QED BY <1>1, <1>2

LEMMA ShownMember ==
    ASSUME NEW t \in Table, NEW k \in Key, NEW n \in 1 .. pkts[t][k]
    PROVE  <<t, k, n>> \in Shown
  <1> DEFINE S(s, j) == {<<s, j, m>> : m \in 1 .. pkts[s][j]}
  <1>1. <<t, k, n>> \in S(t, k)
    OBVIOUS
  <1>2. S(t, k) \in {S(s, j) : s \in Table, j \in Key}
    <2> HIDE DEF S
    <2> QED OBVIOUS
  <1>3. Shown = UNION {S(s, j) : s \in Table, j \in Key}
    BY DEF Shown
  <1> HIDE DEF S
  <1> QED BY <1>1, <1>2, <1>3

\* A packet more under one rule.
LEMMA ShownAdd ==
    ASSUME TypeOK, IsFiniteSet(Shown), NEW t \in Table, NEW k \in Key,
           pkts' = [pkts EXCEPT ![t][k] = @ + 1]
    PROVE  IsFiniteSet(Shown') /\ Cardinality(Shown') <= Cardinality(Shown) + 1
  <1> DEFINE x == <<t, k, pkts[t][k] + 1>>
  <1>1. /\ \A s \in Table, j \in Key : pkts[s][j] \in Nat
        /\ pkts'[t][k] = pkts[t][k] + 1
        /\ \A s \in Table, j \in Key : s # t \/ j # k => pkts'[s][j] = pkts[s][j]
    BY DEF TypeOK
  <1>2. ASSUME NEW y, y \in Shown' PROVE y \in Shown \cup {x}
    <2>1. PICK s \in Table, j \in Key : \E n \in 1 .. pkts'[s][j] : y = <<s, j, n>>
      BY <1>2 DEF Shown
    <2>2. PICK n \in 1 .. pkts'[s][j] : y = <<s, j, n>>
      BY <2>1
    <2>3. CASE n \in 1 .. pkts[s][j]
      BY <2>2, <2>3, ShownMember
    <2>4. CASE n \notin 1 .. pkts[s][j]
      <3>1. s = t /\ j = k
        BY <1>1, <2>2, <2>4
      <3>2. n = pkts[t][k] + 1
        BY <1>1, <2>2, <2>4, <3>1
      <3> QED BY <2>2, <3>1, <3>2
    <2> QED BY <2>3, <2>4
  <1> HIDE DEF x
  <1>3. Shown' \in SUBSET (Shown \cup {x})
    BY <1>2
  <1>4. /\ IsFiniteSet(Shown \cup {x})
        /\ Cardinality(Shown \cup {x}) <= Cardinality(Shown) + 1
    <2>1. Cardinality(Shown) \in Nat
      BY FS_CardinalityType
    <2>2. /\ IsFiniteSet(Shown \cup {x})
          /\ \/ Cardinality(Shown \cup {x}) = Cardinality(Shown)
             \/ Cardinality(Shown \cup {x}) = Cardinality(Shown) + 1
      BY FS_AddElement
    <2> QED BY <2>1, <2>2
  <1>5. /\ IsFiniteSet(Shown')
        /\ Cardinality(Shown') <= Cardinality(Shown \cup {x})
    BY <1>3, <1>4, FS_Subset, Zenon
  <1>6. /\ Cardinality(Shown') \in Nat /\ Cardinality(Shown) \in Nat
        /\ Cardinality(Shown \cup {x}) \in Nat
    BY <1>4, <1>5, FS_CardinalityType
  <1> QED BY <1>4, <1>5, <1>6

\* A rule's counter starts again.
LEMMA ShownReset ==
    ASSUME TypeOK, IsFiniteSet(Shown), NEW t \in Table, NEW k \in Key,
           pkts' = [pkts EXCEPT ![t][k] = 0]
    PROVE  IsFiniteSet(Shown') /\ Cardinality(Shown') <= Cardinality(Shown)
  <1>1. /\ \A s \in Table, j \in Key : pkts[s][j] \in Nat
        /\ pkts'[t][k] = 0
        /\ \A s \in Table, j \in Key : s # t \/ j # k => pkts'[s][j] = pkts[s][j]
    BY DEF TypeOK
  <1>2. ASSUME NEW y, y \in Shown' PROVE y \in Shown
    <2>1. PICK s \in Table, j \in Key : \E n \in 1 .. pkts'[s][j] : y = <<s, j, n>>
      BY <1>2 DEF Shown
    <2>2. PICK n \in 1 .. pkts'[s][j] : y = <<s, j, n>>
      BY <2>1
    <2>3. n \in 1 .. pkts[s][j]
      BY <1>1, <2>2
    <2> QED BY <2>2, <2>3, ShownMember
  <1>3. Shown' \in SUBSET Shown
    BY <1>2
  <1> QED BY <1>3, FS_Subset, Zenon

-----------------------------------------------------------------------------
(* The data plane *)

LEMMA InitInv == Init => IInv
  <1> SUFFICES ASSUME Init PROVE IInv
    OBVIOUS
  <1> USE DEF Init
  <1>1. TypeOK
    <2>1. None \in [Key -> Rule \cup {NoRule}] /\ Zero \in [Key -> Nat]
      BY DEF None, Zero
    <2> QED BY <2>1, ForwardingAssumption DEF TypeOK
  <1>2. CountedOnce
    BY DEF CountedOnce, Verdict
  <1>3. IsFiniteSet(Shown) /\ Cardinality(Shown) = 0
    <2>1. \A t \in Table, k \in Key : pkts[t][k] = 0
      BY DEF Zero
    <2>2. Shown = {}
      BY <2>1 DEF Shown
    <2> QED BY <2>2, FS_EmptySet
  <1>4. RulesWithinStats
    BY <1>3 DEF RulesWithinStats
  <1>5. \A k \in Key : ~Has("nat", k)
    BY DEF Has, None, Table
  <1> QED BY <1>1, <1>2, <1>3, <1>4, <1>5 DEF IInv, DataInv, NatInv, NatOut, NatProvisioned

LEMMA XdpInv ==
    ASSUME IInv, NEW f \in Frame, NEW enforced \in BOOLEAN, NEW ok \in BOOLEAN,
           Xdp(f, enforced, ok)
    PROVE  IInv'
  <1> USE DEF IInv, DataInv
  <1> DEFINE o == xdp_gtp_router(f, enforced, ok)
             seen == Seen(f, o.verdict)
  <1>1. /\ BumpStats(o.stat) /\ BumpRule(o.hit)
        /\ verdicts' = [verdicts EXCEPT ![seen] = @ + 1]
        /\ UNCHANGED <<rules, tx_port, cmd, broken>>
    BY DEF Xdp, control
  <1>2. Matched(o, Hit(f), seen)
    BY OutcomeCases
  <1> HIDE DEF seen
  <1> HIDE DEF o
  <1>3. /\ stats \in [{"pass", "drop", "redirect"} -> Nat]
        /\ verdicts \in [Verdict -> Nat]
    BY DEF TypeOK
  <1>4. /\ stats' \in [{"pass", "drop", "redirect"} -> Nat]
        /\ verdicts' \in [Verdict -> Nat]
    BY <1>1, <1>2, <1>3 DEF BumpStats, Matched, Verdict
  <1>5. CountedOnce'
    <2>1. \A s \in {"pass", "drop", "redirect"} :
             stats'[s] = IF s = o.stat THEN stats[s] + 1 ELSE stats[s]
      BY <1>1, <1>2, <1>3 DEF BumpStats, Matched
    <2>2. \A v \in Verdict :
             verdicts'[v] = IF v = seen THEN verdicts[v] + 1 ELSE verdicts[v]
      BY <1>1, <1>3
    <2> QED BY <1>2, <1>3, <2>1, <2>2 DEF CountedOnce, Matched, Verdict
  <1>6. \/ pkts' = pkts
        \/ /\ o.stat \in {"drop", "redirect"}
           /\ \E t \in Table, k \in Key : pkts' = [pkts EXCEPT ![t][k] = @ + 1]
    <2>1. CASE o.hit = NoHit
      BY <1>1, <2>1 DEF BumpRule
    <2>2. CASE o.hit # NoHit
      <3>1. o.hit = Hit(f) /\ o.stat \in {"drop", "redirect"}
        BY <1>2, <2>2 DEF Matched
      <3>2. PICK t \in Table, k \in Key : o.hit = <<t, k>>
        BY <2>2, <3>1, HitType
      <3>3. pkts' = [pkts EXCEPT ![t][k] = @ + 1]
        BY <1>1, <2>2, <3>2 DEF BumpRule
      <3> QED BY <3>1, <3>3
    <2> QED BY <2>1, <2>2
  <1>7. TypeOK'
    <2>1. pkts' \in [Table -> [Key -> Nat]]
      <3>1. pkts \in [Table -> [Key -> Nat]]
        BY DEF TypeOK
      <3>2. ASSUME NEW t \in Table, NEW k \in Key, pkts' = [pkts EXCEPT ![t][k] = @ + 1]
            PROVE  pkts' \in [Table -> [Key -> Nat]]
        BY <3>1, <3>2
      <3> QED BY <1>6, <3>1, <3>2
    <2> QED BY <1>1, <1>4, <2>1 DEF TypeOK
  <1>8. IsFiniteSet(Shown') /\ RulesWithinStats'
    <2> DEFINE N == stats["drop"] + stats["redirect"]
    <2>1. /\ N \in Nat /\ N' \in Nat /\ N' >= N
          /\ o.stat \in {"drop", "redirect"} => N' = N + 1
      BY <1>1, <1>2, <1>3 DEF BumpStats, Matched
    <2>2. Cardinality(Shown) \in Nat /\ Cardinality(Shown) <= N
      BY FS_CardinalityType DEF RulesWithinStats
    <2> HIDE DEF N
    <2>3. CASE pkts' = pkts
      <3>1. Shown' = Shown
        BY <2>3 DEF Shown
      <3> QED BY <2>1, <2>2, <3>1 DEF RulesWithinStats, N
    <2>4. ASSUME o.stat \in {"drop", "redirect"}, NEW t \in Table, NEW k \in Key,
                 pkts' = [pkts EXCEPT ![t][k] = @ + 1]
          PROVE  IsFiniteSet(Shown') /\ RulesWithinStats'
      <3>1. IsFiniteSet(Shown') /\ Cardinality(Shown') <= Cardinality(Shown) + 1
        BY <2>4, ShownAdd
      <3>2. Cardinality(Shown') \in Nat
        BY <3>1, FS_CardinalityType
      <3>3. Cardinality(Shown') <= N'
        BY <2>1, <2>2, <2>4, <3>1, <3>2
      <3> QED BY <3>1, <3>3 DEF RulesWithinStats, N
    <2> QED BY <1>6, <2>3, <2>4
  <1>9. NatInv'
    BY <1>1 DEF NatInv, NatOut, NatProvisioned, Has
  <1> QED BY <1>5, <1>7, <1>8, <1>9

-----------------------------------------------------------------------------
(* The control plane *)

\* A rule is written or removed: the counters of the frames stay.
LEMMA ResetData ==
    ASSUME TypeOK, DataInv, NEW t \in Table, NEW k \in Key,
           pkts' = [pkts EXCEPT ![t][k] = 0], UNCHANGED <<stats, verdicts>>
    PROVE  DataInv'
  <1>1. IsFiniteSet(Shown') /\ Cardinality(Shown') <= Cardinality(Shown)
    BY ShownReset DEF DataInv
  <1>2. Cardinality(Shown') \in Nat /\ Cardinality(Shown) \in Nat
    BY <1>1, FS_CardinalityType DEF DataInv
  <1> DEFINE N == stats["drop"] + stats["redirect"]
  <1>3. N \in Nat /\ N' = N
    BY DEF TypeOK
  <1>4. Cardinality(Shown) <= N
    BY DEF DataInv, RulesWithinStats
  <1> HIDE DEF N
  <1>5. Cardinality(Shown') <= N'
    BY <1>1, <1>2, <1>3, <1>4
  <1>6. RulesWithinStats'
    BY <1>5 DEF RulesWithinStats, N
  <1>7. CountedOnce'
    BY DEF DataInv, CountedOnce
  <1> QED BY <1>1, <1>6, <1>7 DEF DataInv

\* The same for a command's step that leaves the rules alone.
LEMMA SameData ==
    ASSUME DataInv, UNCHANGED <<pkts, stats, verdicts>>
    PROVE  DataInv'
  BY DEF DataInv, CountedOnce, RulesWithinStats, Shown

\* What a NAT rule's command has promised.
Promise(k) == [table |-> "nat", key |-> k, out |-> rules["nat"][k].out]

\* NatProvisioned, for one key.
Kept(k) == \/ Promise(k).out \in tx_port
           \/ \E o \in Op : cmd[o] = Promise(k)
           \/ <<"nat", k>> \in broken

LEMMA NatKept == NatProvisioned <=> \A k \in Key : Has("nat", k) => Kept(k)
  BY DEF NatProvisioned, Kept, Promise

LEMMA NatKeptNext == (\A k \in Key : Has("nat", k)' => Kept(k)') => NatProvisioned'
  BY DEF NatProvisioned, Kept, Promise

LEMMA PromiseType ==
    ASSUME TypeOK, NEW k \in Key, Has("nat", k)
    PROVE  Promise(k) \in Pending /\ Promise(k) # Idle
  <1>1. "nat" \in Table
    BY DEF Table
  <1>2. rules["nat"][k] \in Rule
    BY <1>1 DEF TypeOK, Has
  <1> QED BY <1>1, <1>2, ForwardingAssumption DEF Promise, Pending, Rule

\* The other entries of a table after one was replaced.
LEMMA RulesAfter ==
    ASSUME TypeOK, NEW t \in Table, NEW k \in Key, NEW r \in Rule \cup {NoRule},
           rules' = [rules EXCEPT ![t][k] = r]
    PROVE  /\ rules' \in [Table -> [Key -> Rule \cup {NoRule}]]
           /\ rules'[t][k] = r
           /\ \A s \in Table, j \in Key : s # t \/ j # k => rules'[s][j] = rules[s][j]
  BY DEF TypeOK

\* A NAT rule about to be written has an egress port, and a command that will see
\* to it.
Announced(t, k, r) ==
    t = "nat" /\ r # NoRule =>
        /\ r.out # 0
        /\ \E o \in Op : cmd'[o] = [table |-> "nat", key |-> k, out |-> r.out]

\* A rule is replaced or removed, by operator o or by a command that provisions
\* nothing: what is promised for other rules stays.
LEMMA ReplaceNat ==
    ASSUME TypeOK, NatInv, NEW t \in Table, NEW k \in Key, NEW r \in Rule \cup {NoRule},
           rules' = [rules EXCEPT ![t][k] = r],
           broken' = broken \ {<<t, k>>}, tx_port' = tx_port,
           \A o \in Op : cmd[o] # Idle => cmd'[o] = cmd[o],
           Announced(t, k, r)
    PROVE  NatInv'
  <1>0. "nat" \in Table
    BY DEF Table
  <1>1. /\ rules'[t][k] = r
        /\ \A s \in Table, j \in Key : s # t \/ j # k => rules'[s][j] = rules[s][j]
    BY DEF TypeOK
  <1>2. ASSUME NEW j \in Key, Has("nat", j)'
        PROVE  rules'["nat"][j].out # 0 /\ Kept(j)'
    <2>1. CASE t = "nat" /\ j = k
      BY <1>1, <1>2, <2>1 DEF Has, Kept, Promise, Announced
    <2>2. CASE ~(t = "nat" /\ j = k)
      <3>1. rules'["nat"][j] = rules["nat"][j]
        BY <1>0, <1>1, <2>2
      <3>2. Has("nat", j) /\ Promise(j)' = Promise(j)
        BY <1>2, <3>1 DEF Has, Promise
      <3>3. Kept(j) /\ rules["nat"][j].out # 0
        BY <3>2, NatKept DEF NatInv, NatOut
      <3>4. Promise(j) # Idle
        BY <3>2, PromiseType
      <3>5. <<"nat", j>> # <<t, k>>
        BY <2>2
      <3>6. Promise(j).out \in tx_port => Kept(j)'
        BY <3>2 DEF Kept
      <3>7. ASSUME NEW o \in Op, cmd[o] = Promise(j) PROVE Kept(j)'
        BY <3>2, <3>4, <3>7 DEF Kept
      <3>8. <<"nat", j>> \in broken => Kept(j)'
        BY <3>5 DEF Kept
      <3> QED BY <3>1, <3>3, <3>6, <3>7, <3>8 DEF Kept
    <2> QED BY <2>1, <2>2
  <1>3. NatOut'
    BY <1>2 DEF NatOut
  <1>4. NatProvisioned'
    BY <1>2, NatKeptNext
  <1> QED BY <1>3, <1>4 DEF NatInv

LEMMA WriteThenEnsureInv ==
    ASSUME IInv, NEW o \in Op, NEW t \in Table, NEW k \in Key, NEW r \in Rule,
           WriteThenEnsure(o, t, k, r), t = "nat" => r.action = "encap"
    PROVE  IInv'
  <1> DEFINE c == [table |-> t, key |-> k, out |-> r.out]
  <1>1. /\ cmd[o] = Idle /\ cmd' = [cmd EXCEPT ![o] = c] /\ ValidateRule(r)
        /\ rules' = [rules EXCEPT ![t][k] = r] /\ pkts' = [pkts EXCEPT ![t][k] = 0]
        /\ broken' = broken \ {<<t, k>>} /\ UNCHANGED <<tx_port, stats, verdicts>>
    BY DEF WriteThenEnsure, Put, data
  <1>2. TypeOK /\ DataInv /\ NatInv
    BY DEF IInv
  <1>3. c \in Pending
    BY DEF Pending, Rule
  <1> HIDE DEF c
  <1>4. TypeOK'
    <2>1. rules' \in [Table -> [Key -> Rule \cup {NoRule}]]
      BY <1>1, <1>2, RulesAfter
    <2>2. pkts' \in [Table -> [Key -> Nat]]
      BY <1>1, <1>2 DEF TypeOK
    <2> QED BY <1>1, <1>2, <1>3, <2>1, <2>2 DEF TypeOK
  <1>5. DataInv'
    BY <1>1, <1>2, ResetData
  <1>6. cmd'[o] = c /\ \A p \in Op : cmd[p] # Idle => cmd'[p] = cmd[p]
    BY <1>1, <1>2 DEF TypeOK
  <1>7. t = "nat" => /\ r.out # 0
                     /\ cmd'[o] = [table |-> "nat", key |-> k, out |-> r.out]
    BY <1>1, <1>6 DEF ValidateRule, c
  <1>8. Announced(t, k, r)
    BY <1>7 DEF Announced
  <1>9. NatInv'
    BY <1>1, <1>2, <1>6, <1>8, ReplaceNat
  <1> QED BY <1>4, <1>5, <1>9 DEF IInv

LEMMA WriteOnlyInv ==
    ASSUME IInv, NEW t \in {"teid", "ueip"}, NEW k \in Key, NEW r \in Rule \cup {NoRule},
           rules' = [rules EXCEPT ![t][k] = r], pkts' = [pkts EXCEPT ![t][k] = 0],
           broken' = broken \ {<<t, k>>}, UNCHANGED <<tx_port, cmd, stats, verdicts>>
    PROVE  IInv'
  <1>1. t \in Table /\ t # "nat"
    BY DEF Table
  <1>2. TypeOK /\ DataInv /\ NatInv
    BY DEF IInv
  <1>3. TypeOK'
    <2>1. rules' \in [Table -> [Key -> Rule \cup {NoRule}]]
      BY <1>1, <1>2, RulesAfter
    <2>2. pkts' \in [Table -> [Key -> Nat]]
      BY <1>1, <1>2 DEF TypeOK
    <2> QED BY <1>2, <2>1, <2>2 DEF TypeOK
  <1>4. DataInv'
    BY <1>1, <1>2, ResetData
  <1>5. NatInv'
    <2>1. Announced(t, k, r)
      BY <1>1 DEF Announced
    <2> QED BY <1>1, <1>2, <2>1, ReplaceNat
  <1> QED BY <1>3, <1>4, <1>5 DEF IInv

LEMMA RemoveInv ==
    ASSUME IInv, NEW t \in Table, NEW k \in Key, Remove(t, k)
    PROVE  IInv'
  <1>1. /\ rules' = [rules EXCEPT ![t][k] = NoRule] /\ pkts' = [pkts EXCEPT ![t][k] = 0]
        /\ broken' = broken \ {<<t, k>>} /\ UNCHANGED <<tx_port, cmd, stats, verdicts>>
    BY DEF Remove, data
  <1>2. TypeOK /\ DataInv /\ NatInv
    BY DEF IInv
  <1>3. TypeOK'
    <2>1. rules' \in [Table -> [Key -> Rule \cup {NoRule}]]
      BY <1>1, <1>2, RulesAfter
    <2>2. pkts' \in [Table -> [Key -> Nat]]
      BY <1>1, <1>2 DEF TypeOK
    <2> QED BY <1>1, <1>2, <2>1, <2>2 DEF TypeOK
  <1>4. DataInv'
    BY <1>1, <1>2, ResetData
  <1>5. NatInv'
    <2>1. Announced(t, k, NoRule)
      BY DEF Announced
    <2> QED BY <1>1, <1>2, <2>1, ReplaceNat
  <1> QED BY <1>3, <1>4, <1>5 DEF IInv

\* A command's second step, done, failed or not taken: its rule is provisioned,
\* or the command failed.
LEMMA EndInv ==
    ASSUME IInv, NEW o \in Op, EnsureTxPort(o) \/ Interrupt(o)
    PROVE  IInv'
  <1>1. /\ cmd[o] # Idle /\ cmd' = [cmd EXCEPT ![o] = Idle]
        /\ UNCHANGED <<rules, pkts, stats, verdicts>>
    BY DEF EnsureTxPort, Interrupt, data
  <1>2. \/ tx_port' = tx_port \cup ({cmd[o].out} \ {0}) /\ broken' = broken
        \/ tx_port' = tx_port /\ broken' = broken \cup Unfinished(cmd[o])
    BY DEF EnsureTxPort, Interrupt
  <1>3. TypeOK /\ DataInv /\ NatInv
    BY DEF IInv
  <1>4. cmd[o] \in Pending
    BY <1>1, <1>3 DEF TypeOK
  <1>5. TypeOK'
    <2>1. Unfinished(cmd[o]) \subseteq Table \X Key
      BY <1>4 DEF Unfinished, Pending
    <2>2. {cmd[o].out} \ {0} \subseteq Ifindex
      BY <1>4 DEF Pending
    <2>3. tx_port' \subseteq Ifindex /\ broken' \subseteq Table \X Key
      BY <1>2, <1>3, <2>1, <2>2 DEF TypeOK
    <2> QED BY <1>1, <1>3, <2>3 DEF TypeOK
  <1>6. DataInv'
    BY <1>1, <1>3, SameData
  <1>7. ASSUME NEW k \in Key, Has("nat", k)' PROVE Kept(k)'
    <2>1. Has("nat", k) /\ Promise(k)' = Promise(k)
      BY <1>1, <1>7 DEF Has, Promise
    <2>2. Kept(k) /\ Promise(k).out # 0
      BY <1>3, <2>1, NatKept DEF NatInv, NatOut, Promise
    <2>3. CASE Promise(k).out \in tx_port \/ <<"nat", k>> \in broken
      BY <1>2, <2>1, <2>3 DEF Kept
    <2>4. ASSUME NEW p \in Op, cmd[p] = Promise(k), p # o PROVE Kept(k)'
      BY <1>1, <1>3, <2>1, <2>4 DEF Kept, TypeOK
    <2>5. CASE cmd[o] = Promise(k)
      <3>1. CASE tx_port' = tx_port \cup ({cmd[o].out} \ {0})
        BY <2>1, <2>2, <2>5, <3>1 DEF Kept
      <3>2. CASE broken' = broken \cup Unfinished(cmd[o])
        <4>1. <<"nat", k>> \in Unfinished(cmd[o])
          BY <2>1, <2>5 DEF Unfinished, Promise
        <4> QED BY <3>2, <4>1 DEF Kept
      <3> QED BY <1>2, <3>1, <3>2
    <2> QED BY <2>2, <2>3, <2>4, <2>5 DEF Kept
  <1>8. NatProvisioned'
    BY <1>7, NatKeptNext
  <1>9. NatOut'
    BY <1>1, <1>3 DEF NatInv, NatOut, Has
  <1> QED BY <1>5, <1>6, <1>8, <1>9 DEF IInv, NatInv

-----------------------------------------------------------------------------
(* Theorems *)

LEMMA StepInv == IInv /\ [Next]_vars => IInv'
  <1> SUFFICES ASSUME IInv, [Next]_vars PROVE IInv'
    OBVIOUS
  <1>0. {"teid", "ueip", "nat"} = Table /\ Rules \subseteq Rule
    BY ForwardingAssumption DEF Table
  <1>1. CASE UNCHANGED vars
    BY <1>1 DEF vars, IInv, TypeOK, DataInv, CountedOnce, RulesWithinStats, Shown,
                NatInv, NatOut, NatProvisioned, Has
  <1>2. ASSUME NEW o \in Op, Command(o) PROVE IInv'
    <2>1. ASSUME NEW k \in Key, NEW r \in Rules, AddTeid(o, k, r) PROVE IInv'
      BY <1>0, <2>1, WriteThenEnsureInv DEF AddTeid
    <2>2. ASSUME NEW k \in Key, NEW r \in Rules, AddNat(o, k, r) PROVE IInv'
      <3> DEFINE q == [r EXCEPT !.capped = FALSE]
      <3>1. q \in Rule /\ q.action = r.action
        BY <1>0 DEF Rule
      <3>2. r.action = "encap" /\ WriteThenEnsure(o, "nat", k, q)
        BY <2>2 DEF AddNat
      <3> HIDE DEF q
      <3> QED BY <1>0, <3>1, <3>2, WriteThenEnsureInv
    <2> QED BY <1>2, <2>1, <2>2, EndInv DEF Command
  <1>3. ASSUME NEW k \in Key, NEW r \in Rules, NEW t \in {"teid", "ueip"}, WriteOnly(t, k, r)
        PROVE  IInv'
    <2>1. /\ rules' = [rules EXCEPT ![t][k] = r] /\ pkts' = [pkts EXCEPT ![t][k] = 0]
          /\ broken' = broken \ {<<t, k>>} /\ UNCHANGED <<tx_port, cmd, stats, verdicts>>
      BY <1>3 DEF WriteOnly, Put, data
    <2> QED BY <1>0, <2>1, WriteOnlyInv
  <1>4. ASSUME NEW k \in Key, NEW r \in Rules, NEW t \in Table,
               AddUeip(k, r) \/ SubmitForm(t, k, r)
        PROVE  IInv'
    BY <1>3, <1>4 DEF AddUeip, SubmitForm
  <1>5. ASSUME NEW k \in Key, NEW t \in Table,
               DelTeid(k) \/ DelUeip(k) \/ DelNat(k) \/ ConfirmDelete(t, k)
        PROVE  IInv'
    BY <1>0, <1>5, RemoveInv DEF DelTeid, DelUeip, DelNat, ConfirmDelete
  <1> QED BY <1>0, <1>1, <1>2, <1>4, <1>5, XdpInv DEF Next

LEMMA Invariant == Spec => []IInv
  BY InitInv, StepInv, PTL DEF Spec

\* The tables, the counters and the port table stay within their types, and no
\* command provisions interface 0.
THEOREM TypeCorrect == Spec => []TypeOK
  <1>1. IInv => TypeOK
    BY DEF IInv
  <1> QED BY <1>1, Invariant, PTL

\* The counters of bump_stats() are the verdicts of xdp_gtp_router(), drops included;
\* only truncated frames are missing from them.
THEOREM CountedOnceHolds == Spec => []CountedOnce
  <1>1. IInv => CountedOnce
    BY DEF IInv, DataInv
  <1> QED BY <1>1, Invariant, PTL

\* The pkt_counts of bump_rule(), all rules together, never exceed what
\* bump_stats() counted as dropped and redirected.
THEOREM RulesWithinStatsHolds == Spec => []RulesWithinStats
  <1>1. IInv => RulesWithinStats
    BY DEF IInv, DataInv
  <1> QED BY <1>1, Invariant, PTL

\* add-nat's rule has its entry in tx_port, unless its command still runs or
\* failed, whatever other operators do to the rule meanwhile.
THEOREM NatProvisionedHolds == Spec => []NatProvisioned
  <1>1. IInv => NatProvisioned
    BY DEF IInv, NatInv
  <1> QED BY <1>1, Invariant, PTL

=============================================================================
