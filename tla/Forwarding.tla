----------------------------- MODULE Forwarding -----------------------------
(***************************************************************************)
(* The rule tables between the two planes: xdp_gtp_router() and            *)
(* try_encap() look rules up, apply them and count (data plane);           *)
(* add-teid, add-ueip, add-nat, the del commands and the dashboard's form  *)
(* write the tables, and some of them the egress port table tx_port        *)
(* (control plane).                                                        *)
(*                                                                         *)
(* A frame is what module GtpParse makes of it.  One run of the XDP        *)
(* program is one action; what enforce_policy() answers (module            *)
(* RatePolicy) and whether the header rewrites find room are choices of    *)
(* the environment.  A command is two steps: its map write and its         *)
(* EnsureTxPort() call; it may fail or be killed in between.               *)
(***************************************************************************)
EXTENDS Integers, FiniteSets, Functions

CONSTANTS
    Key,            \* TEIDs and addresses
    Ifindex,        \* interface indices, numbered from 1
    Loaded,         \* the interfaces the loader put into tx_port
    DevmapSize,     \* MAX_IFINDEX: tx_port has no room for larger indices
    MaxEntries,     \* capacity of each rule table
    Rules,          \* the rules operators ask for
    Op,             \* operators that run commands at the same time
    MaxFrames,      \* bound on the frames handled
    NoRule, Idle    \* model values

Table == {"teid", "ueip", "nat"}

Action == {"drop", "decap", "redirect", "encap"}

\* out_ifindex; whether both MACs are given; whether teid_out, dst_ip and
\* src_ip are given; whether the rule has a cap or a quarantine.
Rule == [action : Action, out : Ifindex \cup {0}, macs : BOOLEAN,
         tunnel : BOOLEAN, capped : BOOLEAN]

Frame == [kind : {"other", "malformed", "truncated"}]
           \cup [kind : {"gtp"}, teid : Key, dst : Key]
           \cup [kind : {"bare"}, dst : Key]

\* A command between its two steps: the rule it wrote and the port it is to provision.
Pending == [table : Table, key : Key, out : Ifindex \cup {0}]

ASSUME ForwardingAssumption ==
    /\ Ifindex \subseteq Nat \ {0} /\ Loaded \subseteq Ifindex
    /\ DevmapSize \in Nat /\ MaxEntries \in Nat /\ MaxFrames \in Nat
    /\ Rules \subseteq Rule
    /\ NoRule \notin Rule /\ Idle \notin Pending
    /\ IsFiniteSet(Key)

VARIABLES
    rules,      \* rules[t][k]: the rule in table t under key k
    pkts,       \* pkts[t][k]: that rule's pkt_count
    tx_port,    \* the interfaces bpf_redirect_map() can send to
    stats,      \* stats_map: frames counted as pass, drop, redirect
    cmd,        \* cmd[o]: the port operator o's command has yet to provision
    verdicts,   \* history: frames by the verdict the driver saw, the truncated
                \* ones (dropped too) apart
    broken      \* history: the tables' rules whose command failed after it
                \* had written them

Verdict == {"pass", "drop", "redirect", "aborted", "truncated"}

vars == <<rules, pkts, tx_port, stats, cmd, verdicts, broken>>
data == <<stats, verdicts>>
control == <<rules, tx_port, cmd, broken>>

None == [k \in Key |-> NoRule]
Zero == [k \in Key |-> 0]

Init ==
    /\ rules = [t \in Table |-> None]
    /\ pkts = [t \in Table |-> Zero]
    /\ tx_port = Loaded
    /\ stats = [s \in {"pass", "drop", "redirect"} |-> 0]
    /\ cmd = [o \in Op |-> Idle]
    /\ verdicts = [v \in Verdict |-> 0]
    /\ broken = {}

-----------------------------------------------------------------------------
(* Data plane *)

Has(t, k) == rules[t][k] # NoRule

\* What happens to a frame: the counter of stats_map it goes to ("none" when
\* CURSOR_ADVANCE returns), the rule whose pkt_count it adds to, the verdict.
Outcome(stat, hit, verdict) == [stat |-> stat, hit |-> hit, verdict |-> verdict]

NoHit == <<>>
Passed == Outcome("pass", NoHit, "pass")
Dropped == Outcome("drop", NoHit, "drop")

\* bpf_redirect_map(): an interface that is not in the devmap aborts.
redirect_out(out) == IF out \in tx_port THEN "redirect" ELSE "aborted"

\* The frame leaves by the rule's port: counted as redirected either way.
Forwarded(h) == Outcome("redirect", h, redirect_out(rules[h[1]][h[2]].out))

\* Which rule a GTP-U frame is handled by: its TEID's, else the one of its
\* inner destination.
UplinkHit(f) ==
    IF Has("teid", f.teid) THEN <<"teid", f.teid>>
    ELSE IF Has("ueip", f.dst) THEN <<"ueip", f.dst>> ELSE NoHit

\* Which rule a bare frame is handled by (try_encap): the NAT table's, else the
\* UE table's, if they encapsulate.
DownlinkHit(f) ==
    LET Encaps(t) == Has(t, f.dst) /\ rules[t][f.dst].action = "encap"
    IN  IF Encaps("nat") THEN <<"nat", f.dst>>
        ELSE IF Encaps("ueip") THEN <<"ueip", f.dst>> ELSE NoHit

Hit(f) ==
    CASE f.kind = "gtp"  -> UplinkHit(f)
      [] f.kind = "bare" -> DownlinkHit(f)
      [] OTHER -> NoHit

\* Mutant: a frame whose rewrite failed is dropped, and no counter says so.
ApplyFailedSilent(f, h, ok) ==
    LET a == rules[h[1]][h[2]].action
    IN  CASE a = "drop"     -> Outcome("drop", h, "drop")
          [] a = "redirect" -> Forwarded(h)
          [] a = "encap" /\ f.kind = "gtp" -> Passed
          [] OTHER -> IF ok THEN Forwarded(h) ELSE Outcome("none", NoHit, "drop")

\* Mutant: a frame that an encap rule leaves to the kernel counts for the rule.
ApplyPassBumps(f, h, ok) ==
    LET a == rules[h[1]][h[2]].action
    IN  CASE a = "drop"     -> Outcome("drop", h, "drop")
          [] a = "redirect" -> Forwarded(h)
          [] a = "encap" /\ f.kind = "gtp" -> Outcome("pass", h, "pass")
          [] OTHER -> IF ok THEN Forwarded(h) ELSE Dropped

\* The action of the rule, once enforce_policy() has let the frame through: ok
\* says whether decap_gtpu, nat_src_rewrite, nat_dst_rewrite and the encap
\* functions found the room and the headers they need.  An encap rule does
\* nothing for a frame that is in a tunnel already.
Apply(f, h, ok) ==
    LET a == rules[h[1]][h[2]].action
    IN  CASE a = "drop"     -> Outcome("drop", h, "drop")
          [] a = "redirect" -> Forwarded(h)
          [] a = "encap" /\ f.kind = "gtp" -> Passed
          [] OTHER -> IF ok THEN Forwarded(h) ELSE Dropped

xdp_gtp_router(f, enforced, ok) ==
    LET h == Hit(f)
    IN  CASE f.kind = "malformed" -> Dropped
          [] f.kind = "truncated" -> Outcome("none", NoHit, "drop")
          [] OTHER -> IF h = NoHit THEN Passed
                      ELSE IF enforced THEN Outcome("drop", h, "drop")
                      ELSE Apply(f, h, ok)

\* bump_rule()
BumpRule(hit) ==
    pkts' = IF hit = NoHit THEN pkts
            ELSE [pkts EXCEPT ![hit[1]][hit[2]] = @ + 1]

\* bump_stats()
BumpStats(stat) ==
    stats' = IF stat = "none" THEN stats ELSE [stats EXCEPT ![stat] = @ + 1]

\* History: what the frame counts as.
Seen(f, verdict) == IF f.kind = "truncated" THEN "truncated" ELSE verdict

\* One frame, from the driver's call to the verdict.
Xdp(f, enforced, ok) ==
    /\ SumFunction(verdicts) < MaxFrames
    /\ enforced => Hit(f) # NoHit /\ rules[Hit(f)[1]][Hit(f)[2]].capped
    /\ LET o == xdp_gtp_router(f, enforced, ok)
       IN  /\ BumpStats(o.stat)
           /\ BumpRule(o.hit)
           /\ verdicts' = [verdicts EXCEPT ![Seen(f, o.verdict)] = @ + 1]
    /\ UNCHANGED control

-----------------------------------------------------------------------------
(* Control plane *)

\* What ValidateRule asks of the forwarding fields.
ValidateRule(r) ==
    r.action # "drop" => /\ r.out # 0 /\ r.macs
                         /\ r.action = "encap" => r.tunnel

\* The hash map's update: replaces the value, counters included; a new key
\* needs room.
Put(t, k, r) ==
    /\ Has(t, k) \/ Cardinality({x \in Key : Has(t, x)}) < MaxEntries
    /\ rules' = [rules EXCEPT ![t][k] = r]
    /\ pkts' = [pkts EXCEPT ![t][k] = 0]
    /\ broken' = broken \ {<<t, k>>}

\* The rule is written first, the port comes after.
WriteThenEnsure(o, t, k, r) ==
    /\ cmd[o] = Idle
    /\ ValidateRule(r)
    /\ Put(t, k, r)
    /\ cmd' = [cmd EXCEPT ![o] = [table |-> t, key |-> k, out |-> r.out]]
    /\ UNCHANGED <<tx_port, data>>

AddTeid(o, k, r) == WriteThenEnsure(o, "teid", k, r)

\* add-nat writes encap rules only, and has no flags for a cap.
AddNat(o, k, r) ==
    /\ r.action = "encap"
    /\ WriteThenEnsure(o, "nat", k, [r EXCEPT !.capped = FALSE])

\* History: the rule a command wrote and could not finish, if it is still there.
Unfinished(c) ==
    {h \in {<<c.table, c.key>>} : Has(h[1], h[2]) /\ rules[h[1]][h[2]].out = c.out}

\* Mutant: EnsureTxPort provisions the interface the program is attached to.
EnsureTxPortLoaded(o) ==
    /\ cmd[o] # Idle
    /\ tx_port' = tx_port \cup Loaded
    /\ UNCHANGED <<broken, rules, pkts, data>>
    /\ cmd' = [cmd EXCEPT ![o] = Idle]

\* Mutant: a rule without an interface provisions port 0.
EnsureTxPortZero(o) ==
    /\ cmd[o] # Idle /\ cmd[o].out < DevmapSize
    /\ tx_port' = tx_port \cup {cmd[o].out}
    /\ cmd' = [cmd EXCEPT ![o] = Idle]
    /\ UNCHANGED <<broken, rules, pkts, data>>

\* EnsureTxPort: nothing to do without an interface; the devmap has no room for
\* an index beyond its size, and then the command fails with the rule in place.
EnsureTxPort(o) ==
    /\ cmd[o] # Idle
    /\ LET out == cmd[o].out
       IN  IF out = 0 \/ out < DevmapSize
           THEN /\ tx_port' = tx_port \cup ({out} \ {0})
                /\ UNCHANGED broken
           ELSE /\ broken' = broken \cup Unfinished(cmd[o])
                /\ UNCHANGED tx_port
    /\ cmd' = [cmd EXCEPT ![o] = Idle]
    /\ UNCHANGED <<rules, pkts, data>>

\* The command is killed between its two steps.
Interrupt(o) ==
    /\ cmd[o] # Idle
    /\ broken' = broken \cup Unfinished(cmd[o])
    /\ cmd' = [cmd EXCEPT ![o] = Idle]
    /\ UNCHANGED <<rules, pkts, tx_port, data>>

\* The rule is validated and written, and that is all.
WriteOnly(t, k, r) ==
    /\ ValidateRule(r)
    /\ Put(t, k, r)
    /\ UNCHANGED <<tx_port, cmd, data>>

AddUeip(k, r) == WriteOnly("ueip", k, r)

\* Enter in the dashboard's form, for either of its tables.
SubmitForm(t, k, r) == t \in {"teid", "ueip"} /\ WriteOnly(t, k, r)

\* The hash map's delete: the egress port stays.
Remove(t, k) ==
    /\ Has(t, k)
    /\ rules' = [rules EXCEPT ![t][k] = NoRule]
    /\ pkts' = [pkts EXCEPT ![t][k] = 0]
    /\ broken' = broken \ {<<t, k>>}
    /\ UNCHANGED <<tx_port, cmd, data>>

DelTeid(k) == Remove("teid", k)
DelUeip(k) == Remove("ueip", k)
DelNat(k) == Remove("nat", k)

\* "y" at the dashboard's prompt, for either of its tables.
ConfirmDelete(t, k) == t \in {"teid", "ueip"} /\ Remove(t, k)

Command(o) ==
    \/ \E k \in Key, r \in Rules : AddTeid(o, k, r) \/ AddNat(o, k, r)
    \/ EnsureTxPort(o)
    \/ Interrupt(o)

Next ==
    \/ \E f \in Frame, enforced, ok \in BOOLEAN : Xdp(f, enforced, ok)
    \/ \E o \in Op : Command(o)
    \/ \E k \in Key, r \in Rules :
           AddUeip(k, r) \/ \E t \in Table : SubmitForm(t, k, r)
    \/ \E k \in Key :
           \/ DelTeid(k) \/ DelUeip(k) \/ DelNat(k)
           \/ \E t \in Table : ConfirmDelete(t, k)

Spec == Init /\ [][Next]_vars

-----------------------------------------------------------------------------
(* Properties *)

TypeOK ==
    /\ rules \in [Table -> [Key -> Rule \cup {NoRule}]]
    /\ pkts \in [Table -> [Key -> Nat]]
    /\ tx_port \subseteq Ifindex
    /\ stats \in [{"pass", "drop", "redirect"} -> Nat]
    /\ cmd \in [Op -> Pending \cup {Idle}]
    /\ verdicts \in [Verdict -> Nat]
    /\ broken \subseteq Table \X Key

\* Every frame is counted once, under what became of it, whatever path it takes
\* through the rules: passes where it passed, redirects where it was sent or where
\* the devmap had no port, drops where it was dropped.  The frames that
\* CURSOR_ADVANCE found truncated are the only ones no counter shows.
CountedOnce ==
    /\ stats["pass"] = verdicts["pass"]
    /\ stats["redirect"] = verdicts["redirect"] + verdicts["aborted"]
    /\ stats["drop"] = verdicts["drop"]

\* The packets the rules show, numbered for each rule.
Shown == UNION {{<<t, k, n>> : n \in 1 .. pkts[t][k]} : t \in Table, k \in Key}

\* What the rules claim to have handled was counted by the verdict counters:
\* the tables together never show more packets than were dropped or
\* redirected, however rules are rewritten, deleted and shadowed.
RulesWithinStats == Cardinality(Shown) <= stats["drop"] + stats["redirect"]

\* The part of the port guarantee the code keeps: a NAT rule has its egress
\* port, or the command that wrote it is not done, or was told it failed.
NatProvisioned ==
    \A k \in Key : Has("nat", k) =>
        LET c == [table |-> "nat", key |-> k, out |-> rules["nat"][k].out]
        IN  \/ c.out \in tx_port
            \/ \E o \in Op : cmd[o] = c
            \/ <<"nat", k>> \in broken

\* gtp_xdp.c: "the control plane guarantees an entry exists for every
\* out_ifindex a rule uses".  Taken at its word only when no command is
\* running, and of rules whose command did not report a failure.
PortsProvisioned ==
    (\A o \in Op : cmd[o] = Idle) =>
        \A t \in Table, k \in Key :
            (Has(t, k) /\ rules[t][k].action # "drop" /\ <<t, k>> \notin broken)
                => rules[t][k].out \in tx_port

=============================================================================
