# A TLA+ model of the eBPF GTP-U packet router

This directory holds a formal model of the router in `src/gtp-router`: an XDP
program (`ebpf/gtp_xdp.c`) that terminates, rewrites, polices and redirects
GTP-U traffic, and a Go control plane (`control/`, the binary `gtp-ctrl`) that
loads it and edits the rules it obeys. The modules are translated from the
source; `PROJECT.json` maps every definition that models code to the lines it
models.

    tlc -config MCRatePolicy.cfg MCRatePolicy     # model-check one run
    tlapm RatePolicyProofs.tla                    # check one module's proofs

## 1. Inventory

| part | state it keeps | operations | module |
|---|---|---|---|
| per-rule enforcement (`enforce_policy`) | the window, the streak and the quarantine deadline inside `struct fwd_rule` | one call per matched packet; the control plane replaces the value | `RatePolicy`, `Quarantine`, `PolicyRace`, `RatePolicyProofs` |
| GTP-U parser (`xdp_gtp_router`, first half) | cursor, `opt_sz`, the loop counter | one step per header | `GtpParse` |
| lookup, actions, verdict counters (`xdp_gtp_router`, second half; `try_encap`) | `stats_map`, each rule's `pkt_count` | one call per frame | `Forwarding`, `Monitor` |
| rule tables and the add/del commands (`control/cmd`, `control/maps`) | `teid_map`, `ueip_map`, `nat_map`, `tx_port` | `add-teid`, `add-ueip`, `add-nat`, `del-*`, `EnsureTxPort`, the dashboard's writes | `Forwarding` (tables, ports), `RatePolicy` (policy fields) |
| header rewrites (`nat_src_rewrite`, `nat_dst_rewrite`, `csum_update_u32`, `decap_gtpu`, `encap_gtpu`, `encap_gtpu_5g`) | the frame | one step per rewrite | `Rewrite` |
| loader (`control/loader`, `cmd/load.go`, `cmd/unload.go`) | pins of five maps and two links, the attached programs | `load`, `unload` | `Loader` |
| dashboard (`control/tui`) | rows, selection, focus, sub-view, fetches on their way | keys, ticks, results | `Dashboard` |
| `list`, `stats`, the dashboard's fetches (`cmd/list.go`, `cmd/stats.go`, `maps.List*`, `stats/stats.go`) | the report being put together | one lookup per key, then one per verdict | `Monitor` |
| generated bindings, `xdp_pass.c`, `tools/` | none of interest | | not modelled |

How the parts meet. The two planes share nothing but pinned BPF maps. A packet
is parsed (`GtpParse`), its rule is found and applied (`Forwarding`), the rule's
policy is enforced on the way (`RatePolicy`, `PolicyRace`), and the headers are
rewritten (`Rewrite`). Meanwhile commands and the dashboard write the same
tables (`Forwarding`, `Dashboard`), others read them and the counters while both
change (`Monitor`), and `load`/`unload` replace the maps under
everybody's feet (`Loader`). In `Forwarding` the answer of `enforce_policy` and
the success of a rewrite are free choices, so what it shows holds for whatever
the other modules do.

What is hard here, and which properties would catch it, is the `hazards` list of
`PROJECT.json`. The main ones:

* `enforce_policy` is a small protocol spread over many packets and seconds, run
  without atomics on every CPU that serves the flow;
* nothing but the next packet ends a quarantine or scores a window;
* a command writes a rule and provisions its port in two steps, and some
  commands do only the first;
* `load` replaces pins one by one and attaches last;
* extension header lengths and total lengths come from the wire; checksums are
  updated incrementally in 16 bits;
* a rule is rewritten while a program works on it, and the map's preallocated
  element may be the new rule's already when the old program stores into it;
* no report is read at one instant: the iterator walks a table that changes, and
  counters go on counting;
* dashboard fetches overlap with one another, with keys and with other
  operators.

What makes each part correct:

* enforcement: no second sees more than a known multiple of the cap; a
  quarantine is earned, blocks until its deadline, ends by itself, and leaves
  nothing behind;
* parser: what is stripped is exactly the tunnel; no access beyond the frame; no
  well-formed packet is refused;
* forwarding: each frame is counted once, rules do not claim more than was
  counted, a rule that redirects has a port;
* rewrites: every checksum that was right is right afterwards; the lengths of a
  new tunnel agree;
* loader: success means one consistent generation, failure leaves nothing
  attached, unload leaves only what cannot be removed, the planes share their maps;
* reports: an untouched rule is listed, totals are true, rules and totals agree;
* dashboard: what is confirmed is what was shown; the panels catch up.

## 2. Modules

### RatePolicy — `enforce_policy` on one rule, packets in sequence

State: the policy fields of `struct fwd_rule`, the clock, whether the rule is in
the map. Actions: `Tick` (the clock), `Packet` (the whole of `enforce_policy`),
`Put` (`ValidateRule`, then the map update, which zeroes the window and the
quarantine), `Delete`. `Held`, `Release`, `RollOver`, `Count` and `Enforce`
follow the function from top to bottom. History variables record the last
verdict, the packets let through in one arbitrarily chosen second (`probe`,
`seen`) and when the current streak began. Time is counted in ticks, `Second` of
them being the code's 1000000000 ns.

### Quarantine — the promise

The abstract specification of enforcement: offences, a block that needs
`quarantine_threshold` of them, a deadline, a lift by the first packet after it.
No windows and no counters. `RatePolicy!ImplementsQuarantine` states the
refinement with `offences` mapped to `violation_streak + window_violated` and
`until` to `quarantine_until_ns`. It records one thing that a reader of the code
may miss: the packet that triggers a block is itself let through.

### PolicyRace — the same function on several CPUs

The lookup, the read of the clock and every load and store of the shared rule are
steps of their own; each CPU has a program counter, the element it looked up, its
reading of the clock and a register. A field that the source loads twice is loaded
twice (the deadline at lines 139 and 140, the streak at 155 and 157), and the
neighbouring stores that the compiler swaps in the objects the repository ships
(144-145, 166-167) happen in either order. The one exception, stated in the module:
the comparison of `window_count` at line 170 and its increment at line 175 share one
load. No store lies between them, the Makefile always builds with `-O2`, and each
inlined copy of the function in `control/loader/gtpxdp_bpfel.o` has one load there.
`CountWithinCap` is a property of that program. The C source alone would not give it:
a build with a second load could let two CPUs that both saw `cap - 1` store
`cap + 1`.

The subtraction that finds the end of a window is
unsigned: `WordSize` stands for 2^64. The clock may tick while a program is
running, but a program ends less than `MaxRun` ticks after it read the clock. The
history `windows` counts, for each element, the windows marked as violated (the flag
going from 0 to 1) since its streak was last cleared, by a calm window, an imposed
quarantine or a release, by a program that was alone at work on the element; while
others are at work, one of them may still carry the old streak, and the count goes on.

The control plane writes and deletes the rule at any moment (`Put`, `Delete`).
The hash map is preallocated: an update fills another element and links it, a
program goes on with the one it found, and an element that was given up can be
taken again at once, so that a late store of an old program lands in a new rule.
`Memory` forgets what nobody can read any more.

### GtpParse — the parser

A frame is described by what the program tests in it and by where its headers
lie; `len` is `data_end - data`. One action per header, one per iteration of the
extension loop. The outcome is a match, a bare packet for `try_encap`, a counted
pass, a counted drop, or the uncounted drop of `CURSOR_ADVANCE`. A frame says
separately whether it has optional fields (E, S or PN) and whether E is set: the
code walks `next_ext` in both cases, so `ext` is the chain that the bytes describe,
and `Chained` says whether it is one of extension headers.

### Forwarding — tables, commands, verdicts

`Xdp` is one run of the program over the tables: `UplinkHit` and `DownlinkHit`
are the lookups, `Apply` the action, `BumpStats` and `BumpRule` the counters. The
history `verdicts` counts frames by what became of them, truncated ones apart. A
command of the control plane is its map write and then `EnsureTxPort`; it may be
interrupted in between, and `EnsureTxPort` fails for an interface index beyond
the devmap. `AddUeip` and the dashboard's writes have the first step only, as in
the code.

### Rewrite — what is written into the frame

`csum_update_u32` with its two folds, the L4 checksum's zero test, the removal
of the tunnel, and both kinds of new tunnel headers, with 16-bit words. A sender
builds a packet whose checksums verify; the rewrites a rule asks for follow one
another; the reference (`Verifies`) is the one's complement sum of all words.

### Monitor — what an operator is shown

Reads of a rule table and of the verdict counters beside XDP and other operators.
`bump_rule` is a load and a store of a counter all CPUs share, `bump_stats` adds to
the CPU's own. `Advance` and `Lookup` are the two halves of the iterator's step: a
key whose entry is gone sends it back to the start, more keys than the map holds
end it (`Abort`), a key that vanished before its value was read is skipped.
`ReadFromMap` sums the CPUs' counters, one verdict after the other. `list` shows
the rules, `stats` the totals, the dashboard both, in that order. The order within
a bucket and the reuse of elements are the kernel's (external).

### Loader — `load` and `unload`

One step per system call that can fail or leaves something behind. That includes the
calls whose errors the code throws away: `os.Remove` before a pin is made and in
`unload`, and `Unpin` in the cleanup. A pin that could not be removed stays where it
is, and pinning over it fails; the history `stuck` holds the pins that the running (or
last) command failed to remove. `Ensure` fails for an index beyond the devmap, for an
interface that is gone, or for any other reason. A generation
numbers the maps and the program of one load. The kernel's part (external): a
link keeps its program attached while a pin or a process refers to it, an
interface carries one link, and a link dies with its interface.

### Dashboard — the event loop

Keys, ticks and results of fetches are actions of one loop; a fetch reads the two
tables and then the counters, beside it, and each read may fail; so may a delete. `live` is the pair of rule tables, which other
operators also change.

### Proof modules

`RatePolicyProofs`, `PolicyRaceProofs`, `GtpParseProofs`, `ForwardingProofs`,
`LoaderProofs`, `RewriteProofs`, `MonitorProofs` and `DashboardProofs` extend the
module they are named after and add no behaviour. Each has the parts of the
inductive invariant first, then the lemmas about the module's operators, then one
lemma for each action, and the theorems at the end. Section 4 describes them.

### MC modules

`MCRatePolicy`, `MCPolicyRace`, `MCGtpParse`, `MCForwarding`, `MCLoader`,
`MCRewrite`, `MCMonitor` and `MCDashboard` give the constants the values TLC uses; they add
no behaviour.

Definitions commented "Mutant" are plausible mistakes in the definition that
follows them; `PROJECT.json` lists which property each of them must break. They
are not part of any specification.

## 3. Runs

Runs that must pass:

* **policy** (`MCRatePolicy.cfg`): a second of 2 ticks, 7 ticks of clock, five
  policies (unlimited; capped without and with a quarantine after 1 or 2 windows;
  one that validation refuses; a quarantine without a cap). Long enough for a
  streak of two windows, the quarantine, its release and a new window, with
  rewrites and deletes anywhere. `SlidingCap`: an arbitrary second sees at most
  twice the cap. `QuarantineEarned`, `CleanSlate`: a standing quarantine has
  threshold drops behind it and holds nothing further against the subscriber.
  `ImplementsQuarantine`: refinement. `SelfRelease`: an elapsed quarantine ends.
* **race** (`MCPolicyRace.cfg`): two CPUs, which is what a lost update needs, cap 1,
  threshold 3, 8 ticks. One element: a delete and an add put the new rule where
  old programs still write. (With two elements the safety properties were also
  checked, with no error.) `CountWithinCap`: the stored count never passes the cap.
  `NoEndlessQuarantine`: racing quarantines do not add up. `DropsUndercount`:
  `rate_drop_count` may miss drops and never invents one. `EarnedPerCpu`: a window
  can be scored once by each CPU and no oftener, so a quarantine has at least
  threshold / #CPU different violated windows behind it since the streak was last
  cleared by a program alone at work. `DeadlineEnds`: an elapsed
  deadline does not stay in the rule.
* **parse** (`MCGtpParse.cfg`): frames with and without IP options and optional
  fields, all chains of up to two extension headers of 0, 1 or 2 words and some
  of three to five, frames with `next_ext` set and E clear, and frames that fail each
  test, all of them cut at every length. `StripExact`, `WellFormedMatched` (frames
  with up to four extension headers, announced by E; the fifth is where the code's
  loop ends), `MatchInBounds` (all frames).
* **forwarding** (`MCForwarding.cfg`): one key that stands for a TEID and an
  address, so that all three tables can shadow each other; an interface the
  loader provisioned, one it did not, and one beyond the devmap; two operators;
  two frames. Symmetry over the operators, which no property distinguishes.
  `CountedOnce`: the three counters equal the frames by verdict, drops too, and only
  truncated frames are in none. `RulesWithinStats`, `NatProvisioned`.
* **loader** (`MCLoader.cfg`): three interfaces, one with an index beyond
  `tx_port`; two loads, any number of unloads; every call may fail, ignored removals
  included, every command may be killed, interfaces come and go. `LoadConsistent`.
  `FailureDetaches`: a failed load leaves nothing of itself attached, but for an
  uplink whose pin it could not take back. `UnloadDetaches`: what an unload leaves
  pinned or attached is what it could not remove; no failed removal costs a later one.
* **rewrite** (`MCRewrite.cfg`): addresses whose words carry, are all ones, or add
  up to 2^16 - 1; remaining sums just below, at and above 2^16 - 1; a
  total length near 2^16. `IpSound`, `L4Sound`, `TunnelSound`.
* **monitor** (`MCMonitor.cfg`): two CPUs, two keys in one bucket (where an update
  moves a rule past the iterator), an element more than the table holds, three
  packets. Symmetry over CPUs, keys and elements, which no property distinguishes.
  `TotalsTrue`: totals lie between what was counted before the first was read and
  what is counted at its end. `ListComplete`: a rule nobody touched is listed.
  `RulesWithinTotals`: no rule shows more packets than the totals do, but for one
  in flight on each CPU.
* **dashboard** (`MCDashboard.cfg`): two keys, two overlapping fetches, two
  changes of the tables or failures; the default rules cover both panels.
  `CursorOnRow`, `ActsOnTarget`, `Converges`. The user may quit, so the system
  may stop.

Each of them also checks its module's `TypeOK`.

Runs in which the code does something other than what the repository says of it
(`findings` in `PROJECT.json` quotes the lines):

* **policy_gap**, `SustainedViolation`: `README.md` promises a quarantine "after 3
  consecutive seconds of sustained violation"; seconds without a packet are never
  scored, so violated windows with any amount of silence in between count as
  consecutive.
* **ports_all**, `PortsProvisioned`: a comment in `gtp_xdp.c` says that the control
  plane guarantees a `tx_port` entry for every `out_ifindex`; `add-ueip` and the
  dashboard do not provide it.
* **loader_shared**, `PlanesShareMaps`: a second `load` re-pins fresh maps, then
  finds the interface busy; the running program keeps maps that no command can
  reach any more. No fault is needed.
* **rewrite_tcp**, `TcpSound`: the L4 checksum is left alone when it is zero, for
  TCP as well as for UDP; a TCP segment whose checksum is zero leaves NAT with a
  wrong one.

### Fairness

* `RatePolicy!FairSpec`: the clock goes on, and packets keep coming. The second is
  an assumption on the subscriber, and `SelfRelease` is about one who keeps
  sending: the code has no timer, release is by packet.
* `PolicyRace!FairSpec`: the clock goes on, packets keep coming on some CPU (not on
  each), and a program that started ends: XDP programs
  are not preempted and the verifier bounds them.
* `Dashboard!FairSpec`: the timer is re-armed on every tick, and a fetch ends or
  fails. No fairness for keys or for other operators.

### Bounds

Each bound is a named constant in a guard: `MaxTime`, `MaxDrops` (RatePolicy,
PolicyRace), `MaxRun` (PolicyRace), `MaxFrames` (Forwarding), `MaxGen` (Loader),
`MaxFetch`, `MaxChanges` (Dashboard), `MaxPackets` (Monitor). `Elem` and `MaxEntries`
are capacities of the map. In `PolicyRace` packets stop coming when
those on their way could exhaust `MaxDrops`, unless the rule has a quarantine;
so the bound cannot keep a release from happening.

## 4. Proofs

Every safety property of every passing run, the action property of the dashboard
and the refinement of the abstract quarantine are theorems, proved for every value
of the constants that the module's assumption allows.

| module | theorems | assumption on the constants |
|---|---|---|
| `RatePolicyProofs` | `TypeCorrect`, `SlidingCapHolds`, `QuarantineEarnedHolds`, `CleanSlateHolds`, `Refinement` | `ConstantsAssumption`: naturals, a second of at least one tick |
| `PolicyRaceProofs` | `TypeCorrect`, `CountWithinCapHolds`, `NoEndlessQuarantineHolds`, `DropsUndercountHolds`, `EarnedPerCpuHolds` | `RaceAssumption`: finitely many CPUs, a policy that passed validation, a word that does not overflow before `MaxTime` |
| `GtpParseProofs` | `TypeCorrect`, `StripExactHolds`, `MatchInBoundsHolds`, `WellFormedMatchedHolds` | `FramesAssumption`: in every frame a header starts where the one before it ends |
| `ForwardingProofs` | `TypeCorrect`, `CountedOnceHolds`, `RulesWithinStatsHolds`, `NatProvisionedHolds` | `ForwardingAssumption`: finitely many keys, positive interface indices |
| `LoaderProofs` | `TypeCorrect`, `LoadConsistentHolds`, `FailureDetachesHolds`, `UnloadDetachesHolds` | `LoaderAssumption`: any interfaces, any number of loads |
| `RewriteProofs` | `TypeCorrect`, `IpSoundHolds`, `L4SoundHolds`, `TunnelSoundHolds` | `RewriteAssumption`: addresses are two 16-bit words, a length is one, the rest of a header does not sum to zero |
| `MonitorProofs` | `TypeCorrect`, `TotalsTrueHolds`, `ListCompleteHolds`, `RulesWithinTotalsHolds` | `MonitorAssumption`: finitely many CPUs and elements, an element more than the table may hold |
| `DashboardProofs` | `TypeCorrect`, `CursorOnRowHolds`, `ActsOnTargetHolds` | `DashboardAssumption`: finitely many keys, any default rules |

`XHolds` states `Spec => []X`, or `Spec => X` for the action property
`ActsOnTarget`; `Refinement` states `Spec => ImplementsQuarantine`. Hardly any of
these properties is inductive as it stands. In each module `IInv` is the
conjunction that is, and the theorem `Invariant` (a lemma in most modules) says
that it holds in every state. What it adds, and why:

**RatePolicy.** `WindowInv`: the window started in the past, and its count is within
the cap. `ProbeInv`: what the position of the current window says about the observed
second. If the window began before the second, the packets seen are among the
window's count; if it began inside it, at most one earlier window contributed, so
they are at most the cap plus the count. When a third window begins the second is
over, because windows are at least a second apart: that is where the factor of two
comes from. `OffenceInv`: every offence on record is a packet dropped over the cap,
and the stored policy passed validation, so that a quarantine lasts at least a
second. `CleanSlate` is used by the proof of its own neighbours: because the window a
quarantine began in is over by its deadline, the packet that lifts the quarantine
always starts a new window (`ElapsedWindow`), and the four ways through
`enforce_policy` (`EnforceCases`) are all there are. The refinement maps a held
packet to `Refuse`, an escalating one to `Impose`, the one that lifts to `Lift`, and
any other to `Admit` or `Offend`.

**PolicyRace.** What a CPU carries in its register must be bounded like what is in
memory: a CPU about to admit found room for its packet (`CapInv`), one that loaded
the drop counter has a drop of its own still to come (`DropInv`). `EarnedPerCpu`
rests on an account (`CreditInv`): the violated windows of an element since its count
began, times the number of CPUs, are its credit; each CPU that is scoring, or may
still find the mark of the element (`Creditors`), holds one unit of it; and no streak,
in memory or on its way there, exceeds the credit less what is held. The count begins
again only when a program clears the streak while no other works on the element, and
then nobody else holds a unit. A store that lands in an element given
up in the meantime, or in one that another rule has taken, keeps all of this, because
the bounds are the same for every element.

**GtpParse.** `CursorInv`: at each step the cursor is where the header to be parsed
lies, in the extension loop at header `walked + 1`, and equals the end of the GTP
header plus `opt_sz`, from which the strip length is computed. `AcceptInv` carries
`WellFormedMatched`: no step has refused a well-formed frame so far.
`OffsetsMonotone` says that header positions increase, and therefore that a frame
long enough for the inner header is long enough for every access before it.

**Forwarding.** `RulesWithinStats` compares a sum over all tables and keys with two
counters. The sum is the number of elements of `Shown`, the packets that the rules
show, each with its number; then a count adds one element (`ShownAdd`) and a rewrite
or delete takes some away (`ShownReset`). `OutcomeCases` goes through every end of
`xdp_gtp_router()`: the counter is the one of the verdict. `NatProvisioned` needs that only the
command under way for a NAT rule, or a failure it reported, stands between the rule
and its port, also when a second operator writes the same key in between
(`ReplaceNat`).

**Loader.** `GenInv`: no link is newer than the running load. `OwnInv` and `PortInv`
follow the load step by step: what it has attached, what it has pinned, and which
ports it provisioned before it attached. They say what is left when it fails, is
killed, or loses an interface at any step; a link of the running load that is pinned as
the uplink's is the very link that the cleanup takes back or reports stuck. `MapInv`:
which maps the load's loop has pinned. `UnpinInv`: a pin that an unload's loop has
passed is gone or stuck.

**Rewrite.** The arithmetic comes first. `FoldOnce` and `FoldTwice`: two folds bring
a sum of the size that `csum_update_u32` can reach into 16 bits, and leave it unchanged
modulo 65535. `VerifiesShift` and `UpdateShift`: an update
that replaces an address keeps the one's complement sum modulo 65535, and with it a
checksum that verified. The `~` of each old word and the zero that stands for "no
checksum" are cases of their own. `OuterVerifies` does the same for the header that
`encap_gtpu` writes. `PacketInv` keeps the checksums, `TunnelInv` the headers in
front.

**Monitor.** `Counted` is a fold over the CPUs, so sums are first given a theory of
their own (`SumsExist`, `SumsSplit`, `TotalUp`: adding one to one CPU's counter adds
one to the total). The prover has no induction over finite sets; these lemmas take a
smallest counterexample instead (`LeastNat`, `SmallestSubset`). `HeldInv`: no rule
counter, in memory or in a register, is above the packets counted as dropped and
redirected plus the CPUs that have counted for a rule and not yet for a verdict.
`ReadInv`: the totals read so far, with those still to be read, cover what was counted
before the first was read. `OrderInv`: a rule that nobody touched and that is not listed
yet is ahead of the iterator, both in the table and in the order of the buckets. The
second is what survives when the entry under the cursor is deleted and written again:
it goes to the head of its bucket, which is not past the rule that is waiting.

**Dashboard.** `RowsInv`: the rows of a panel are the keys of the result handled last,
each once and in order (such an enumeration exists, by `SortedExists`), and the cursor
is on one of them. `TargetInv`: a form or prompt holds the key it was opened on.
`ActsOnTarget` follows, since a key is written only from there (`OneWrite`).

Only model-checked: liveness (`SelfRelease`, `DeadlineEnds`, `Converges`), which needs
fairness and `ENABLED` and is beyond the prover. The four properties that the code
violates are refuted by their runs.

## 5. What is left out, and what was noticed

Not modelled: the bpf2go bindings (generated), `xdp_pass.c` (one return), `tools/`
(shell and traffic generation); rendering, packet rates, the snapshot file and the
traffic ping of the dashboard; byte counts, which are added where packet counts
are; fragments and IPv6; two loads at the same time; a dashboard that runs across
a `load` (it opens the rule maps once); the pin file of a link that died with its
interface, which keeps nothing attached.

Two steps are coarser than the code, and no property tells the difference: a verdict's
counter is summed over the CPUs at one instant (`Monitor!ReadVerdict`), while the kernel
copies one CPU after the other, but the counters only grow; and the dashboard's default
rules are written in one step (`Dashboard!addDefaultRules`).

Noticed while reading, and not the subject of a run:

* two CPUs can let more than the cap through in a window, since updates of
  `window_count` get lost (`gtp_xdp.c:175`); in a build that loads it twice, lines 170
  and 175, the stored count could pass the cap as well;
* `next_ext` is obeyed whenever the optional fields are there, also when the E flag is
  clear (`gtp_xdp.c:591`, `601`): a packet with S set and a stale `next_ext` byte has its
  first bytes taken for an extension header;
* `unload` throws away the errors of `os.Remove` (`loader.go:154`), and prints "detached"
  though a link's pin, and so its program, may still be there; the comment at
  `loader.go:136` says that it "removes all BPF filesystem pins";
* two CPUs that find the same window over both score it: a quarantine may come
  after fewer violated windows than `README.md:57-58` says; `EarnedPerCpu` is the
  bound that does hold;
* a rule written again can inherit a count or a streak from a program that was
  still running on the element;
* a rule rewritten while it is listed may be missing from that listing, when
  another rule shares its bucket (`maps.go:68`);
* the parser walks four extension headers, while `README.md:30-32` speaks of the
  full chain; beyond the fourth, the length byte of the fifth is taken for the
  inner version;
* drops by `CURSOR_ADVANCE` are in no counter, and a redirect that the devmap
  refuses counts as a redirect (`README.md:104` calls these the verdict counters);
* `load` reports success although pinning a link failed, in which case the program
  detaches when the command exits (`loader.go:77`);
* `README.md:476` says that quarantine requires `--rate-pps`; validation does not
  ask for it, and such a rule never quarantines. `README.md:51-52` speaks of a
  ceiling per NAT address; `add-nat` has no flag for one;
* the dashboard's edit form has no field for `nat_ip` and does not fill in Dst-Port,
  though `form.go:117` says that it is filled from the current values: an edit
  loses both;
* a ping can be left behind, in spite of the comment at `dashboard.go:342`, by
  quitting or pressing `p` again before the result of the first `p` is handled;
* while the dashboard shows its error screen, keys still act on the form or the
  prompt behind it;
* the outer total length wraps for inner packets within 44 bytes of 65535;
* an incremental update may turn a UDP checksum into zero, which receivers read
  as "none".

## 6. Plan

Done: the core in the order of its importance (enforcement, its races with other
CPUs and with the control plane, the parser, forwarding, loader, rewrites,
reports, dashboard), the abstract quarantine and its refinement, and the proofs of
every safety property that a run checks.

Next:

1. State as invariants, and prove, what the proofs already know and no run checks:
   that the rows of a panel show exactly the result that was handled last
   (`RowsInv`), and that a listing shows no key twice.
2. Say of the violating runs what does hold, in the way `EarnedPerCpu` does for racing
   CPUs: for instance that the maps of a program that runs are the pinned ones unless
   a later load failed.
