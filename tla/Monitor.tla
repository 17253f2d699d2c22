------------------------------- MODULE Monitor -------------------------------
(***************************************************************************)
(* What an operator is shown: list, stats --watch and the dashboard's      *)
(* panels read the rules and the verdict counters while XDP counts on      *)
(* several CPUs and other operators change the rules.                      *)
(*                                                                         *)
(* A rule's pkt_count is shared by the CPUs and incremented by a load and  *)
(* a store; stats_map has a counter of its own per CPU.  A rule table is   *)
(* read key by key, and then the verdict counters one verdict after the    *)
(* other: nothing is read at one instant.  The tables are alike, one of    *)
(* them stands for them all; byte counts go with the packet counts.  The   *)
(* hash map and its iterator are modelled from the outside: a bucket's     *)
(* newest entry comes first, an element given up is free for the next      *)
(* update at once, and an iterator whose key is gone starts anew.          *)
(***************************************************************************)
EXTENDS Integers, FiniteSets, Sequences, SequencesExt

CONSTANTS
    CPU,            \* the CPUs that serve the receive queues
    Key,            \* the keys of the rule table
    Bucket,         \* Bucket[k]: the hash bucket of key k
    Elem,           \* the hash map's elements
    MaxEntries,     \* capacity of the table, and the iterator's limit
    MaxPackets,     \* bound on the packets handled
    NoKey           \* model value

Verdict == {"pass", "drop", "redirect"}

ASSUME MonitorAssumption ==
    /\ IsFiniteSet(CPU) /\ NoKey \notin Key /\ IsFiniteSet(Elem)
    /\ Bucket \in [Key -> Nat]
    /\ MaxEntries \in Nat \ {0} /\ Cardinality(Elem) > MaxEntries
    /\ MaxPackets \in Nat

VARIABLES
    table,      \* the entries of the rule table, in the iterator's order
    pkt,        \* pkt[e]: pkt_count of the rule in element e
    stat,       \* stat[c][v]: CPU c's counter for verdict v in stats_map
    cpu,        \* cpu[c]: the packet CPU c is handling
    packets,    \* packets so far
    reader      \* the read under way

vars == <<table, pkt, stat, cpu, packets, reader>>
plane == <<table, pkt, stat, cpu, packets>>

Present == {table[i].key : i \in DOMAIN table}
Free == Elem \ {table[i].elem : i \in DOMAIN table}

\* Where key k is, 0 if it is not there.
Position(k) == IF k \in Present
               THEN CHOOSE i \in DOMAIN table : table[i].key = k ELSE 0

\* The packets XDP has counted, by verdict v and in all.
Counted(v) == FoldFunction(+, 0, [c \in CPU |-> stat[c][v]])
AllCounted == FoldFunction(+, 0, [v \in Verdict |-> Counted(v)])

\* The counters become f.  What is in an element that no key leads to and no
\* CPU works on does not matter: the next update overwrites it.
Memory(f) ==
    pkt' = [e \in Elem |-> IF \/ \E i \in DOMAIN table' : table'[i].elem = e
                              \/ \E c \in CPU : cpu'[c].elem = e
                           THEN f[e] ELSE 0]

-----------------------------------------------------------------------------
(* Reports *)

NoRules == [k \in {} |-> 0]
Zero == [v \in Verdict |-> 0]

\* Where the read is, the iterator's cursor, the keys it has been given, the
\* rules and counters it has read; and as a history the packets counted before
\* it read the first verdict and the rules nobody touched in its course.
NoRead == [at |-> "idle", cursor |-> NoKey, count |-> 0, rules |-> NoRules,
           counters |-> Zero, since |-> 0, kept |-> {}]

\* What a CPU does for its packet, on which element, and what it loaded.
Doing(at, elem, reg) == [at |-> at, elem |-> elem, reg |-> reg]

Idle == Doing("idle", {}, 0)

Init ==
    /\ table = <<>>
    /\ pkt = [e \in Elem |-> 0]
    /\ stat = [c \in CPU |-> Zero]
    /\ cpu = [c \in CPU |-> Idle]
    /\ packets = 0
    /\ reader = NoRead

-----------------------------------------------------------------------------
(* XDP *)

Count(c, v) == stat' = [stat EXCEPT ![c][v] = @ + 1]

\* A packet arrives: its rule is looked up, or it is counted by its verdict
\* alone (no rule, or a rewrite that fails).
Arrive(c) ==
    /\ cpu[c] = Idle /\ packets < MaxPackets
    /\ packets' = packets + 1
    /\ \/ /\ \E i \in DOMAIN table :
                cpu' = [cpu EXCEPT ![c] = Doing("load", table[i].elem, 0)]
          /\ UNCHANGED stat
       \/ /\ \E v \in {"pass", "drop"} : Count(c, v)
          /\ UNCHANGED cpu
    /\ UNCHANGED <<table, pkt, reader>>

\* bump_rule(): pkt_count is loaded, and stored incremented.
bump_rule(c) ==
    /\ UNCHANGED <<table, stat, packets, reader>>
    /\ \/ /\ cpu[c].at = "load"
          /\ cpu' = [cpu EXCEPT ![c] = Doing("store", @.elem, pkt[@.elem])]
          /\ UNCHANGED pkt
       \/ /\ cpu[c].at = "store"
          /\ cpu' = [cpu EXCEPT ![c] = Doing("count", {}, 0)]
          /\ Memory([pkt EXCEPT ![cpu[c].elem] = cpu[c].reg + 1])

\* Mutant: a packet that is sent on is counted by its rule alone.
bump_statsSent(c) ==
    /\ cpu[c].at = "count"
    /\ Count(c, "drop") \/ UNCHANGED stat
    /\ cpu' = [cpu EXCEPT ![c] = Idle]
    /\ UNCHANGED <<table, pkt, packets, reader>>

\* bump_stats(): nobody else writes this CPU's counter.
bump_stats(c) ==
    /\ cpu[c].at = "count"
    /\ \E v \in {"drop", "redirect"} : Count(c, v)
    /\ cpu' = [cpu EXCEPT ![c] = Idle]
    /\ UNCHANGED <<table, pkt, packets, reader>>

-----------------------------------------------------------------------------
(* Other operators *)

\* History: key k changed while the table was being read.
Touched(k) ==
    reader' = IF reader.at \in {"next", "value"}
              THEN [reader EXCEPT !.kept = @ \ {k}] ELSE reader

\* The table without key k.
Without(k) == IF k \in Present THEN RemoveAt(table, Position(k)) ELSE table

\* Where a new entry for k goes: its bucket's head.
IsHead(k, i) ==
    \A j \in DOMAIN Without(k) :
        IF j < i THEN Bucket[Without(k)[j].key] < Bucket[k]
                 ELSE Bucket[Without(k)[j].key] >= Bucket[k]

\* An add command: the new value goes to a free element, its counters zero.
Put(k) ==
    /\ k \in Present \/ Len(table) < MaxEntries
    /\ \E e \in Free, i \in 1 .. Len(Without(k)) + 1 :
          /\ IsHead(k, i)
          /\ table' = InsertAt(Without(k), i, [key |-> k, elem |-> e])
          /\ UNCHANGED cpu
          /\ Memory([pkt EXCEPT ![e] = 0])
    /\ Touched(k)
    /\ UNCHANGED <<stat, packets>>

Delete(k) ==
    /\ k \in Present
    /\ table' = Without(k)
    /\ Touched(k)
    /\ UNCHANGED <<stat, cpu, packets>>
    /\ Memory(pkt)

-----------------------------------------------------------------------------
(* The read *)

\* list, or a refresh of the dashboard: the rules come first.
Begin ==
    /\ reader.at = "idle"
    /\ reader' = [NoRead EXCEPT !.at = "next", !.kept = Present]
    /\ UNCHANGED plane

\* stats, or a refresh of stats --watch: the counters alone.
BeginStats ==
    /\ reader.at = "idle"
    /\ reader' = [NoRead EXCEPT !.at = "pass"]
    /\ UNCHANGED plane

\* The key after the cursor, the first one when the cursor's key is gone or
\* there is no cursor yet, NoKey at the end.
NextKey ==
    LET i == Position(reader.cursor) + 1
    IN  IF i \in DOMAIN table THEN table[i].key ELSE NoKey

\* Mutant: the iterator goes on until the end, wherever that is.
Unlimited(n) == TRUE

\* How many keys the iterator takes.
WithinLimit(n) == n <= MaxEntries

\* iter.Next(): the next key; without one List is done.
Advance ==
    /\ reader.at = "next" /\ WithinLimit(reader.count)
    /\ reader' = IF NextKey = NoKey
                 THEN [reader EXCEPT !.at = "pass", !.cursor = NoKey, !.count = 0]
                 ELSE [reader EXCEPT !.at = "value", !.cursor = NextKey,
                                     !.count = @ + 1]
    /\ UNCHANGED plane

\* Mutant: a key that was deleted meanwhile ends the list.
MissedEnds == "pass"

\* Where the iterator goes from a key that was deleted meanwhile.
Missed == "next"

\* The listing with n for key k.
Listed(rules, k, n) ==
    [l \in DOMAIN rules \cup {k} |-> IF l = k THEN n ELSE rules[l]]

\* iter.Next() goes on: the value under that key, which List puts into its
\* result.
Lookup ==
    /\ reader.at = "value"
    /\ LET i == Position(reader.cursor)
       IN  reader' = IF i = 0 THEN [reader EXCEPT !.at = Missed]
                     ELSE [reader EXCEPT
                             !.at = "next",
                             !.rules = Listed(@, reader.cursor, pkt[table[i].elem])]
    /\ UNCHANGED plane

\* The table changed too often under the iterator: List fails.
Abort ==
    /\ reader.at = "next" /\ ~WithinLimit(reader.count)
    /\ reader' = NoRead
    /\ UNCHANGED plane

\* A map cannot be opened or read: nothing is shown.
Fail ==
    /\ reader.at # "idle"
    /\ reader' = NoRead
    /\ UNCHANGED plane

\* Mutant: the last CPU's counter replaces the sum.
SumLast(f) == f[CHOOSE c \in CPU : TRUE]

\* The sum over the CPUs.
Sum(f) == FoldFunction(+, 0, f)

\* ReadFromMap: one lookup per verdict, in this order.  The kernel copies the CPUs'
\* values one after the other; the counters only grow, so their sum lies between two
\* that the step could read, and the step reads one of them at an instant.
ReadVerdict(v, next, since) ==
    /\ reader.at = v
    /\ reader' = [reader EXCEPT
                    !.at = next, !.kept = {}, !.since = since,
                    !.counters[v] = Sum([c \in CPU |-> stat[c][v]])]
    /\ UNCHANGED plane

ReadFromMap ==
    \/ ReadVerdict("pass", "drop", AllCounted)
    \/ ReadVerdict("drop", "redirect", reader.since)
    \/ ReadVerdict("redirect", "done", reader.since)

\* The report is printed: by list when it has the rules, by stats and the
\* dashboard when they have the counters.
Show ==
    /\ reader.at = "done"
    /\ reader' = NoRead
    /\ UNCHANGED plane

ShowList ==
    /\ reader.at = "pass"
    /\ reader' = NoRead
    /\ UNCHANGED plane

Next ==
    \/ \E c \in CPU : Arrive(c) \/ bump_rule(c) \/ bump_stats(c)
    \/ \E k \in Key : Put(k) \/ Delete(k)
    \/ Begin \/ BeginStats
    \/ Advance \/ Lookup \/ Abort \/ Fail \/ ReadFromMap
    \/ Show \/ ShowList

Spec == Init /\ [][Next]_vars

-----------------------------------------------------------------------------
(* Properties *)

TypeOK ==
    /\ \A i \in DOMAIN table : table[i] \in [key : Key, elem : Elem]
    /\ pkt \in [Elem -> 0 .. MaxPackets]
    /\ stat \in [CPU -> [Verdict -> 0 .. MaxPackets]]
    /\ \A c \in CPU : cpu[c].at \in {"idle", "load", "store", "count"}
    /\ packets \in 0 .. MaxPackets
    /\ reader.at \in {"idle", "next", "value", "done"} \cup Verdict
    /\ reader.cursor \in Key \cup {NoKey}
    /\ reader.count \in 0 .. MaxEntries + 1
    /\ reader.kept \subseteq Key

\* The verdict totals are true though XDP counts while they are read: together
\* at least what had been counted before the first was read, and none more than
\* what has been counted now.  So the total of a watch never goes backwards.
TotalsTrue ==
    reader.at = "done" =>
        /\ reader.since <= FoldFunction(+, 0, reader.counters)
        /\ \A v \in Verdict : reader.counters[v] <= Counted(v)

\* A rule that was there and was not touched while the table was read is in
\* the report, however others come, go and move around the iterator.
ListComplete ==
    reader.at = "pass" => reader.kept \subseteq DOMAIN reader.rules

\* The report is consistent: rules are read before totals and a packet counts
\* for its rule first, so no rule claims more packets than were dropped and
\* redirected but for one in flight on each CPU; lost updates, rewrites and
\* elements that change hands do not break that.
RulesWithinTotals ==
    reader.at = "done" =>
        \A k \in DOMAIN reader.rules :
            reader.rules[k] <= reader.counters["drop"]
                                 + reader.counters["redirect"] + Cardinality(CPU)

=============================================================================
