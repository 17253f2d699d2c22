----------------------------- MODULE PolicyRace -----------------------------
(***************************************************************************)
(* enforce_policy() on several CPUs at once.  XDP runs on every receive    *)
(* queue's CPU, the rules live in one shared (not per-CPU) hash map and    *)
(* the function reads and writes the rule with plain loads and stores, so  *)
(* its steps interleave: the lookup, the clock and every load and store of *)
(* the rule's memory are steps of their own.                               *)
(*                                                                         *)
(* Plain accesses are the compiler's to arrange.  Two neighbouring stores  *)
(* that the compiler may swap (and does: in the objects the repository     *)
(* ships, gtp_xdp.c:144-145 and 166-167 come out swapped) happen in either *)
(* order.  A value that the source loads twice is loaded twice, which      *)
(* allows what one load does, with one exception: the comparison of        *)
(* window_count at line 170 and its increment at 175 share ONE load.       *)
(* Nothing is stored between the two, the program is always built with     *)
(* -O2, and every copy of the function in the shipped objects has just     *)
(* that load.  CountWithinCap is about this compiled program: two loads    *)
(* there would let two CPUs count past the cap.                            *)
(*                                                                         *)
(* Meanwhile the control plane writes the rule again, always with the same *)
(* policy, or deletes it.  A map update puts the new value into another    *)
(* element and links it; a program goes on with the element it looked up.  *)
(* The map is preallocated, so the element given up is free at once: it    *)
(* can hold the rule again while an earlier program still writes to it.    *)
(*                                                                         *)
(* The clock is common to the CPUs; a program that XDP started is not      *)
(* preempted, so it ends less than MaxRun ticks after it read the clock.   *)
(* The subtraction that looks for the end of the window is unsigned:       *)
(* WordSize stands for 2^64.                                               *)
(***************************************************************************)
EXTENDS Integers, FiniteSets

CONSTANTS
    CPU,            \* the CPUs that serve the receive queues
    Second,         \* clock ticks in one second
    Boot,           \* the clock when the rule was written
    MaxTime,        \* bound on the clock
    MaxRun,         \* ticks one run of the program may span
    MaxDrops,       \* bound on the packets one element drops over the cap
    Elem,           \* elements of the hash map, 0 is none of them
    WordSize,       \* 2^64
    rate_pps, quarantine_threshold, quarantine_seconds  \* the rule's policy

ASSUME RaceAssumption ==
    /\ Second \in Nat \ {0} /\ MaxTime \in Nat /\ Boot \in 0 .. MaxTime
    /\ MaxRun \in Nat \ {0} /\ MaxDrops \in Nat
    /\ IsFiniteSet(CPU) /\ Elem \subseteq Nat \ {0}
    /\ WordSize \in Nat /\ WordSize > MaxTime + Second
    /\ rate_pps \in Nat \ {0} /\ quarantine_threshold \in Nat
    /\ quarantine_seconds \in Nat
    /\ quarantine_threshold # 0 => quarantine_seconds # 0

VARIABLES
    now,        \* the clock
    elems,      \* elems[e]: the rule in element e
    linked,     \* the element a lookup of the key finds, 0 if there is none
    pc,         \* pc[c]: the access CPU c makes next, "idle" between packets
    elem,       \* elem[c]: the element CPU c looked up
    ts,         \* ts[c]: now, as CPU c read it
    reg,        \* reg[c]: the value CPU c loaded last
    drops,      \* history: packets dropped over the cap
    windows     \* history: windows[e]: windows of element e that were violated
                \* since its streak was last cleared, see Cleared

vars == <<now, elems, linked, pc, elem, ts, reg, drops, windows>>
cpus == <<pc, elem, ts, reg>>

Steps == {"idle", "clock", "deadline", "held", "release", "forgive", "lift",
          "window", "violated", "streak", "escalate", "reached", "impose",
          "absolve", "calm", "start", "reset", "clear", "empty", "count",
          "admit", "mark", "drop", "dropped"}

\* The rule an add command writes: nothing counted yet.
Fresh == [window_start_ns |-> 0, window_count |-> 0, window_violated |-> 0,
          violation_streak |-> 0, quarantine_until_ns |-> 0,
          rate_drop_count |-> 0]

Init ==
    /\ now = Boot
    /\ elems = [e \in Elem |-> Fresh]
    /\ linked = 0
    /\ pc = [c \in CPU |-> "idle"]
    /\ elem = [c \in CPU |-> 0]
    /\ ts = [c \in CPU |-> 0]
    /\ reg = [c \in CPU |-> 0]
    /\ drops = 0
    /\ windows = [e \in Elem |-> 0]

-----------------------------------------------------------------------------
(* The control plane *)

\* The elements become es, and their history ws.  What is in an element that no
\* key leads to and no program works on does not matter: the next update
\* overwrites it.
Memory(es, ws) ==
    LET inUse(e) == e = linked' \/ \E c \in CPU : elem'[c] = e
    IN  /\ elems' = [e \in Elem |-> IF inUse(e) THEN es[e] ELSE Fresh]
        /\ windows' = [e \in Elem |-> IF inUse(e) THEN ws[e] ELSE 0]

\* add-teid or add-ueip: the hash map's update writes the rule into another
\* element and links it in place of the old one.
Put(e) ==
    /\ e # linked
    /\ linked' = e
    /\ UNCHANGED <<now, cpus, drops>>
    /\ Memory([elems EXCEPT ![e] = Fresh], windows)

\* del-teid or del-ueip.
Delete ==
    /\ linked # 0
    /\ linked' = 0
    /\ UNCHANGED <<now, cpus, drops>>
    /\ Memory(elems, windows)

-----------------------------------------------------------------------------
(* One step of CPU c: an access, and where the program goes next *)

Goto(c, from, to) == pc[c] = from /\ pc' = [pc EXCEPT ![c] = to]

\* The rule CPU c works on.
Rule(c) == elems[elem[c]]

\* A load whose value is kept.
Load(c, from, field, to) ==
    /\ Goto(c, from, to)
    /\ reg' = [reg EXCEPT ![c] = Rule(c)[field]]
    /\ UNCHANGED <<now, elems, linked, elem, ts, drops, windows>>

\* A load whose value only decides where the program goes.
Compare(c, from, to) ==
    /\ Goto(c, from, to)
    /\ reg' = [reg EXCEPT ![c] = 0]
    /\ UNCHANGED <<now, elems, linked, elem, ts, drops, windows>>

Write(c, field, value, ws) ==
    Memory([elems EXCEPT ![elem[c]][field] = value], ws)

Store(c, from, field, value, to) ==
    /\ Goto(c, from, to)
    /\ UNCHANGED <<now, linked, elem, ts, reg, drops>>
    /\ Write(c, field, value, windows)

\* The history when CPU c clears the streak of its element: if no other program
\* works on the element, which could hold an earlier streak or be about to score
\* an earlier window, the count begins again, with the window that is marked.
Cleared(c) ==
    IF \E d \in CPU \ {c} : elem[d] = elem[c] THEN windows
    ELSE [windows EXCEPT ![elem[c]] = Rule(c).window_violated]

ClearStreak(c, from, to) ==
    /\ Goto(c, from, to)
    /\ UNCHANGED <<now, linked, elem, ts, reg, drops>>
    /\ Write(c, "violation_streak", 0, Cleared(c))

\* CPU c has returned its verdict; its registers are dead.
Finish(c, from) ==
    /\ Goto(c, from, "idle")
    /\ elem' = [elem EXCEPT ![c] = 0]
    /\ ts' = [ts EXCEPT ![c] = 0]
    /\ reg' = [reg EXCEPT ![c] = 0]

\* The bound on drops: packets of a rule that is not under quarantine stop
\* coming when those on their way could exhaust it.
WithinDrops ==
    \/ elems[linked].quarantine_until_ns # 0
    \/ drops + Cardinality({c \in CPU : elem[c] # 0}) < MaxDrops

\* A packet arrives and its rule is looked up.
Arrive(c) ==
    /\ linked # 0 /\ WithinDrops
    /\ Goto(c, "idle", "clock")
    /\ elem' = [elem EXCEPT ![c] = linked]
    /\ UNCHANGED <<now, elems, linked, ts, reg, drops, windows>>

\* The clock is read, once for the whole run.
ReadClock(c) ==
    /\ Goto(c, "clock", "deadline")
    /\ ts' = [ts EXCEPT ![c] = now]
    /\ UNCHANGED <<now, elems, linked, elem, reg, drops, windows>>

\* Is there a deadline?
CheckQuarantine(c) ==
    Compare(c, "deadline",
            IF Rule(c).quarantine_until_ns # 0 THEN "held" ELSE "window")

\* Mutant: the deadline is never found elapsed.
HeldForever(c) ==
    /\ Finish(c, "held")
    /\ UNCHANGED <<now, linked, drops>>
    /\ Memory(elems, windows)

\* Is the deadline, loaded again, still to come?  Then the packet is dropped and
\* nothing is written.
CheckDeadline(c) ==
    \/ /\ Finish(c, "held")
       /\ ts[c] < Rule(c).quarantine_until_ns
       /\ UNCHANGED <<now, linked, drops>>
       /\ Memory(elems, windows)
    \/ /\ Compare(c, "held", "release")
       /\ ts[c] >= Rule(c).quarantine_until_ns

\* The cooldown elapsed: clear the deadline and the streak, in either order.
SelfRelease(c) ==
    \/ Store(c, "release", "quarantine_until_ns", 0, "forgive")
    \/ ClearStreak(c, "forgive", "window")
    \/ ClearStreak(c, "release", "lift")
    \/ Store(c, "lift", "quarantine_until_ns", 0, "window")

\* The unsigned age of the window.
Age(t, start) == (t - start) % WordSize

\* The window's start is loaded and compared; an old window is scored.
CheckWindow(c) ==
    Compare(c, "window", IF Age(ts[c], Rule(c).window_start_ns) >= Second
                         THEN "violated" ELSE "count")

\* Was the window that ended violated?  Then the streak is counted up, and loaded
\* again to be compared.
Score(c) ==
    \/ Compare(c, "violated", IF Rule(c).window_violated # 0
                              THEN "streak" ELSE "calm")
    \/ ClearStreak(c, "calm", "start")
    \/ Load(c, "streak", "violation_streak", "escalate")
    \/ Store(c, "escalate", "violation_streak", reg[c] + 1, "reached")
    \/ Compare(c, "reached", IF /\ quarantine_threshold # 0
                                /\ Rule(c).violation_streak >= quarantine_threshold
                             THEN "impose" ELSE "start")

\* Mutant: the quarantine runs from the end of the window that was scored.
ImposeFromWindow(c) ==
    \/ Store(c, "impose", "quarantine_until_ns",
             Rule(c).window_start_ns + (1 + quarantine_seconds) * Second,
             "absolve")
    \/ ClearStreak(c, "absolve", "start")

\* The streak reached the threshold.
Impose(c) ==
    \/ Store(c, "impose", "quarantine_until_ns",
             ts[c] + quarantine_seconds * Second, "absolve")
    \/ ClearStreak(c, "absolve", "start")

\* Mutant: the violation is not cleared with the window.
RestartViolated(c) ==
    \/ Store(c, "start", "window_start_ns", ts[c], "reset")
    \/ Store(c, "reset", "window_count", 0, "count")

\* A new window: its start, then the count and the mark in either order.
Restart(c) ==
    \/ Store(c, "start", "window_start_ns", ts[c], "reset")
    \/ Store(c, "reset", "window_count", 0, "clear")
    \/ Store(c, "clear", "window_violated", 0, "count")
    \/ Store(c, "reset", "window_violated", 0, "empty")
    \/ Store(c, "empty", "window_count", 0, "count")

\* Mutant: the cap is compared with the count before this packet.
CheckCapLate(c) ==
    Load(c, "count", "window_count",
         IF Rule(c).window_count > rate_pps THEN "mark" ELSE "admit")

\* The allowance is loaded and compared.
CheckCap(c) ==
    Load(c, "count", "window_count",
         IF Rule(c).window_count >= rate_pps THEN "mark" ELSE "admit")

\* Within the cap: the count that was compared is stored, incremented, and the
\* packet goes on.  The increment has no load of its own, see above.
Admit(c) ==
    /\ Finish(c, "admit")
    /\ UNCHANGED <<now, linked, drops>>
    /\ Write(c, "window_count", reg[c] + 1, windows)

\* The history when CPU c marks the window: one more, unless it is marked already.
Marked(c) == [windows EXCEPT ![elem[c]] = @ + 1 - Rule(c).window_violated]

\* Mutant: the flag is counted up instead of set.
MarkUp(c) ==
    /\ Goto(c, "mark", "drop")
    /\ UNCHANGED <<now, linked, elem, ts, reg, drops>>
    /\ Write(c, "window_violated", Rule(c).window_violated + 1, Marked(c))

\* Mutant: the drop is counted here, and again when the packet is dropped.
MarkCounts(c) ==
    /\ Goto(c, "mark", "drop")
    /\ UNCHANGED <<now, linked, elem, ts, reg, drops>>
    /\ Memory([elems EXCEPT ![elem[c]].window_violated = 1,
                            ![elem[c]].rate_drop_count = @ + 1], Marked(c))

\* Over the cap: the window is marked.
Mark(c) ==
    /\ Goto(c, "mark", "drop")
    /\ UNCHANGED <<now, linked, elem, ts, reg, drops>>
    /\ Write(c, "window_violated", 1, Marked(c))

\* The drop is counted and the packet dropped.
Drop(c) ==
    \/ Load(c, "drop", "rate_drop_count", "dropped")
    \/ /\ Finish(c, "dropped")
       /\ drops' = drops + 1
       /\ UNCHANGED <<now, linked>>
       /\ Write(c, "rate_drop_count", reg[c] + 1, windows)

Run(c) ==
    \/ ReadClock(c) \/ CheckQuarantine(c) \/ CheckDeadline(c) \/ SelfRelease(c)
    \/ CheckWindow(c) \/ Score(c) \/ Impose(c) \/ Restart(c)
    \/ CheckCap(c) \/ Admit(c) \/ Mark(c) \/ Drop(c)

Tick ==
    /\ now < MaxTime
    /\ \A c \in CPU : pc[c] \in {"idle", "clock"} \/ now + 1 - ts[c] < MaxRun
    /\ now' = now + 1
    /\ UNCHANGED <<elems, linked, cpus, drops, windows>>

Next ==
    \/ Tick \/ Delete
    \/ \E e \in Elem : Put(e)
    \/ \E c \in CPU : Arrive(c) \/ Run(c)

Spec == Init /\ [][Next]_vars

\* The clock goes on, a program that started ends, packets keep coming.
FairSpec ==
    /\ Spec
    /\ WF_vars(Tick)
    /\ WF_vars(\E c \in CPU : Arrive(c))
    /\ \A c \in CPU : WF_vars(Run(c))

-----------------------------------------------------------------------------
(* Properties *)

TypeOK ==
    /\ now \in Boot .. MaxTime
    /\ elems \in [Elem -> [window_start_ns : Nat, window_count : Nat,
                           window_violated : {0, 1}, violation_streak : Nat,
                           quarantine_until_ns : Nat, rate_drop_count : Nat]]
    /\ linked \in Elem \cup {0}
    /\ pc \in [CPU -> Steps]
    /\ elem \in [CPU -> Elem \cup {0}]
    /\ ts \in [CPU -> Nat]
    /\ reg \in [CPU -> Nat]
    /\ drops \in Nat
    /\ windows \in [Elem -> Nat]

\* Whatever the CPUs do to each other, the window_count that the compiled program
\* stores, with the one load it makes of it, stays within the cap: an update lost
\* between the load and the store only makes it smaller.
CountWithinCap == \A e \in Elem : elems[e].window_count <= rate_pps

\* No interleaving makes a quarantine outlast its configured time, counted
\* from now: racing windows do not add up.
NoEndlessQuarantine ==
    \A e \in Elem :
        elems[e].quarantine_until_ns <= now + quarantine_seconds * Second

\* rate_drop_count, the counter an operator watches, is "best effort": it may
\* miss drops and never invents one, though a program that still works on an
\* element's earlier value may store what it loaded there.
DropsUndercount == \A e \in Elem : elems[e].rate_drop_count <= drops

\* How far the races can be unjust: each CPU scores a violated window at most
\* once, so a program that is about to impose a quarantine has at least
\* threshold / #CPU different violated windows of its element behind it since the
\* streak was last cleared by a program alone at work there (a calm window, an
\* earlier quarantine or its release).
EarnedPerCpu ==
    \A c \in CPU : pc[c] = "impose" =>
        windows[elem[c]] * Cardinality(CPU) >= quarantine_threshold

\* The quarantine that a lookup finds has elapsed.
Elapsed == linked # 0 /\ elems[linked].quarantine_until_ns \in 1 .. now

\* An elapsed deadline does not stay in the rule: some packet's release gets
\* through, though it races with the other CPU's release, with a stale store
\* into the element and with the operator.
DeadlineEnds == []<>~Elapsed

=============================================================================
