---------------------------- MODULE LoaderProofs ----------------------------
(* Theorems about Loader, for any interfaces and any number of loads, with or *)
(* without faults.                                                           *)
EXTENDS Loader, TLAPS

MapSteps == {"remove", "pin"}
LoadSteps == {"remove", "pin", "attach", "pinlink", "port", "dlport", "dlattach",
              "pindl", "done"}

\* A link of the last load.
Mine(l) == l # NoLink /\ l.gen = gen

\* A link of the last load, on an interface it asked for and provisioned.
Placed(l) == Mine(l) => l.iface \in ports \cap {args.up, args.dl}

\* No link is of a load still to come; a running load has a number and its
\* interfaces.
GenInv ==
    /\ \A l \in Links : l.gen <= gen
    /\ pc \in LoadSteps => gen >= 1 /\ args.up \in Iface
    /\ pc \in {"dlport", "dlattach", "pindl"} => args.dl \in Iface

\* What a running load has attached so far: nothing, then the uplink, then both.
\* The pin of the downlink is the last thing it writes.
OwnInv ==
    /\ pc \in MapSteps \cup {"attach", "unpin"} => held = {}
    /\ pc \in MapSteps \cup {"attach", "pinlink"} => ~Mine(prog)
    /\ pc \in LoadSteps \ {"done"} => ~Mine(prog_dl)
    /\ pc \in LoadSteps \ {"done"} =>
          \A l \in held \cup {prog} :
              Mine(l) => \/ l.iface = args.up
                         \/ l.iface = args.dl /\ pc = "pindl"

\* Which ports a running load has provisioned.
PortInv ==
    /\ pc \in {"dlport", "dlattach", "pindl"} => args.up \in ports
    /\ pc \in {"dlattach", "pindl"} => args.dl \in ports
    /\ pc = "done" => \A l \in Links : Placed(l)

\* Which maps a running load has pinned.
MapInv ==
    /\ pc \in MapSteps =>
          idx <= 5 /\ \A j \in 1 .. 5 : j < idx => pins[MapPin[j]] = gen
    /\ pc \in LoadSteps \ MapSteps => \A m \in MapPins : pins[m] = gen

\* What a running unload has removed, or tried to.
UnpinInv ==
    /\ pc = "none" => idx = 1
    /\ pc = "unpin" =>
          /\ \A j \in 1 .. 5 : j < idx => pins[MapPin[j]] = 0 \/ MapPin[j] \in stuck
          /\ idx = 7 => prog = NoLink \/ "prog" \in stuck

IInv == /\ TypeOK /\ GenInv /\ OwnInv /\ PortInv /\ MapInv /\ UnpinInv
        /\ LoadConsistent /\ FailureDetaches /\ UnloadDetaches

-----------------------------------------------------------------------------
(* Lemmas *)

LEMMA PinFacts ==
    /\ Len(MapPin) = 5
    /\ MapPin[1] = "teid_map" /\ MapPin[2] = "ueip_map" /\ MapPin[3] = "nat_map"
    /\ MapPin[4] = "stats_map" /\ MapPin[5] = "tx_port"
    /\ MapPins = {"teid_map", "ueip_map", "nat_map", "stats_map", "tx_port"}
  <1>1. /\ Len(MapPin) = 5
        /\ MapPin[1] = "teid_map" /\ MapPin[2] = "ueip_map" /\ MapPin[3] = "nat_map"
        /\ MapPin[4] = "stats_map" /\ MapPin[5] = "tx_port"
    BY DEF MapPin
  <1>2. 1 .. 5 = {1, 2, 3, 4, 5}
    OBVIOUS
  <1> QED BY <1>1, <1>2 DEF MapPins

LEMMA InitInv == Init => IInv
  <1> SUFFICES ASSUME Init PROVE IInv
    OBVIOUS
  <1> USE DEF Init
  <1>1. TypeOK
    BY LoaderAssumption, PinFacts DEF TypeOK
  <1>2. Links = {}
    BY DEF Links
  <1>3. GenInv /\ OwnInv /\ PortInv /\ MapInv /\ UnpinInv
    BY <1>2 DEF GenInv, OwnInv, PortInv, MapInv, UnpinInv, LoadSteps, MapSteps
  <1> QED BY <1>1, <1>3 DEF IInv, LoadConsistent, FailureDetaches, UnloadDetaches

\* A command ends, and takes at most links away.
LEMMA ExitInv ==
    ASSUME IInv, NEW how \in {"failed", "killed", "loaded", "unloaded"},
           Exit(how), prog' \in {prog, NoLink}, prog_dl' \in {prog_dl, NoLink},
           UNCHANGED <<exists, gen, ports, args, pins>>,
           stuck' \subseteq MapPins \cup {"prog", "prog_dl"},
           how = "failed" => /\ Mine(prog') => "prog" \in stuck'
                             /\ ~Mine(prog_dl'),
           how = "loaded" => pc = "done",
           how = "unloaded" =>
               /\ prog' = NoLink \/ "prog" \in stuck'
               /\ prog_dl' = NoLink \/ "prog_dl" \in stuck'
               /\ \A m \in MapPins : pins[m] = 0 \/ m \in stuck'
    PROVE  IInv'
  <1> USE DEF IInv, Exit
  <1>1. TypeOK'
    BY LoaderAssumption, PinFacts DEF TypeOK
  <1>2. Links' \subseteq Links
    BY DEF Links
  <1>3. GenInv'
    BY <1>2 DEF GenInv, LoadSteps
  <1>4. OwnInv' /\ PortInv' /\ MapInv' /\ UnpinInv'
    BY DEF OwnInv, PortInv, MapInv, UnpinInv, LoadSteps, MapSteps
  <1>5. LoadConsistent'
    <2> SUFFICES ASSUME how = "loaded"
                 PROVE  /\ \A m \in MapPins : pins[m] = gen
                        /\ \A l \in Links' : l.gen = gen =>
                              l.iface \in ports /\ l.iface \in {args.up, args.dl}
      BY DEF LoadConsistent
    <2>1. pc = "done"
      OBVIOUS
    <2>2. \A l \in Links : Placed(l) /\ l # NoLink
      BY <2>1 DEF PortInv, Links
    <2>3. \A m \in MapPins : pins[m] = gen
      BY <2>1 DEF MapInv, LoadSteps, MapSteps
    <2> QED BY <1>2, <2>2, <2>3 DEF Placed, Mine
  <1>6. Links' = {prog', prog_dl'} \ {NoLink}
    BY DEF Links
  <1>7. FailureDetaches'
    <2> SUFFICES ASSUME how = "failed", NEW l \in Links', l.gen = gen
                 PROVE  l = prog' /\ "prog" \in stuck'
      BY DEF FailureDetaches
    <2> QED BY <1>6 DEF Mine
  <1>8. UnloadDetaches'
    BY <1>6 DEF UnloadDetaches
  <1> QED BY <1>1, <1>3, <1>4, <1>5, <1>7, <1>8

-----------------------------------------------------------------------------
(* load *)

LEMMA LoadInv ==
    ASSUME IInv, NEW up \in Iface, NEW dl \in Iface \cup {NoIface}, NEW ok,
           Load(up, dl, ok)
    PROVE  IInv'
  <1> USE DEF IInv
  <1>1. /\ pc = "none" /\ gen < MaxGen /\ args' = [up |-> up, dl |-> dl]
        /\ UNCHANGED <<exists, pins, prog, prog_dl, idx, held>> /\ Links' = Links
        /\ stuck' = {} /\ idx = 1
    BY DEF Load, Links, UnpinInv
  <1>2. CASE up \in exists /\ ok
    <2>1. gen' = gen + 1 /\ ports' = {} /\ pc' = "remove" /\ result' = "running"
      BY <1>2 DEF Load
    <2>2. gen \in Nat /\ gen' \in 1 .. MaxGen
      BY <1>1, <2>1, LoaderAssumption DEF TypeOK
    <2>3. TypeOK'
      BY <1>1, <2>1, <2>2 DEF TypeOK
    <2>4. \A l \in Links : l.gen \in Nat /\ l.gen <= gen
      BY <2>2, LoaderAssumption DEF GenInv, Links, TypeOK, Link
    <2>5. \A l \in Links : l.gen <= gen' /\ l.gen # gen'
      BY <2>1, <2>2, <2>4
    <2>6. GenInv'
      BY <1>1, <2>1, <2>2, <2>5 DEF GenInv, LoadSteps
    <2>7. held = {} /\ ~Mine(prog)' /\ ~Mine(prog_dl)'
      BY <1>1, <2>5 DEF TypeOK, Mine, Links
    <2>8. OwnInv'
      BY <1>1, <2>1, <2>7 DEF OwnInv
    <2>9. PortInv' /\ UnpinInv'
      BY <2>1 DEF PortInv, UnpinInv
    <2>10. MapInv'
      BY <1>1, <2>1 DEF MapInv, MapSteps
    <2> QED
      BY <2>1, <2>3, <2>6, <2>8, <2>9, <2>10 DEF LoadConsistent, FailureDetaches, UnloadDetaches
  <1>3. CASE ~(up \in exists /\ ok)
    <2>1. UNCHANGED <<gen, ports, pc>> /\ result' = "refused"
      BY <1>3 DEF Load
    <2>2. TypeOK'
      BY <1>1, <2>1 DEF TypeOK
    <2>3. GenInv' /\ OwnInv' /\ PortInv' /\ MapInv' /\ UnpinInv'
      BY <1>1, <2>1 DEF GenInv, OwnInv, PortInv, MapInv, UnpinInv, LoadSteps, MapSteps
    <2> QED BY <2>1, <2>2, <2>3 DEF LoadConsistent, FailureDetaches, UnloadDetaches
  <1> QED BY <1>2, <1>3

\* A step of a load on its maps' pins that does not end it.
LEMMA MapStep ==
    ASSUME IInv, pc \in MapSteps, pc' \in MapSteps \cup {"attach"},
           pins' \in [MapPins -> 0 .. MaxGen], MapInv',
           idx' \in 1 .. 7, stuck' \subseteq MapPins \cup {"prog", "prog_dl"},
           UNCHANGED <<exists, prog, prog_dl, ports, gen, args, held, result>>
    PROVE  IInv'
  <1> USE DEF IInv
  <1>1. pc \in LoadSteps \ {"done"} /\ pc' \in LoadSteps \ {"done"}
    BY DEF MapSteps, LoadSteps
  <1>2. held = {} /\ ~Mine(prog) /\ ~Mine(prog_dl) /\ result = "running"
    BY <1>1 DEF OwnInv, TypeOK, LoadSteps
  <1>3. TypeOK'
    BY <1>1, <1>2, PinFacts DEF TypeOK, LoadSteps
  <1>4. Links' = Links
    BY DEF Links
  <1>5. GenInv'
    BY <1>1, <1>4 DEF GenInv, MapSteps
  <1>6. OwnInv'
    BY <1>2 DEF OwnInv, Mine, MapSteps
  <1>7. PortInv' /\ UnpinInv'
    BY DEF PortInv, UnpinInv, MapSteps
  <1> QED BY <1>2, <1>3, <1>5, <1>6, <1>7 DEF LoadConsistent, FailureDetaches, UnloadDetaches

\* What a loop over the map pins does to the one it is at.
LEMMA PinAt ==
    ASSUME NEW P \in [MapPins -> 0 .. MaxGen], NEW i \in 1 .. 5, NEW v \in 0 .. MaxGen
    PROVE  /\ MapPin[i] \in MapPins
           /\ [P EXCEPT ![MapPin[i]] = v] \in [MapPins -> 0 .. MaxGen]
           /\ [P EXCEPT ![MapPin[i]] = v][MapPin[i]] = v
           /\ \A j \in 1 .. 5 : j < i =>
                 [P EXCEPT ![MapPin[i]] = v][MapPin[j]] = P[MapPin[j]]
  <1>1. MapPin[i] \in MapPins
    BY PinFacts
  <1>2. \A j \in 1 .. 5 : MapPin[j] \in MapPins /\ (j # i => MapPin[j] # MapPin[i])
    BY PinFacts
  <1> QED BY <1>1, <1>2

LEMMA RemoveMapInv == ASSUME IInv, NEW ok \in BOOLEAN, RemoveMap(ok) PROVE IInv'
  <1> USE DEF IInv
  <1> DEFINE m == MapPin[idx]
             v == Remove(pins[m], 0, ok)
  <1>1. /\ pc = "remove" /\ pc' = "pin"
        /\ UNCHANGED <<exists, prog, prog_dl, ports, gen, idx, args, held, result>>
        /\ pins' = [pins EXCEPT ![m] = v]
        /\ stuck' \in {stuck, stuck \cup {m}}
    BY DEF RemoveMap, kept, Stuck
  <1>2. idx \in 1 .. 5 /\ \A j \in 1 .. 5 : j < idx => pins[MapPin[j]] = gen
    BY <1>1, PinFacts DEF MapInv, MapSteps, TypeOK
  <1>3. m \in MapPins
    BY <1>2, PinFacts
  <1>4. pins \in [MapPins -> 0 .. MaxGen] /\ 0 \in 0 .. MaxGen
    BY LoaderAssumption DEF TypeOK
  <1>5. v \in 0 .. MaxGen
    BY <1>3, <1>4 DEF Remove
  <1> HIDE DEF v
  <1>6. /\ pins' \in [MapPins -> 0 .. MaxGen]
        /\ \A j \in 1 .. 5 : j < idx => pins'[MapPin[j]] = pins[MapPin[j]]
    BY <1>1, <1>2, <1>4, <1>5, PinAt
  <1>7. MapInv'
    BY <1>1, <1>2, <1>6 DEF MapInv, MapSteps
  <1>8. stuck' \subseteq MapPins \cup {"prog", "prog_dl"}
    BY <1>1, <1>3 DEF TypeOK
  <1>9. idx' \in 1 .. 7
    BY <1>1, <1>2
  <1> QED BY <1>1, <1>6, <1>7, <1>8, <1>9, MapStep DEF MapSteps

LEMMA PinMapInv == ASSUME IInv, NEW ok \in BOOLEAN, PinMap(ok) PROVE IInv'
  <1> USE DEF IInv
  <1> DEFINE m == MapPin[idx]
  <1>1. pc = "pin" /\ UNCHANGED <<exists, prog, prog_dl, ports, gen, args, stuck>>
    BY DEF PinMap, kept
  <1>2. idx \in 1 .. 5 /\ \A j \in 1 .. 5 : j < idx => pins[MapPin[j]] = gen
    BY <1>1, PinFacts DEF MapInv, MapSteps, TypeOK
  <1>3. /\ stuck \subseteq MapPins \cup {"prog", "prog_dl"}
        /\ pins \in [MapPins -> 0 .. MaxGen] /\ gen \in 0 .. MaxGen
    BY DEF TypeOK
  <1>4. CASE ok /\ pins[m] = 0
    <2>1. /\ pins' = [pins EXCEPT ![m] = gen]
          /\ pc' = IF idx = 5 THEN "attach" ELSE "remove"
          /\ idx' = idx + 1 /\ UNCHANGED <<held, result>>
      BY <1>4, PinFacts DEF PinMap
    <2>2. /\ pins' \in [MapPins -> 0 .. MaxGen]
          /\ pins'[MapPin[idx]] = gen
          /\ \A j \in 1 .. 5 : j < idx => pins'[MapPin[j]] = pins[MapPin[j]]
      BY <1>2, <1>3, <2>1, PinAt
    <2>3. \A j \in 1 .. 5 : j < idx + 1 => pins'[MapPin[j]] = gen
      BY <1>2, <2>2
    <2>4. MapInv'
      <3>1. CASE idx = 5
        <4>1. \A n \in MapPins : pins'[n] = gen
          BY <2>3, <3>1, PinFacts
        <4> QED BY <1>1, <2>1, <3>1, <4>1 DEF MapInv, MapSteps
      <3>2. CASE idx # 5
        BY <1>1, <1>2, <2>1, <2>3, <3>2 DEF MapInv, MapSteps
      <3> QED BY <3>1, <3>2
    <2>5. idx' \in 1 .. 7 /\ pc' \in MapSteps \cup {"attach"} /\ pc \in MapSteps
      BY <1>1, <1>2, <2>1 DEF MapSteps
    <2> QED BY <1>1, <1>3, <2>1, <2>2, <2>4, <2>5, MapStep
  <1>5. CASE ~(ok /\ pins[m] = 0)
    <2>1. Exit("failed") /\ UNCHANGED pins
      BY <1>5 DEF PinMap
    <2>2. ~Mine(prog') /\ ~Mine(prog_dl')
      BY <1>1 DEF OwnInv, MapSteps, LoadSteps
    <2> QED BY <1>1, <1>3, <2>1, <2>2, ExitInv
  <1> QED BY <1>4, <1>5

\* A step of a running load beyond the maps: it attaches, pins or provisions
\* nothing but its own links and ports.
LEMMA GoOn ==
    ASSUME IInv, TypeOK', UNCHANGED <<exists, pins, gen, args>>,
           pc \in LoadSteps \ (MapSteps \cup {"done"}),
           pc' \in LoadSteps \ MapSteps, result' = result,
           Links' \subseteq Links \cup {l \in Link : l.gen = gen},
           pc' \in {"dlport", "dlattach", "pindl"} => args.dl \in Iface,
           OwnInv', PortInv'
    PROVE  IInv'
  <1> USE DEF IInv
  <1>1. gen \in Nat /\ result = "running"
    BY LoaderAssumption DEF TypeOK, LoadSteps
  <1>2. pc \in LoadSteps /\ pc \notin MapSteps
    OBVIOUS
  <1>3. GenInv'
    <2>1. \A l \in Links' : l.gen <= gen
      BY <1>1 DEF GenInv
    <2>2. gen >= 1 /\ args.up \in Iface
      BY <1>2 DEF GenInv
    <2> QED BY <2>1, <2>2 DEF GenInv
  <1>4. MapInv'
    BY <1>2 DEF MapInv
  <1>5. UnpinInv'
    BY DEF UnpinInv, LoadSteps
  <1> QED BY <1>1, <1>3, <1>4, <1>5 DEF LoadConsistent, FailureDetaches, UnloadDetaches

LEMMA LoadStepFacts ==
    LoadSteps \ MapSteps = {"attach", "pinlink", "port", "dlport", "dlattach",
                            "pindl", "done"}
  BY DEF LoadSteps, MapSteps

LEMMA AttachInv == ASSUME IInv, NEW ok \in BOOLEAN, Attach(ok) PROVE IInv'
  <1> USE DEF IInv
  <1> DEFINE l == [iface |-> args.up, gen |-> gen]
  <1>1. pc = "attach" /\ UNCHANGED <<pins, prog, prog_dl, ports, args, stuck, exists, gen>>
    BY DEF Attach, kept
  <1>2. ~Mine(prog) /\ ~Mine(prog_dl) /\ held = {}
    BY <1>1 DEF OwnInv, LoadSteps
  <1>3. CASE CanAttach(args.up, ok)
    <2>1. held' = {l} /\ pc' = "pinlink" /\ UNCHANGED <<idx, result>>
      BY <1>3 DEF Attach
    <2>2. l \in Link /\ l.gen = gen
      BY <1>1, LoaderAssumption DEF GenInv, TypeOK, Link, LoadSteps
    <2>3. TypeOK'
      BY <1>1, <2>1, <2>2 DEF TypeOK
    <2>4. Links' \subseteq Links \cup {k \in Link : k.gen = gen}
      BY <1>1, <2>1, <2>2 DEF Links
    <2>5. OwnInv'
      BY <1>1, <1>2, <2>1 DEF OwnInv, Mine, MapSteps
    <2>6. PortInv'
      BY <2>1 DEF PortInv
    <2> HIDE DEF l
    <2> QED BY <1>1, <2>1, <2>3, <2>4, <2>5, <2>6, LoadStepFacts, GoOn
  <1>4. CASE ~CanAttach(args.up, ok)
    <2>1. Exit("failed")
      BY <1>4 DEF Attach
    <2>2. ~Mine(prog') /\ ~Mine(prog_dl') /\ stuck \subseteq MapPins \cup {"prog", "prog_dl"}
      BY <1>1, <1>2 DEF TypeOK
    <2> QED BY <1>1, <2>1, <2>2, ExitInv
  <1> QED BY <1>3, <1>4

LEMMA PinLinkInv ==
    ASSUME IInv, NEW rm \in BOOLEAN, NEW ok \in BOOLEAN, PinLink(rm, ok) PROVE IInv'
  <1> USE DEF IInv
  <1> DEFINE l == [iface |-> args.up, gen |-> gen]
  <1>1. /\ pc = "pinlink" /\ pc' = "port" /\ prog' \in {l, prog, NoLink}
        /\ stuck' \in {stuck, stuck \cup {"prog"}}
        /\ UNCHANGED <<pins, prog_dl, ports, idx, args, held, result, exists, gen>>
    BY DEF PinLink, Repin, Remove, Stuck, kept
  <1>2. l \in Link /\ l.gen = gen /\ l.iface = args.up
    BY <1>1, LoaderAssumption DEF GenInv, TypeOK, Link, LoadSteps
  <1> HIDE DEF l
  <1>3. TypeOK'
    BY <1>1, <1>2 DEF TypeOK
  <1>4. Links' \subseteq Links \cup {k \in Link : k.gen = gen}
    BY <1>1, <1>2 DEF Links
  <1>5. OwnInv'
    <2>1. ~Mine(prog) /\ ~Mine(prog_dl) /\ \A k \in held : Mine(k) => k.iface = args.up
      BY <1>1 DEF OwnInv, LoadSteps
    <2>2. Mine(prog') => prog'.iface = args.up
      BY <1>1, <1>2, <2>1 DEF Mine
    <2>3. /\ Mine(prog)' = Mine(prog') /\ Mine(prog_dl)' = Mine(prog_dl)
          /\ \A k : Mine(k)' = Mine(k)
      BY <1>1 DEF Mine
    <2> QED BY <1>1, <2>1, <2>2, <2>3 DEF OwnInv, MapSteps
  <1>6. PortInv'
    BY <1>1 DEF PortInv
  <1> QED BY <1>1, <1>3, <1>4, <1>5, <1>6, LoadStepFacts, GoOn

\* The uplink's pin is taken back, or stuck.
LEMMA CleanupInv ==
    ASSUME IInv, NEW ok \in BOOLEAN, Cleanup(ok), pc \in {"port", "dlport", "dlattach"},
           UNCHANGED <<exists, pins, prog_dl, gen, ports, args>>
    PROVE  IInv'
  <1> USE DEF IInv
  <1> DEFINE l == [iface |-> args.up, gen |-> gen]
  <1>1. /\ Exit("failed")
        /\ prog' = IF prog = l /\ ok THEN NoLink ELSE prog
        /\ stuck' = IF prog = l /\ ~ok THEN stuck \cup {"prog"} ELSE stuck
    BY DEF Cleanup, Remove, Stuck
  <1>2. Mine(prog) => prog = l
    <2>1. Mine(prog) => prog.iface = args.up
      BY DEF OwnInv, LoadSteps
    <2>2. Mine(prog) => prog \in Link /\ prog.gen = gen
      BY DEF TypeOK, Mine
    <2> QED BY <2>1, <2>2 DEF Link
  <1>3. ~Mine(NoLink) /\ ~Mine(prog_dl)
    BY DEF Mine, OwnInv, LoadSteps
  <1> HIDE DEF l
  <1>4. prog' \in {prog, NoLink} /\ (Mine(prog') => "prog" \in stuck')
    BY <1>1, <1>2, <1>3
  <1>5. stuck' \subseteq MapPins \cup {"prog", "prog_dl"}
    BY <1>1 DEF TypeOK
  <1>6. ~Mine(prog_dl')
    BY <1>3
  <1> QED BY <1>1, <1>4, <1>5, <1>6, ExitInv

LEMMA EnsureUplinkInv ==
    ASSUME IInv, NEW ok \in BOOLEAN, NEW unpin \in BOOLEAN, EnsureUplink(ok, unpin)
    PROVE  IInv'
  <1> USE DEF IInv
  <1>1. pc = "port" /\ UNCHANGED <<pins, prog_dl, args, exists, gen>>
    BY DEF EnsureUplink, kept
  <1>2. CASE CanEnsure(args.up, ok)
    <2>1. /\ ports' = ports \cup {args.up} /\ UNCHANGED <<prog, idx, held, result, stuck>>
          /\ pc' = IF args.dl = NoIface THEN "done" ELSE "dlport"
      BY <1>2 DEF EnsureUplink
    <2>2. TypeOK'
      BY <1>1, <1>2, <2>1, LoaderAssumption DEF TypeOK, CanEnsure
    <2>3. Links' = Links
      BY <1>1, <2>1 DEF Links
    <2>4. pc' = "dlport" => args.dl \in Iface
      BY <2>1 DEF TypeOK
    <2>5. OwnInv'
      BY <1>1, <2>1 DEF OwnInv, Mine, LoadSteps, MapSteps
    <2>6. \A l \in Links : Mine(l) => l.iface = args.up
      BY <1>1 DEF OwnInv, Links, LoadSteps
    <2>7. \A l \in Links' : Placed(l)'
      BY <1>1, <2>1, <2>3, <2>6 DEF Placed, Mine
    <2>8. PortInv'
      BY <1>1, <2>1, <2>7 DEF PortInv
    <2> QED BY <1>1, <2>1, <2>2, <2>3, <2>4, <2>5, <2>8, LoadStepFacts, GoOn
  <1>3. CASE ~CanEnsure(args.up, ok)
    BY <1>1, <1>3, CleanupInv DEF EnsureUplink
  <1> QED BY <1>2, <1>3

LEMMA EnsureDownlinkInv ==
    ASSUME IInv, NEW ok \in BOOLEAN, NEW unpin \in BOOLEAN, EnsureDownlink(ok, unpin)
    PROVE  IInv'
  <1> USE DEF IInv
  <1>1. pc = "dlport" /\ UNCHANGED <<pins, prog_dl, args, exists, gen>>
    BY DEF EnsureDownlink, kept
  <1>2. CASE CanEnsure(args.dl, ok)
    <2>1. /\ ports' = ports \cup {args.dl} /\ UNCHANGED <<prog, idx, held, result, stuck>>
          /\ pc' = "dlattach"
      BY <1>2 DEF EnsureDownlink
    <2>2. TypeOK'
      BY <1>1, <1>2, <2>1, LoaderAssumption DEF TypeOK, CanEnsure
    <2>3. Links' = Links
      BY <1>1, <2>1 DEF Links
    <2>4. args.dl \in Iface
      BY <1>2 DEF TypeOK, CanEnsure
    <2>5. OwnInv'
      BY <1>1, <2>1 DEF OwnInv, Mine, LoadSteps, MapSteps
    <2>6. PortInv'
      BY <1>1, <2>1 DEF PortInv
    <2> QED BY <1>1, <2>1, <2>2, <2>3, <2>4, <2>5, <2>6, LoadStepFacts, GoOn
  <1>3. CASE ~CanEnsure(args.dl, ok)
    BY <1>1, <1>3, CleanupInv DEF EnsureDownlink
  <1> QED BY <1>2, <1>3

LEMMA AttachDownlinkInv ==
    ASSUME IInv, NEW ok \in BOOLEAN, NEW unpin \in BOOLEAN, AttachDownlink(ok, unpin)
    PROVE  IInv'
  <1> USE DEF IInv
  <1> DEFINE l == [iface |-> args.dl, gen |-> gen]
  <1>1. pc = "dlattach" /\ UNCHANGED <<pins, prog_dl, ports, args, exists, gen>>
    BY DEF AttachDownlink, kept
  <1>2. CASE CanAttach(args.dl, ok)
    <2>1. held' = held \cup {l} /\ pc' = "pindl" /\ UNCHANGED <<prog, idx, result, stuck>>
      BY <1>2 DEF AttachDownlink
    <2>2. l \in Link /\ l.gen = gen /\ l.iface = args.dl
      BY <1>1, LoaderAssumption DEF GenInv, TypeOK, Link, LoadSteps
    <2> HIDE DEF l
    <2>3. TypeOK'
      BY <1>1, <2>1, <2>2 DEF TypeOK
    <2>4. Links' \subseteq Links \cup {k \in Link : k.gen = gen}
      BY <1>1, <2>1, <2>2 DEF Links
    <2>5. OwnInv'
      BY <1>1, <2>1, <2>2 DEF OwnInv, Mine, LoadSteps, MapSteps
    <2>6. PortInv'
      BY <1>1, <2>1 DEF PortInv
    <2>7. args.dl \in Iface
      BY <1>1 DEF GenInv
    <2> QED BY <1>1, <2>1, <2>3, <2>4, <2>5, <2>6, <2>7, LoadStepFacts, GoOn
  <1>3. CASE ~CanAttach(args.dl, ok)
    BY <1>1, <1>3, CleanupInv DEF AttachDownlink
  <1> QED BY <1>2, <1>3

LEMMA PinDownlinkInv ==
    ASSUME IInv, NEW rm \in BOOLEAN, NEW ok \in BOOLEAN, PinDownlink(rm, ok) PROVE IInv'
  <1> USE DEF IInv
  <1> DEFINE l == [iface |-> args.dl, gen |-> gen]
  <1>1. /\ pc = "pindl" /\ pc' = "done" /\ prog_dl' \in {l, prog_dl, NoLink}
        /\ stuck' \in {stuck, stuck \cup {"prog_dl"}}
        /\ UNCHANGED <<pins, prog, ports, idx, args, held, result, exists, gen>>
    BY DEF PinDownlink, Repin, Remove, Stuck, kept
  <1>2. l \in Link /\ l.gen = gen /\ l.iface = args.dl
    BY <1>1, LoaderAssumption DEF GenInv, TypeOK, Link, LoadSteps
  <1> HIDE DEF l
  <1>3. TypeOK'
    BY <1>1, <1>2 DEF TypeOK
  <1>4. Links' \subseteq Links \cup {k \in Link : k.gen = gen}
    BY <1>1, <1>2 DEF Links
  <1>5. OwnInv'
    BY <1>1 DEF OwnInv, LoadSteps, MapSteps
  <1>6. /\ \A k \in held \cup {prog} : Mine(k) => k.iface \in {args.up, args.dl}
        /\ ~Mine(prog_dl)
    BY <1>1 DEF OwnInv, LoadSteps
  <1>7. args.up \in ports /\ args.dl \in ports
    BY <1>1 DEF PortInv
  <1>8. \A k \in Links' : Placed(k)'
    BY <1>1, <1>2, <1>6, <1>7 DEF Placed, Mine, Links
  <1>9. PortInv'
    BY <1>1, <1>8 DEF PortInv
  <1> QED BY <1>1, <1>3, <1>4, <1>5, <1>9, LoadStepFacts, GoOn

LEMMA DoneInv == ASSUME IInv, Done PROVE IInv'
  <1>1. /\ pc = "done" /\ Exit("loaded")
        /\ UNCHANGED <<pins, prog, prog_dl, ports, args, stuck, exists, gen>>
    BY DEF Done, kept
  <1>2. stuck' \subseteq MapPins \cup {"prog", "prog_dl"}
    BY <1>1 DEF IInv, TypeOK
  <1> QED BY <1>1, <1>2, ExitInv

-----------------------------------------------------------------------------
(* unload, and the environment *)

LEMMA UnloadInv == ASSUME IInv, NEW i \in Iface, Unload(i) PROVE IInv'
  <1> USE DEF IInv
  <1>1. /\ pc = "none" /\ args' = [up |-> i, dl |-> NoIface] /\ stuck' = {}
        /\ UNCHANGED <<pins, prog, prog_dl, ports, idx, held, exists, gen>>
        /\ \/ pc' = "unpin" /\ result' = "running"
           \/ pc' = "none" /\ result' = "refused"
    BY DEF Unload, kept
  <1>2. TypeOK'
    BY <1>1 DEF TypeOK
  <1>3. Links' = Links /\ held' = {} /\ idx = 1
    BY <1>1 DEF Links, TypeOK, UnpinInv
  <1>4. GenInv' /\ OwnInv' /\ PortInv' /\ MapInv'
    BY <1>1, <1>3 DEF GenInv, OwnInv, PortInv, MapInv, LoadSteps, MapSteps
  <1>5. UnpinInv'
    BY <1>1, <1>3 DEF UnpinInv
  <1> QED BY <1>1, <1>2, <1>4, <1>5 DEF LoadConsistent, FailureDetaches, UnloadDetaches

\* A step of a running unload.
LEMMA UnloadStep ==
    ASSUME IInv, TypeOK', pc = "unpin", pc' = "unpin",
           prog' \in {prog, NoLink}, UnpinInv',
           UNCHANGED <<exists, prog_dl, ports, gen, args, held, result>>
    PROVE  IInv'
  <1> USE DEF IInv
  <1>1. Links' \subseteq Links /\ held = {} /\ result = "running"
    BY DEF Links, OwnInv, TypeOK
  <1>2. GenInv' /\ OwnInv' /\ PortInv' /\ MapInv'
    BY <1>1 DEF GenInv, OwnInv, PortInv, MapInv, LoadSteps, MapSteps
  <1> QED BY <1>1, <1>2 DEF LoadConsistent, FailureDetaches, UnloadDetaches

LEMMA UnloadMapInv == ASSUME IInv, NEW ok \in BOOLEAN, UnloadMap(ok) PROVE IInv'
  <1> USE DEF IInv
  <1> DEFINE m == MapPin[idx]
             v == Remove(pins[m], 0, ok)
  <1>1. /\ pc = "unpin" /\ idx <= 5 /\ idx' = idx + 1
        /\ UNCHANGED <<exists, prog, prog_dl, ports, gen, pc, args, held, result>>
        /\ pins' = [pins EXCEPT ![m] = v]
        /\ stuck' = IF pins[m] # 0 /\ ~ok THEN stuck \cup {m} ELSE stuck
    BY PinFacts DEF UnloadMap, kept, Stuck
  <1>2. idx \in 1 .. 5
    BY <1>1, PinFacts DEF TypeOK
  <1>3. m \in MapPins
    BY <1>2, PinFacts
  <1>4. pins \in [MapPins -> 0 .. MaxGen] /\ 0 \in 0 .. MaxGen
    BY LoaderAssumption DEF TypeOK
  <1>5. v \in 0 .. MaxGen /\ (v = 0 \/ m \in stuck')
    BY <1>1, <1>3, <1>4 DEF Remove
  <1> HIDE DEF v
  <1>6. /\ pins' \in [MapPins -> 0 .. MaxGen]
        /\ pins'[MapPin[idx]] = v
        /\ \A j \in 1 .. 5 : j < idx => pins'[MapPin[j]] = pins[MapPin[j]]
    BY <1>1, <1>2, <1>4, <1>5, PinAt
  <1>7. stuck \subseteq stuck' /\ stuck' \subseteq MapPins \cup {"prog", "prog_dl"}
    BY <1>1, <1>3 DEF TypeOK
  <1>8. TypeOK'
    BY <1>1, <1>2, <1>6, <1>7, PinFacts DEF TypeOK
  <1>9. UnpinInv'
    <2>1. \A j \in 1 .. 5 : j < idx => pins[MapPin[j]] = 0 \/ MapPin[j] \in stuck
      BY <1>1 DEF UnpinInv
    <2>2. \A j \in 1 .. 5 : j < idx => pins'[MapPin[j]] = 0 \/ MapPin[j] \in stuck'
      BY <1>6, <1>7, <2>1
    <2>3. \A j \in 1 .. 5 : j < idx + 1 => j < idx \/ j = idx
      BY <1>2
    <2>4. \A j \in 1 .. 5 : j < idx' => pins'[MapPin[j]] = 0 \/ MapPin[j] \in stuck'
      BY <1>1, <1>5, <1>6, <2>2, <2>3
    <2> QED BY <1>1, <1>2, <2>4 DEF UnpinInv
  <1> QED BY <1>1, <1>8, <1>9, UnloadStep

LEMMA UnloadUplinkInv == ASSUME IInv, NEW ok \in BOOLEAN, UnloadUplink(ok) PROVE IInv'
  <1> USE DEF IInv
  <1>1. /\ pc = "unpin" /\ idx = 6 /\ idx' = 7
        /\ UNCHANGED <<exists, pins, prog_dl, ports, gen, pc, args, held, result>>
        /\ prog' = IF ok THEN NoLink ELSE prog
        /\ stuck' = IF prog # NoLink /\ ~ok THEN stuck \cup {"prog"} ELSE stuck
    BY PinFacts DEF UnloadUplink, kept, Stuck, Remove
  <1>2. TypeOK'
    BY <1>1, PinFacts DEF TypeOK
  <1>3. UnpinInv'
    BY <1>1 DEF UnpinInv
  <1> QED BY <1>1, <1>2, <1>3, UnloadStep

LEMMA UnloadDownlinkInv == ASSUME IInv, NEW ok \in BOOLEAN, UnloadDownlink(ok) PROVE IInv'
  <1> USE DEF IInv
  <1>1. /\ pc = "unpin" /\ idx = 7 /\ Exit("unloaded")
        /\ UNCHANGED <<exists, pins, prog, ports, gen, args>>
        /\ prog_dl' = IF ok THEN NoLink ELSE prog_dl
        /\ stuck' = IF prog_dl # NoLink /\ ~ok THEN stuck \cup {"prog_dl"} ELSE stuck
    BY PinFacts DEF UnloadDownlink, kept, Stuck, Remove
  <1>2. stuck' \subseteq MapPins \cup {"prog", "prog_dl"}
    BY <1>1 DEF TypeOK
  <1>3. /\ prog' = NoLink \/ "prog" \in stuck'
        /\ \A j \in 1 .. 5 : pins[MapPin[j]] = 0 \/ MapPin[j] \in stuck'
    BY <1>1 DEF UnpinInv
  <1>4. \A m \in MapPins : pins[m] = 0 \/ m \in stuck'
    BY <1>3, PinFacts
  <1> QED BY <1>1, <1>2, <1>3, <1>4, ExitInv

LEMMA KillInv == ASSUME IInv, Kill PROVE IInv'
  <1>1. /\ Exit("killed")
        /\ UNCHANGED <<exists, pins, prog, prog_dl, ports, gen, args, stuck>>
    BY DEF Kill, kept
  <1>2. stuck' \subseteq MapPins \cup {"prog", "prog_dl"}
    BY <1>1 DEF IInv, TypeOK
  <1> QED BY <1>1, <1>2, ExitInv

LEMMA IfaceInv == ASSUME IInv, NEW i \in Iface, IfaceGone(i) \/ IfaceBack(i) PROVE IInv'
  <1> USE DEF IInv
  <1>1. /\ exists' \subseteq Iface
        /\ UNCHANGED <<pins, gen, ports, pc, idx, args, result, stuck>>
        /\ prog' \in {prog, NoLink} /\ prog_dl' \in {prog_dl, NoLink}
        /\ held' \subseteq held
    BY DEF IfaceGone, IfaceBack, TypeOK
  <1>2. TypeOK'
    BY <1>1 DEF TypeOK
  <1>3. Links' \subseteq Links
    BY <1>1 DEF Links
  <1>4. GenInv' /\ MapInv' /\ UnpinInv'
    BY <1>1, <1>3 DEF GenInv, MapInv, UnpinInv
  <1>5. ~Mine(NoLink)
    BY DEF Mine
  <1>6. /\ Mine(prog') => Mine(prog) /\ prog' = prog
        /\ Mine(prog_dl') => Mine(prog_dl)
        /\ \A l : Mine(l)' = Mine(l)
        /\ Mine(prog)' = Mine(prog') /\ Mine(prog_dl)' = Mine(prog_dl')
    BY <1>1, <1>5 DEF Mine
  <1>7. OwnInv'
    BY <1>1, <1>6 DEF OwnInv
  <1>8. PortInv'
    BY <1>1, <1>3 DEF PortInv, Placed, Mine
  <1>9. LoadConsistent'
    BY <1>1, <1>3 DEF LoadConsistent
  <1>10. ASSUME NEW l \in Links' PROVE (l = prog => l = prog') /\ (l = prog_dl => l = prog_dl')
    <2>1. CASE IfaceBack(i)
      BY <2>1 DEF IfaceBack
    <2>2. CASE IfaceGone(i)
      <3>1. l # NoLink /\ (l = prog' \/ l = prog_dl' \/ l \in held')
        BY DEF Links
      <3>2. l.iface # i
        BY <2>2, <3>1 DEF IfaceGone
      <3> QED BY <2>2, <3>2 DEF IfaceGone
    <2> QED BY <2>1, <2>2
  <1>11. FailureDetaches' /\ UnloadDetaches'
    BY <1>1, <1>3, <1>10 DEF FailureDetaches, UnloadDetaches
  <1> QED BY <1>2, <1>4, <1>7, <1>8, <1>9, <1>11

-----------------------------------------------------------------------------
(* Theorems *)

LEMMA StepInv == IInv /\ [Next]_vars => IInv'
  <1> SUFFICES ASSUME IInv, [Next]_vars PROVE IInv'
    OBVIOUS
  <1>1. CASE UNCHANGED vars
    BY <1>1 DEF vars, IInv, TypeOK, GenInv, OwnInv, PortInv, MapInv, UnpinInv, Links,
                LoadConsistent, FailureDetaches, UnloadDetaches, Mine, Placed
  <1>2. Outcomes \subseteq BOOLEAN
    BY DEF Outcomes
  <1>3. CASE Step
    BY <1>2, <1>3, RemoveMapInv, PinMapInv, AttachInv, PinLinkInv, AttachDownlinkInv,
       PinDownlinkInv, EnsureUplinkInv, EnsureDownlinkInv, DoneInv, UnloadMapInv,
       UnloadUplinkInv, UnloadDownlinkInv DEF Step
  <1>4. CASE Environment
    BY <1>4, LoadInv, UnloadInv, IfaceInv, KillInv DEF Environment
  <1> QED BY <1>1, <1>3, <1>4 DEF Next

LEMMA Invariant == Spec => []IInv
  BY InitInv, StepInv, PTL DEF Spec

\* The pins, links and ports are of the kinds the loader works with, and no
\* descriptor outlives its command.
THEOREM TypeCorrect == Spec => []TypeOK
  <1>1. IInv => TypeOK
    BY DEF IInv
  <1> QED BY <1>1, Invariant, PTL

\* Load's success means one generation of maps, attached only where it was asked
\* for and only on provisioned ports, whatever earlier loads left behind.
THEOREM LoadConsistentHolds == Spec => []LoadConsistent
  <1>1. IInv => LoadConsistent
    BY DEF IInv
  <1> QED BY <1>1, Invariant, PTL

\* The error paths of Load detach everything that load attached, but for an uplink
\* whose pin they fail to remove.
THEOREM FailureDetachesHolds == Spec => []FailureDetaches
  <1>1. IInv => FailureDetaches
    BY DEF IInv
  <1> QED BY <1>1, Invariant, PTL

\* Unload's success means that a pin, or a program attached, of whatever load, is
\* one whose removal by that unload failed: a failure costs no later pin.
THEOREM UnloadDetachesHolds == Spec => []UnloadDetaches
  <1>1. IInv => UnloadDetaches
    BY DEF IInv
  <1> QED BY <1>1, Invariant, PTL

=============================================================================
