------------------------------- MODULE Loader -------------------------------
(***************************************************************************)
(* gtp-ctrl load and unload (control/loader/loader.go, control/cmd/load.go *)
(* and unload.go): a fresh set of maps and a program are created, the maps *)
(* and the XDP links are pinned in the BPF file system, and the process    *)
(* exits; from then on the pins alone keep the program attached, and the   *)
(* other commands find the maps through their pins.                        *)
(*                                                                         *)
(* Every system call that can fail or that leaves something behind is a    *)
(* step, and the process can be killed between any two of them.  That      *)
(* includes the calls whose errors the code ignores: a pin that cannot be  *)
(* removed stays, and a pin cannot be made where there is one.  A          *)
(* generation numbers the set of maps (and the program using them) of one  *)
(* load.  Kernel behaviour the code relies on: a link keeps its program    *)
(* attached while a pin or a process refers to it; an interface carries at *)
(* most one link; a link dies with its interface.                          *)
(***************************************************************************)
EXTENDS Integers, FiniteSets, Sequences

CONSTANTS
    Iface,      \* the network interfaces
    Small,      \* those whose index is below MAX_IFINDEX, tx_port's size
    MaxGen,     \* bound on the number of loads
    Faults,     \* whether system calls fail and commands are killed
    NoIface     \* no --dl-iface

\* The map pins, in the order Load writes them.
MapPin == <<"teid_map", "ueip_map", "nat_map", "stats_map", "tx_port">>
MapPins == {MapPin[i] : i \in 1 .. Len(MapPin)}

Link == [iface : Iface, gen : 1 .. MaxGen]
NoLink == [iface |-> NoIface, gen |-> 0]

ASSUME LoaderAssumption ==
    /\ Small \subseteq Iface /\ NoIface \notin Iface /\ MaxGen \in Nat
    /\ Faults \in BOOLEAN

VARIABLES
    exists,     \* the interfaces that are there
    pins,       \* pins[m]: the generation of the map pinned as m, 0 if none
    prog,       \* the link pinned at PinProg
    prog_dl,    \* the link pinned at PinProgDownlink
    gen,        \* the generation of the last load
    ports,      \* interfaces in that generation's tx_port
    pc,         \* the next step of the running command, "none" between two
    idx,        \* where the command's loop over the pins is
    args,       \* its interfaces
    held,       \* links the running command holds open
    result,     \* how the last command ended
    stuck       \* history: the pins that command could not remove

vars == <<exists, pins, prog, prog_dl, gen, ports, pc, idx, args, held, result,
          stuck>>
kept == <<exists, gen>>

Init ==
    /\ exists = Iface
    /\ pins = [m \in MapPins |-> 0]
    /\ prog = NoLink /\ prog_dl = NoLink
    /\ gen = 0
    /\ ports = {}
    /\ pc = "none" /\ idx = 1
    /\ args = [up |-> NoIface, dl |-> NoIface]
    /\ held = {}
    /\ result = "none" /\ stuck = {}

\* The links something refers to: their programs are attached.
Links == ({prog, prog_dl} \cup held) \ {NoLink}
Attached(i) == {l \in Links : l.iface = i}

\* The command ends: its file descriptors are closed.
Exit(how) ==
    /\ pc' = "none" /\ idx' = 1
    /\ held' = {}
    /\ result' = how

\* Whether a system call succeeds.
Outcomes == IF Faults THEN BOOLEAN ELSE {TRUE}

\* os.Remove on a pin, its error ignored: what is pinned there afterwards.
Remove(old, none, ok) == IF ok THEN none ELSE old

\* History: pin p, if there was one, is stuck if it could not be removed.
Stuck(p, there, ok) ==
    stuck' = IF there /\ ~ok THEN stuck \cup {p} ELSE stuck

-----------------------------------------------------------------------------
(* load *)

\* Mutant: an error is reported and the load goes on.
LoadNoReturn(up, dl, ok) ==
    /\ pc = "none" /\ gen < MaxGen
    /\ args' = [up |-> up, dl |-> dl] /\ stuck' = {}
    /\ gen' = gen + 1 /\ ports' = {} /\ pc' = "remove"
    /\ result' = IF up \in exists /\ ok THEN "running" ELSE "refused"
    /\ UNCHANGED <<exists, pins, prog, prog_dl, idx, held>>

\* InterfaceByName, LoadGtpXdpObjects, MkdirAll.
Load(up, dl, ok) ==
    /\ pc = "none" /\ gen < MaxGen
    /\ args' = [up |-> up, dl |-> dl] /\ stuck' = {}
    /\ IF up \in exists /\ ok
       THEN gen' = gen + 1 /\ ports' = {} /\ pc' = "remove" /\ result' = "running"
       ELSE UNCHANGED <<gen, ports, pc>> /\ result' = "refused"
    /\ UNCHANGED <<exists, pins, prog, prog_dl, idx, held>>

\* The old pin of the next map is removed,
RemoveMap(ok) ==
    /\ pc = "remove" /\ pc' = "pin"
    /\ LET m == MapPin[idx]
       IN  /\ pins' = [pins EXCEPT ![m] = Remove(@, 0, ok)]
           /\ Stuck(m, pins[m] # 0, ok)
    /\ UNCHANGED <<prog, prog_dl, ports, idx, args, held, result, kept>>

\* and the new map pinned in its place.
PinMap(ok) ==
    /\ pc = "pin"
    /\ LET m == MapPin[idx]
       IN  IF ok /\ pins[m] = 0
           THEN /\ pins' = [pins EXCEPT ![m] = gen]
                /\ pc' = IF idx = Len(MapPin) THEN "attach" ELSE "remove"
                /\ idx' = idx + 1
                /\ UNCHANGED <<held, result>>
           ELSE Exit("failed") /\ UNCHANGED pins
    /\ UNCHANGED <<prog, prog_dl, ports, args, stuck, kept>>

\* link.AttachXDP on an interface: it is busy if it carries a link, and its
\* driver may not know the mode.
CanAttach(i, ok) == Attached(i) = {} /\ i \in exists /\ ok

\* The uplink.
Attach(ok) ==
    /\ pc = "attach"
    /\ IF CanAttach(args.up, ok)
       THEN /\ held' = {[iface |-> args.up, gen |-> gen]}
            /\ pc' = "pinlink"
            /\ UNCHANGED <<idx, result>>
       ELSE Exit("failed")
    /\ UNCHANGED <<pins, prog, prog_dl, ports, args, stuck, kept>>

\* What is pinned in place of the link old: the new link l, if the removal (rm)
\* and the pinning (ok) succeed.  A link that cannot be pinned is a warning.
Repin(old, l, rm, ok) ==
    LET left == Remove(old, NoLink, rm) IN IF left = NoLink /\ ok THEN l ELSE left

PinLink(rm, ok) ==
    /\ pc = "pinlink"
    /\ prog' = Repin(prog, [iface |-> args.up, gen |-> gen], rm, ok)
    /\ Stuck("prog", prog # NoLink, rm)
    /\ pc' = "port"
    /\ UNCHANGED <<pins, prog_dl, ports, idx, args, held, result, kept>>

\* Mutant: the uplink's pin is left behind when a later step fails.
CleanupKeepsPin(ok) == Exit("failed") /\ UNCHANGED <<prog, stuck>>

\* Unpin the uplink's link, if it was pinned, and close everything.
Cleanup(ok) ==
    /\ Exit("failed")
    /\ LET mine == prog = [iface |-> args.up, gen |-> gen]
       IN  /\ prog' = IF mine THEN Remove(prog, NoLink, ok) ELSE prog
           /\ Stuck("prog", mine, ok)

\* TxPortMap.Ensure: the devmap has room for the index and the interface is there.
CanEnsure(i, ok) == i \in Small \cap exists /\ ok

\* tx_port's entry for the uplink.
EnsureUplink(ok, unpin) ==
    /\ pc = "port"
    /\ IF CanEnsure(args.up, ok)
       THEN /\ ports' = ports \cup {args.up}
            /\ pc' = IF args.dl = NoIface THEN "done" ELSE "dlport"
            /\ UNCHANGED <<prog, idx, held, result, stuck>>
       ELSE Cleanup(unpin) /\ UNCHANGED ports
    /\ UNCHANGED <<pins, prog_dl, args, kept>>

\* Mutant: the downlink is attached before its port is provisioned, and the
\* port forgotten.
EnsureDownlinkSkipped(ok, unpin) ==
    /\ pc = "dlport"
    /\ pc' = "dlattach"
    /\ UNCHANGED <<pins, prog, prog_dl, ports, idx, args, held, result, stuck, kept>>

\* InterfaceByName and tx_port's entry for the downlink.
EnsureDownlink(ok, unpin) ==
    /\ pc = "dlport"
    /\ IF CanEnsure(args.dl, ok)
       THEN /\ ports' = ports \cup {args.dl}
            /\ pc' = "dlattach"
            /\ UNCHANGED <<prog, idx, held, result, stuck>>
       ELSE Cleanup(unpin) /\ UNCHANGED ports
    /\ UNCHANGED <<pins, prog_dl, args, kept>>

\* The downlink.
AttachDownlink(ok, unpin) ==
    /\ pc = "dlattach"
    /\ IF CanAttach(args.dl, ok)
       THEN /\ held' = held \cup {[iface |-> args.dl, gen |-> gen]}
            /\ pc' = "pindl"
            /\ UNCHANGED <<prog, idx, result, stuck>>
       ELSE Cleanup(unpin)
    /\ UNCHANGED <<pins, prog_dl, ports, args, kept>>

PinDownlink(rm, ok) ==
    /\ pc = "pindl"
    /\ prog_dl' = Repin(prog_dl, [iface |-> args.dl, gen |-> gen], rm, ok)
    /\ Stuck("prog_dl", prog_dl # NoLink, rm)
    /\ pc' = "done"
    /\ UNCHANGED <<pins, prog, ports, idx, args, held, result, kept>>

\* load.go closes the loader and reports success.
Done ==
    /\ pc = "done"
    /\ Exit("loaded")
    /\ UNCHANGED <<pins, prog, prog_dl, ports, args, stuck, kept>>

-----------------------------------------------------------------------------
(* unload, and the environment *)

\* Unload looks the interface up, and stops there if it does not exist.  The links
\* it opens and closes again change nothing.
Unload(i) ==
    /\ pc = "none"
    /\ IF i \in exists
       THEN pc' = "unpin" /\ result' = "running"
       ELSE result' = "refused" /\ UNCHANGED pc
    /\ args' = [up |-> i, dl |-> NoIface] /\ stuck' = {}
    /\ UNCHANGED <<pins, prog, prog_dl, ports, idx, held, kept>>

\* Mutant: the loop ends with the first pin that cannot be removed.
UnloadMapStops(ok) ==
    /\ pc = "unpin" /\ idx <= Len(MapPin)
    /\ LET m == MapPin[idx]
       IN  /\ pins' = [pins EXCEPT ![m] = Remove(@, 0, ok)]
           /\ Stuck(m, pins[m] # 0, ok)
    /\ IF ok THEN idx' = idx + 1 /\ UNCHANGED <<pc, held, result>>
             ELSE Exit("unloaded")
    /\ UNCHANGED <<prog, prog_dl, ports, args, kept>>

\* The pins are removed one by one, the maps' first; a pin that cannot be removed
\* stays and the loop goes on.
UnloadMap(ok) ==
    /\ pc = "unpin" /\ idx <= Len(MapPin)
    /\ LET m == MapPin[idx]
       IN  /\ pins' = [pins EXCEPT ![m] = Remove(@, 0, ok)]
           /\ Stuck(m, pins[m] # 0, ok)
    /\ idx' = idx + 1
    /\ UNCHANGED <<prog, prog_dl, ports, pc, args, held, result, kept>>

\* Then the uplink's, and the downlink's.
UnloadUplink(ok) ==
    /\ pc = "unpin" /\ idx = Len(MapPin) + 1
    /\ prog' = Remove(prog, NoLink, ok)
    /\ Stuck("prog", prog # NoLink, ok)
    /\ idx' = idx + 1
    /\ UNCHANGED <<pins, prog_dl, ports, pc, args, held, result, kept>>

UnloadDownlink(ok) ==
    /\ pc = "unpin" /\ idx = Len(MapPin) + 2
    /\ prog_dl' = Remove(prog_dl, NoLink, ok)
    /\ Stuck("prog_dl", prog_dl # NoLink, ok)
    /\ Exit("unloaded")
    /\ UNCHANGED <<pins, prog, ports, args, kept>>

\* The command is killed.
Kill ==
    /\ Faults /\ pc # "none"
    /\ Exit("killed")
    /\ UNCHANGED <<pins, prog, prog_dl, ports, args, stuck, kept>>

\* An interface goes away, and its link with it; or comes back.
IfaceGone(i) ==
    /\ i \in exists
    /\ exists' = exists \ {i}
    /\ prog' = IF prog.iface = i THEN NoLink ELSE prog
    /\ prog_dl' = IF prog_dl.iface = i THEN NoLink ELSE prog_dl
    /\ held' = {l \in held : l.iface # i}
    /\ UNCHANGED <<pins, gen, ports, pc, idx, args, result, stuck>>

IfaceBack(i) ==
    /\ i \notin exists
    /\ exists' = exists \cup {i}
    /\ UNCHANGED <<pins, prog, prog_dl, gen, ports, pc, idx, args, held, result,
                   stuck>>

Step ==
    \/ \E ok \in Outcomes :
           \/ RemoveMap(ok) \/ PinMap(ok) \/ Attach(ok)
           \/ UnloadMap(ok) \/ UnloadUplink(ok) \/ UnloadDownlink(ok)
    \/ \E ok, ignored \in Outcomes :
           \/ PinLink(ignored, ok) \/ PinDownlink(ignored, ok)
           \/ EnsureUplink(ok, ignored) \/ EnsureDownlink(ok, ignored)
           \/ AttachDownlink(ok, ignored)
    \/ Done

Environment ==
    \/ \E up \in Iface, dl \in Iface \cup {NoIface}, ok \in Outcomes :
           Load(up, dl, ok)
    \/ \E i \in Iface : Unload(i) \/ IfaceGone(i) \/ IfaceBack(i)
    \/ Kill

Next == Step \/ Environment

Spec == Init /\ [][Next]_vars

-----------------------------------------------------------------------------
(* Properties *)

TypeOK ==
    /\ exists \subseteq Iface
    /\ pins \in [MapPins -> 0 .. MaxGen]
    /\ {prog, prog_dl} \subseteq Link \cup {NoLink}
    /\ gen \in 0 .. MaxGen
    /\ ports \subseteq Iface
    /\ pc \in {"none", "remove", "pin", "attach", "pinlink", "port", "dlport",
               "dlattach", "pindl", "done", "unpin"}
    /\ idx \in 1 .. Len(MapPin) + 2
    /\ args \in [up : Iface \cup {NoIface}, dl : Iface \cup {NoIface}]
    /\ held \subseteq Link
    /\ result \in {"none", "running", "refused", "failed", "killed",
                   "loaded", "unloaded"}
    /\ stuck \subseteq MapPins \cup {"prog", "prog_dl"}
    /\ pc # "none" <=> result = "running"
    /\ pc = "none" => held = {}

\* A load that reports success left one consistent generation behind: every
\* map pin is its own, and every interface its program runs on (all of them
\* there, in the table of egress ports, on the asked interfaces).
LoadConsistent ==
    result = "loaded" =>
        /\ \A m \in MapPins : pins[m] = gen
        /\ \A l \in Links : l.gen = gen => l.iface \in ports
        /\ \A l \in Links : l.gen = gen => l.iface \in {args.up, args.dl}

\* A load that fails leaves nothing of itself attached, so that a retry does not
\* meet "device or resource busy" from it, unless the uplink's pin, which it had
\* just made, could not be removed again.
FailureDetaches ==
    result = "failed" =>
        \A l \in Links : l.gen = gen => l = prog /\ "prog" \in stuck

\* An unload that reports success removed every pin it could, of whatever load,
\* however many removals before it failed: what stays pinned, or attached, is what
\* this very command could not remove.
UnloadDetaches ==
    result = "unloaded" =>
        /\ \A m \in MapPins : pins[m] # 0 => m \in stuck
        /\ \A l \in Links : \/ l = prog /\ "prog" \in stuck
                            \/ l = prog_dl /\ "prog_dl" \in stuck

\* README.md: "Forwarding state is held in eBPF maps, shared between the two
\* planes".  When no command is running, the maps the commands find are those
\* of every program that runs.
PlanesShareMaps ==
    pc = "none" =>
        \A l \in Links, m \in MapPins : pins[m] = l.gen

=============================================================================
