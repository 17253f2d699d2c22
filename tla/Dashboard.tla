----------------------------- MODULE Dashboard ------------------------------
(***************************************************************************)
(* gtp-ctrl dashboard (control/tui): one event loop handles keys, ticks    *)
(* and the results of fetches; each fetch runs beside it and reads the two *)
(* rule tables and the verdict counters one after the other, while the     *)
(* commands of other operators and the dashboard's own keys change the     *)
(* tables.  Fetches overlap and their results arrive in any order.         *)
(*                                                                         *)
(* A rule is what the panels and the form tell apart; counters (module     *)
(* Monitor), layout, the status line, the traffic ping and the snapshot    *)
(* file are left out.                                                      *)
(***************************************************************************)
EXTENDS Integers, FiniteSets, Sequences, SequencesExt

CONSTANTS
    Key,            \* TEIDs and addresses, as numbers
    Rules,          \* the rules
    FormRules,      \* those the form can write: it has no field for nat_ip
    Start,          \* the tables when the dashboard is started
    Defaults,       \* the <<panel, key, rule>> that "t" writes, in order
    MaxFetch,       \* bound on the fetches on their way
    MaxChanges,     \* bound on the writes to the tables and on failed fetches
    NoRule

Panel == {"teid", "ueip"}

ASSUME DashboardAssumption ==
    /\ Key \subseteq Nat /\ IsFiniteSet(Key) /\ FormRules \subseteq Rules
    /\ Start \subseteq [Panel -> [Key -> Rules \cup {NoRule}]]
    /\ Defaults \in Seq(Panel \X Key \X FormRules)
    /\ MaxFetch \in Nat \ {0} /\ MaxChanges \in Nat
    /\ NoRule \notin Rules

VARIABLES
    live,       \* live[p]: the rule table of panel p
    fetches,    \* fetches[i]: the i-th fetch on its way, with what it has read
    last,       \* last[p]: the table in the result handled last
    keys,       \* keys[p]: the rows of panel p, sorted
    selected,   \* selected[p]: the index of the selected row, from 0
    focus,      \* the panel with the focus
    mode,       \* the sub-view
    target,     \* panel and key of the open form (no key when adding) or prompt
    err,        \* the last fetch failed
    changes,    \* writes and failures so far
    asked       \* history: panel and key under the cursor when the form or
                \* the prompt was opened

vars == <<live, fetches, last, keys, selected, focus, mode, target, err,
          changes, asked>>
ui == <<focus, mode, target, asked>>
data == <<last, keys, selected, err>>

Table == [Key -> Rules \cup {NoRule}]
Empty == [k \in Key |-> NoRule]
Entries(t) == {k \in Key : t[k] # NoRule}

NoTarget == [panel |-> "teid", key |-> {}]

\* Nothing has been read yet.
NewFetch == [read |-> {}, tables |-> [p \in Panel |-> Empty]]

Slot == 1 .. MaxFetch
NoFetch == [read |-> {"none"}]
Free == {i \in Slot : fetches[i] = NoFetch}

Init ==
    /\ live \in Start
    /\ fetches = [i \in Slot |-> IF i = 1 THEN NewFetch ELSE NoFetch]
    /\ last = [p \in Panel |-> Empty]
    /\ keys = [p \in Panel |-> <<>>]
    /\ selected = [p \in Panel |-> 0]
    /\ focus = "teid"
    /\ mode = "view"
    /\ target = NoTarget
    /\ err = FALSE
    /\ changes = 0
    /\ asked = {}

-----------------------------------------------------------------------------
(* Fetches *)

\* fetchCmd.  With MaxFetch of them on their way, a further one would read no
\* more than the next tick's.
fetchCmd ==
    fetches' = IF Free = {} THEN fetches
               ELSE [fetches EXCEPT ![Min(Free)] = NewFetch]

\* Mutant: no refresh while a form or a prompt is open.
TickInView ==
    /\ mode = "view" /\ Free # {}
    /\ fetchCmd
    /\ UNCHANGED <<live, data, ui, changes>>

\* tickMsg: a fetch is started and the next tick armed.
Tick ==
    /\ mode # "quit" /\ Free # {}
    /\ fetchCmd
    /\ UNCHANGED <<live, data, ui, changes>>

\* teid_map.List(), and then ueip_map.List().
ReadTable(i, p) ==
    /\ fetches[i].read = IF p = "teid" THEN {} ELSE {"teid"}
    /\ fetches' = [fetches EXCEPT ![i].read = @ \cup {p}, ![i].tables[p] = live[p]]
    /\ UNCHANGED <<live, data, ui, changes>>

\* A table, or at last the verdict counters, cannot be read: dataMsg with an
\* error.
FetchFails(i) ==
    /\ mode # "quit" /\ fetches[i].read \in {{}, {"teid"}, Panel}
    /\ changes < MaxChanges /\ changes' = changes + 1
    /\ fetches' = [fetches EXCEPT ![i] = NoFetch]
    /\ err' = TRUE
    /\ UNCHANGED <<live, last, keys, selected, ui>>

\* The sorted keys of a table.
buildRows(t) ==
    CHOOSE ks \in [1 .. Cardinality(Entries(t)) -> Entries(t)] :
        \A i, j \in DOMAIN ks : i < j => ks[i] < ks[j]

clamp(v, lo, hi) == IF v < lo THEN lo ELSE IF v > hi THEN hi ELSE v

\* Mutant: the selection is left where it was.
ReselectedNot(sel, ks) == sel

\* The selection after the rows of a panel became ks.
Reselected(sel, ks) == clamp(sel, 0, clamp(Len(ks) - 1, 0, Len(ks)))

\* The counters are read too and dataMsg comes: the panels show the result.
Deliver(i) ==
    /\ mode # "quit" /\ fetches[i].read = Panel
    /\ fetches' = [fetches EXCEPT ![i] = NoFetch]
    /\ err' = FALSE
    /\ last' = fetches[i].tables
    /\ keys' = [p \in Panel |-> buildRows(last'[p])]
    /\ selected' = [p \in Panel |-> Reselected(selected[p], keys'[p])]
    /\ UNCHANGED <<live, ui, changes>>

Fetch(i) == ReadTable(i, "teid") \/ ReadTable(i, "ueip") \/ Deliver(i)

-----------------------------------------------------------------------------
(* Keys in the live view *)

Tab ==
    /\ mode = "view"
    /\ focus' = IF focus = "teid" THEN "ueip" ELSE "teid"
    /\ UNCHANGED <<live, fetches, data, mode, target, asked, changes>>

\* Mutant: the cursor leaves the panel.
moveSelectionUnclamped(delta) ==
    /\ mode = "view" /\ keys[focus] # <<>>
    /\ selected' = [selected EXCEPT ![focus] = @ + delta]
    /\ UNCHANGED <<live, fetches, last, keys, err, ui, changes>>

moveSelection(delta) ==
    /\ mode = "view" /\ keys[focus] # <<>>
    /\ selected' = [selected EXCEPT
                       ![focus] = clamp(@ + delta, 0, Len(keys[focus]) - 1)]
    /\ UNCHANGED <<live, fetches, last, keys, err, ui, changes>>

\* The key under the cursor, if there is one.
selectedRule ==
    IF selected[focus] < Len(keys[focus])
    THEN {keys[focus][selected[focus] + 1]} ELSE {}

\* "a", "e" and "d": a sub-view opens on its target.
Open(view, key) ==
    /\ mode = "view"
    /\ mode' = view
    /\ target' = [panel |-> focus, key |-> key]
    /\ asked' = {<<focus, k>> : k \in key}
    /\ UNCHANGED <<live, fetches, data, focus, changes>>

OpenAdd == Open("form", {})

OpenEdit == selectedRule # {} /\ Open("form", selectedRule)

AskDelete == selectedRule # {} /\ Open("confirm", selectedRule)

\* "?"; any key leaves the manual, "esc" the form, "n" the prompt.
Help ==
    /\ mode = "view" /\ mode' = "help"
    /\ UNCHANGED <<live, fetches, data, focus, target, asked, changes>>

Back ==
    /\ mode \in {"help", "form", "confirm"} /\ mode' = "view"
    /\ target' = NoTarget /\ asked' = {}
    /\ UNCHANGED <<live, fetches, data, focus, changes>>

Quit ==
    /\ mode = "view" /\ mode' = "quit"
    /\ UNCHANGED <<live, fetches, data, focus, target, asked, changes>>

-----------------------------------------------------------------------------
(* Writes *)

Change == changes < MaxChanges /\ changes' = changes + 1

\* The sub-view closes and the tables are fetched.
Written ==
    /\ mode' = "view"
    /\ target' = NoTarget /\ asked' = {}
    /\ fetchCmd
    /\ UNCHANGED <<data, focus>>

\* "enter" in the form: an edit keeps its key, an add has one typed in.  If
\* the fields do not make a rule, or the write fails, the form stays.
SubmitForm(k, r) ==
    /\ mode = "form" /\ Change
    /\ target.key \in {{}, {k}}
    /\ live' = [live EXCEPT ![target.panel][k] = r]
    /\ Written

\* Mutant: "y" deletes the rule under the cursor.
ConfirmDeleteAtCursor ==
    /\ mode = "confirm" /\ Change
    /\ \E k \in selectedRule : live' = [live EXCEPT ![focus][k] = NoRule]
    /\ Written

\* "y" at the prompt.
ConfirmDelete ==
    /\ mode = "confirm" /\ Change
    /\ \E k \in target.key : live' = [live EXCEPT ![target.panel][k] = NoRule]
    /\ Written

\* The delete failed: the prompt closes all the same, and nothing is fetched.
DeleteFails ==
    /\ mode = "confirm" /\ Change
    /\ mode' = "view" /\ target' = NoTarget /\ asked' = {}
    /\ err' = TRUE
    /\ UNCHANGED <<live, fetches, last, keys, selected, focus>>

\* The tables with the first n default rules written, a later one over an
\* earlier one of the same key.
WithDefaults(n) ==
    [p \in Panel |-> [k \in Key |->
        LET writes == {i \in 1 .. n : Defaults[i][1] = p /\ Defaults[i][2] = k}
        IN  IF writes = {} THEN live[p][k] ELSE Defaults[Max(writes)][3]]]

\* "t": the default rules, up to the first write that fails.  The writes of this one
\* handler are one step; a fetch beside it is behind or ahead of it by whole tables.
addDefaultRules(n) ==
    /\ mode = "view" /\ Change
    /\ live' = WithDefaults(n)
    /\ IF n = Len(Defaults)
       THEN fetchCmd /\ UNCHANGED err
       ELSE err' = TRUE /\ UNCHANGED fetches
    /\ UNCHANGED <<last, keys, selected, ui>>

\* Another operator's command.
Others ==
    /\ Change
    /\ \E p \in Panel, k \in Key, r \in Rules \cup {NoRule} :
          r # live[p][k] /\ live' = [live EXCEPT ![p][k] = r]
    /\ UNCHANGED <<fetches, data, ui>>

Keys ==
    \/ Tab \/ (\E d \in {-1, 1} : moveSelection(d))
    \/ OpenAdd \/ OpenEdit \/ AskDelete \/ Help \/ Back \/ Quit
    \/ \E k \in Key, r \in FormRules : SubmitForm(k, r)
    \/ ConfirmDelete \/ DeleteFails
    \/ \E n \in 0 .. Len(Defaults) : addDefaultRules(n)

Next ==
    \/ Tick
    \/ \E i \in Slot : Fetch(i) \/ FetchFails(i)
    \/ Keys
    \/ Others

Spec == Init /\ [][Next]_vars

\* The timer is armed again on every tick and a fetch ends; nobody has to
\* press a key.
FairSpec ==
    /\ Spec
    /\ WF_vars(Tick)
    /\ \A i \in Slot : WF_vars(Fetch(i))

-----------------------------------------------------------------------------
(* Properties *)

TypeOK ==
    /\ live \in [Panel -> Table]
    /\ fetches \in [Slot -> [read : SUBSET Panel, tables : [Panel -> Table]]
                               \cup {NoFetch}]
    /\ last \in [Panel -> Table]
    /\ \A p \in Panel : ToSet(keys[p]) \subseteq Key /\ selected[p] \in Nat
    /\ focus \in Panel
    /\ mode \in {"view", "form", "confirm", "help", "quit"}
    /\ err \in BOOLEAN
    /\ changes \in 0 .. MaxChanges

\* The cursor stays on a row while the panel has one, however the rows shrink
\* under it, and that row has a rule to edit.
CursorOnRow ==
    \A p \in Panel : keys[p] # <<>> =>
        /\ selected[p] \in 0 .. Len(keys[p]) - 1
        /\ keys[p][selected[p] + 1] \in Entries(last[p])

\* A form or a prompt acts on the rule that was under the cursor when it was
\* opened, though results delivered meanwhile move the rows: no other entry
\* of the tables changes.
ActsOnTarget ==
    [][(mode \in {"form", "confirm"} /\ mode' = "view" /\ asked # {}) =>
           \A p \in Panel, k \in Key :
               live'[p][k] # live[p][k] => <<p, k>> \in asked]_vars

\* The panels catch up: once nobody changes the tables any more they show
\* them, in whatever order overlapping fetches deliver what they read.
Converges == <>[](mode = "quit" \/ (last = live /\ ~err))

=============================================================================
