------------------------------ MODULE Registries ------------------------------
(***************************************************************************)
(* The component registry, the module registry and the unified registry    *)
(* that orders both.  Each keeps its entries and a cache of the batches    *)
(* they resolve to.  main registers every handler with a few calls; later  *)
(* on goroutines ask for batches, finding the cache empty under the read   *)
(* lock and filling it under the write lock.                               *)
(*                                                                         *)
(* The program registers and suppresses everything before it starts its    *)
(* controllers.  The registries promise more, and the model asks for it:   *)
(* their locks let handlers come and be switched while others ask.         *)
(***************************************************************************)
EXTENDS Naturals, Sequences

CONSTANTS
    ComponentNames, ModuleNames,  \* numbers in the order of the alphabet
    Readers,                      \* goroutines that ask for batches
    BatchesOf(_, _),              \* what entries and the names in use resolve to
    RegEvents                     \* bound on registrations and switches

ASSUME NamesAssumption == ComponentNames \cap ModuleNames = {}

VARIABLE reg

Kinds == {"component", "module"}
NamesOf(kind) == IF kind = "component" THEN ComponentNames ELSE ModuleNames
Lists == Kinds \cup {"unified"}
AllNames == ComponentNames \cup ModuleNames
Runlevels == {20, 31}

NotRegistered == [is |-> "absent"]
Entry(level) == [is |-> "entry", on |-> TRUE, level |-> level]
NoBatches == <<>>

-----------------------------------------------------------------------------
\* The registries

Enabled(entries) == {n \in DOMAIN entries : entries[n] # NotRegistered /\ entries[n].on}

InvalidateCache(r) == [r EXCEPT !.cache["unified"] = NoBatches]

\* A mistake: the cache of the changed registry survives.
EnabledOnly(r, list, name, on) ==
    IF r.entries[list][name] = NotRegistered THEN r
    ELSE InvalidateCache([r EXCEPT !.entries[list][name].on = on])

setEnabledLocked(r, list, name, on) ==
    IF r.entries[list][name] = NotRegistered THEN r
    ELSE InvalidateCache([r EXCEPT !.entries[list][name].on = on, !.cache[list] = NoBatches])

AddToRegistry(r, list, name, level) ==
    InvalidateCache([r EXCEPT !.entries[list][name] = Entry(level), !.cache[list] = NoBatches])

\* An entry of the unified registry is in its registry too.
Calls(kind, name, level, on) ==
    LET add(list) == [do |-> "add", list |-> list, name |-> name, level |-> level]
        disable(list) == [do |-> "disable", list |-> list, name |-> name]
    IN  IF on THEN <<add(kind), add("unified")>>
        ELSE <<add(kind), add("unified"), disable(kind), disable("unified")>>

\* A mistake: a suppressed module stays in the unified order.
WithoutUnified(kind, name, level, on) ==
    SelectSeq(Calls(kind, name, level, on), LAMBDA c : c.do = "add" \/ c.list # "unified")

registerModules(kind, name, level, on) == Calls(kind, name, level, on)

\* main registers one handler after the other, with a flag that may suppress
\* it.
RegisterHandler ==
    /\ reg.calls = <<>> /\ reg.events < RegEvents
    /\ \E kind \in Kinds : \E name \in NamesOf(kind), level \in Runlevels, on \in BOOLEAN :
        /\ reg.entries[kind][name] = NotRegistered
        /\ reg' = [reg EXCEPT !.calls = registerModules(kind, name, level, on), !.events = @ + 1]

NextCall ==
    /\ reg.calls # <<>>
    /\ LET c == Head(reg.calls)
       IN  reg' = [IF c.do = "add" THEN AddToRegistry(reg, c.list, c.name, c.level)
                   ELSE setEnabledLocked(reg, c.list, c.name, FALSE)
                   EXCEPT !.calls = Tail(@)]

\* Enable and Disable of a registry and of the unified one, as callers pair
\* them.
SwitchHandler ==
    /\ reg.calls = <<>> /\ reg.events < RegEvents
    /\ \E kind \in Kinds : \E name \in NamesOf(kind), on \in BOOLEAN :
        reg' = [setEnabledLocked(setEnabledLocked(reg, kind, name, on), "unified", name, on)
                EXCEPT !.events = @ + 1]

\* ResolvedBatches: a cached answer is given under the read lock; otherwise the
\* lock is let go, and the answer computed under the write lock unless another
\* goroutine has done so.
AskHit(g, list) ==
    /\ reg.reader[g] = "idle" /\ reg.cache[list] # NoBatches
    /\ reg' = [reg EXCEPT !.answer[g] = [list |-> list, batches |-> reg.cache[list]]]

AskMiss(g, list) ==
    /\ reg.reader[g] = "idle" /\ reg.cache[list] = NoBatches
    /\ reg' = [reg EXCEPT !.reader[g] = list, !.answer[g] = [list |-> "none", batches |-> NoBatches]]

resolvedBatchesLocked(r, list) ==
    IF r.cache[list] # NoBatches THEN r
    ELSE [r EXCEPT !.cache[list] = BatchesOf(r.entries[list], Enabled(r.entries[list]))]

ResolvedBatches(g) ==
    /\ reg.reader[g] # "idle"
    /\ LET filled == resolvedBatchesLocked(reg, reg.reader[g])
       IN  reg' = [filled EXCEPT !.reader[g] = "idle",
                                 !.answer[g] = [list |-> reg.reader[g],
                                                batches |-> filled.cache[reg.reader[g]]]]

\* ForEach of the components resolves and caches under the read lock, which
\* keeps registrations out.  The first call is made by main, alone; the later
\* ones find the cache filled, so that no two ever store it at a time.
ForEach(g) ==
    /\ reg.reader[g] = "idle"
    /\ LET filled == resolvedBatchesLocked(reg, "component")
       IN  reg' = [filled EXCEPT !.answer[g] = [list |-> "component", batches |-> filled.cache["component"]]]

RegInit ==
    reg = [entries |-> [l \in Lists |-> [n \in IF l = "unified" THEN AllNames ELSE NamesOf(l)
                                            |-> NotRegistered]],
           cache |-> [l \in Lists |-> NoBatches], calls |-> <<>>, events |-> 0,
           reader |-> [g \in Readers |-> "idle"],
           answer |-> [g \in Readers |-> [list |-> "none", batches |-> NoBatches]]]

RegNext ==
    \/ RegisterHandler \/ NextCall \/ SwitchHandler
    \/ \E g \in Readers : ForEach(g) \/ ResolvedBatches(g) \/ \E l \in Lists : AskHit(g, l) \/ AskMiss(g, l)

RegSpec == RegInit /\ [][RegNext]_reg

-----------------------------------------------------------------------------
\* Properties

\* No answer a goroutine is handed is older than the entries at the moment it
\* is given: the window between the two locks loses no registration and no
\* switch (the double check of ResolvedBatches).
AnswersAreCurrent ==
    [][\A g \in Readers : reg'.answer[g] # reg.answer[g] /\ reg'.answer[g].list # "none" =>
        reg'.answer[g].batches = BatchesOf(reg'.entries[reg'.answer[g].list],
                                           Enabled(reg'.entries[reg'.answer[g].list]))]_reg

\* While no registration is under way, each entry of a registry is in the
\* unified one, with its runlevel and its flag (registerModules,
\* registerComponents).
UnifiedAgrees ==
    reg.calls = <<>> =>
        \A kind \in Kinds : \A n \in NamesOf(kind) :
            reg.entries["unified"][n] = reg.entries[kind][n]

=============================================================================
