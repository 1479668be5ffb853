---------------------------- MODULE RegistryOrder ----------------------------
(***************************************************************************)
(* The order in which the registries' entries are provisioned and, in      *)
(* reverse, cleaned up: by runlevel, and by name within a runlevel.        *)
(***************************************************************************)
EXTENDS Registries, FiniteSets, FiniteSetsExt, SequencesExt

-----------------------------------------------------------------------------
\* The graph

groupByRunlevel(entries, names) ==
    [l \in {entries[n].level : n \in names} |-> {n \in names : entries[n].level = l}]

Ascending(names) == SetToSortSeq(names, LAMBDA a, b : a < b)

Registered(entries) == {n \in DOMAIN entries : entries[n] # NotRegistered}

Resolve(entries, names) ==
    LET groups == groupByRunlevel(entries, names)
        levels == Ascending(DOMAIN groups)
    IN  [k \in 1 .. Len(levels) |-> Ascending(groups[levels[k]])]

GraphReverseBatches(entries, names) ==
    LET batches == Reverse(Resolve(entries, names))
    IN  [k \in 1 .. Len(batches) |-> Reverse(batches[k])]

ReverseBatches(entries) == GraphReverseBatches(entries, Enabled(entries))
ReverseBatchesAll(entries) == GraphReverseBatches(entries, Registered(entries))

-----------------------------------------------------------------------------
\* Properties

\* While no registration is under way, the unified order holds the enabled
\* entries of both registries, at their runlevels and once each, and its
\* reverse for cleanup also the suppressed ones (registerModules,
\* registerComponents).
UnifiedIsBoth ==
    reg.calls = <<>> =>
        LET all == reg.entries["unified"]
            order == FlattenSeq(Resolve(all, Enabled(all)))
        IN  /\ UnifiedAgrees
            /\ ToSet(order) = UNION {Enabled(reg.entries[kind]) : kind \in Kinds}
            /\ IsInjective(order)
            /\ ToSet(FlattenSeq(ReverseBatchesAll(all))) = Registered(all)
            /\ FlattenSeq(ReverseBatches(all)) = Reverse(order)

=============================================================================
