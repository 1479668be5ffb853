------------------------------ MODULE E2EScope ------------------------------
(***************************************************************************)
(* manifest-tools resolve-e2e-scope: which end-to-end tests a change needs.*)
(* Every changed file is classified by its path; a change of the file      *)
(* manifests-config.yaml is diffed and its entries attributed to their     *)
(* owners; aliases are followed, ignored and untested names dropped, and   *)
(* the dependencies of what is left added.  Any doubt asks for the full    *)
(* suite.                                                                  *)
(*                                                                         *)
(* An owner is <<kind, name>>.  A path is a record: whether an ignored     *)
(* pattern matches it, whether it is a manifest file, and the name that    *)
(* the first matching pattern of components, and of services, captures.    *)
(* The rules are those of e2e-scope-rules.yaml.  A name that is an alias   *)
(* is not also one of the ignored names.                                   *)
(***************************************************************************)
EXTENDS Naturals, Sequences, FiniteSets, SequencesExt

NoName == ""
NoOwner == <<"none", NoName>>
NoBase == "none"
FullSuite == [ok |-> FALSE, owners |-> {}]
Scope(owners) == [ok |-> TRUE, owners |-> owners]

-----------------------------------------------------------------------------
\* Classification of paths

RegisteredName(rules, kind, n) == n \in DOMAIN rules[kind]

ClassifyPath(rules, path) ==
    LET component(n) == RegisteredName(rules, "component", n)
        service(n) == RegisteredName(rules, "service", n)
        owner(n, isService) ==
            IF n \in rules.frameworkDirs THEN NoOwner ELSE <<IF isService THEN "service" ELSE "component", n>>
    IN  CASE path.component # NoName -> owner(path.component, service(path.component) /\ ~component(path.component))
          [] path.service # NoName   -> owner(path.service, ~component(path.service) \/ service(path.service))
          [] OTHER                   -> NoOwner

ClassifyChangedFile(rules, path) ==
    CASE path.ignored                         -> <<"ignored", NoName>>
      [] path.manifest                        -> <<"manifest", NoName>>
      [] ClassifyPath(rules, path) # NoOwner  -> ClassifyPath(rules, path)
      [] OTHER                                -> <<"shared", NoName>>

-----------------------------------------------------------------------------
\* The change: git's view of it

gitDiffBase(git) ==
    CASE git.pullBaseSHA = "malformed" -> NoBase
      [] git.pullBaseSHA # ""          -> git.pullBaseSHA
      [] git.upstream # NoBase         -> git.upstream
      [] OTHER                         -> git.origin

\* No files stands for every failure too: both ask for the full suite.
changedFiles(git) ==
    LET base == gitDiffBase(git)
    IN  IF base \in {NoBase, git.head} THEN {} ELSE git.diff[base].files

-----------------------------------------------------------------------------
\* The difference of two versions of manifests-config.yaml

Differs(old, new, n) == ~(n \in DOMAIN old \cap DOMAIN new /\ old[n] = new[n])

diffComponents(old, new) == {n \in DOMAIN old \cup DOMAIN new : Differs(old, new, n)}

\* A mistake: the component that loses an override is forgotten.
NewOwnerOnly(old, new) ==
    {[envVar |-> v, component |-> IF v \in DOMAIN new THEN new[v].component ELSE old[v].component] :
        v \in diffComponents(old, new)}

diffImageOverrides(old, new) ==
    LET moved == {v \in DOMAIN old \cap DOMAIN new : old[v].component \notin {NoName, new[v].component}}
        gone == DOMAIN old \ DOMAIN new
    IN  {[envVar |-> v, component |-> new[v].component] : v \in {w \in DOMAIN new : Differs(old, new, w)}}
        \cup {[envVar |-> v, component |-> old[v].component] : v \in moved \cup gone}

ChangedNames(old, new) ==
    LET overrides == diffImageOverrides(old.imageOverrides, new.imageOverrides)
        sections == {"components", "ccmCharts", "componentCharts"}
    IN  [names |-> UNION {diffComponents(old[s], new[s]) : s \in sections}
                   \cup ({o.component : o \in overrides} \ {NoName}),
         unattributedEnvVars |-> {o.envVar : o \in {p \in overrides : p.component = NoName}},
         platformManifestsChanged |-> old.platformManifests # new.platformManifests]

\* The files of the repository that are searched: Go sources, no tests, not
\* below bin, build and opt.  One that cannot be read is skipped.
findOwnersBySourceReference(rules, repo, v) ==
    {ClassifyPath(rules, f.path) : f \in {g \in repo.files : g.searched /\ g.readable /\ v \in g.mentions}} \ {NoOwner}

ResolveUnattributedEnvVars(rules, repo, envVars) ==
    LET owners(v) == findOwnersBySourceReference(rules, repo, v)
    IN  IF ~repo.walkable \/ \E v \in envVars : owners(v) = {} THEN FullSuite
        ELSE Scope(UNION {owners(v) : v \in envVars})

\* The old version is the one at the diff base.
ResolveManifestNames(rules, repo, old, new) ==
    LET diff == ChangedNames(old, new)
        attributed == IF diff.unattributedEnvVars = {} THEN Scope({})
                      ELSE ResolveUnattributedEnvVars(rules, repo, diff.unattributedEnvVars)
        owners == ({"component"} \X diff.names) \cup attributed.owners
    IN  IF ~(old.parses /\ new.parses) \/ diff.platformManifestsChanged \/ ~attributed.ok \/ owners = {}
        THEN FullSuite ELSE Scope(owners)

-----------------------------------------------------------------------------
\* From names to what can be selected

Declares(entries, c, alias) == alias \in entries[c].aliases

\* aliasMap refuses an alias that is itself an entry or that two entries declare.
AliasesClear(entries) ==
    \A c \in DOMAIN entries : \A alias \in entries[c].aliases :
        alias \notin DOMAIN entries /\ \A d \in DOMAIN entries : Declares(entries, d, alias) => d = c

Canonical(entries, n) ==
    IF \E c \in DOMAIN entries : Declares(entries, c, n)
    THEN CHOOSE c \in DOMAIN entries : Declares(entries, c, n) ELSE n

ResolveName(rules, kind, n) ==
    LET c == Canonical(rules[kind], n)
        ignored == c \in rules.ignoredNames
        entry == RegisteredName(rules, kind, c)
    IN  [owner |-> <<kind, c>>, known |-> ignored \/ entry, drop |-> ignored \/ (entry /\ ~rules[kind][c].covered)]

filterAndValidate(rules, raw) ==
    LET resolved == {ResolveName(rules, o[1], o[2]) : o \in raw}
    IN  IF \E r \in resolved : ~r.known THEN FullSuite
        ELSE Scope({r.owner : r \in {x \in resolved : ~x.drop}})

DependenciesOf(rules, n) ==
    UNION {IF RegisteredName(rules, kind, n) THEN ToSet(rules[kind][n].deps) ELSE {} : kind \in {"component", "service"}}

\* A dependency is looked up among the components, then among the services.
ResolveDependency(rules, d) ==
    LET c == ResolveName(rules, "component", d)
    IN  IF c.known THEN c ELSE ResolveName(rules, "service", d)

\* A mistake: the dependencies of a dependency are not followed.
OneLevel(rules, selected, pending) ==
    LET found == {ResolveDependency(rules, d) : d \in UNION {DependenciesOf(rules, n) : n \in ToSet(pending)}}
    IN  IF \E r \in found : ~r.known THEN FullSuite
        ELSE Scope(selected \cup {r.owner : r \in {x \in found : ~x.drop}})

\* pending holds the names whose dependencies have not been looked at.
RECURSIVE expandDependencies(_, _, _)
expandDependencies(rules, selected, pending) ==
    IF pending = <<>> THEN Scope(selected)
    ELSE LET found == {ResolveDependency(rules, d) : d \in DependenciesOf(rules, Last(pending))}
             added == {r.owner : r \in {x \in found : ~x.drop}} \ selected
         IN  IF \E r \in found : ~r.known THEN FullSuite
             ELSE expandDependencies(rules, selected \cup added,
                                     Front(pending) \o SetToSeq({o[2] : o \in added}))

\* Go iterates over a map in any order; the components are pending before the
\* services.
Orders == {"forward", "backward"}
NamesOfKind(owners, kind) == SetToSeq({o[2] : o \in {p \in owners : p[1] = kind}})
PendingIn(order, owners) ==
    LET names(kind) == IF order = "forward" THEN NamesOfKind(owners, kind) ELSE Reverse(NamesOfKind(owners, kind))
    IN  names("component") \o names("service")

ResolveScope(rules, files, old, new, repo, order) ==
    LET kinds == {ClassifyChangedFile(rules, f) : f \in files}
        manifest == IF <<"manifest", NoName>> \in kinds THEN ResolveManifestNames(rules, repo, old, new) ELSE Scope({})
        direct == filterAndValidate(rules, {k \in kinds : k[1] \in {"component", "service"}} \cup manifest.owners)
    IN  IF \/ files = {} \/ <<"shared", NoName>> \in kinds \/ ~manifest.ok
           \/ ~AliasesClear(rules.component) \/ ~AliasesClear(rules.service) \/ ~direct.ok
        THEN FullSuite ELSE expandDependencies(rules, direct.owners, PendingIn(order, direct.owners))

runResolveE2EScope(rules, git, repo, order) ==
    IF changedFiles(git) = {} THEN FullSuite
    ELSE ResolveScope(rules, changedFiles(git), git.diff[gitDiffBase(git)].config, git.config, repo, order)

-----------------------------------------------------------------------------
\* What a scope promises

\* The change that touches the file f only.
OnlyFile(git, f) == [git EXCEPT !.diff[gitDiffBase(git)].files = {f}]

\* Both sides of an override that moved count, and, for one that is nobody's now
\* or was when it went, every source file that mentions it and can be read.
TouchedByConfig(rules, old, new, repo) ==
    LET sections == {"components", "ccmCharts", "componentCharts"}
        changed(s) == {n \in DOMAIN old[s] \cup DOMAIN new[s] : Differs(old[s], new[s], n)}
        sides(v) == {c[v].component : c \in {x \in {old.imageOverrides, new.imageOverrides} : v \in DOMAIN x}}
        latest(v) == IF v \in DOMAIN new.imageOverrides THEN new.imageOverrides[v] ELSE old.imageOverrides[v]
        nobodys == {v \in changed("imageOverrides") : latest(v).component = NoName}
    IN  {<<"component", n>> : n \in UNION {changed(s) : s \in sections}}
        \cup {<<"component", n>> : n \in UNION {sides(v) : v \in changed("imageOverrides")} \ {NoName}}
        \cup ({ClassifyPath(rules, f.path) :
                 f \in {g \in repo.files : g.searched /\ g.readable /\ g.mentions \cap nobodys # {}}} \ {NoOwner})

Touched(rules, git, repo) ==
    LET live == {f \in changedFiles(git) : ~f.ignored}
    IN  {ClassifyPath(rules, f) : f \in {g \in live : ~g.manifest}}
        \cup IF \E f \in live : f.manifest
             THEN TouchedByConfig(rules, git.diff[gitDiffBase(git)].config, git.config, repo) ELSE {}

\* The rules exclude an owner from selection: ignored, or without tests.
Excluded(rules, o) ==
    \/ o[2] \in rules.ignoredNames
    \/ RegisteredName(rules, o[1], o[2]) /\ ~rules[o[1]][o[2]].covered

Follows(rules, X) ==
    \A o \in X : \A d \in DependenciesOf(rules, o[2]) :
        LET r == ResolveDependency(rules, d).owner IN r \in X \/ Excluded(rules, r)

Canonicals(rules) == UNION {{kind} \X DOMAIN rules[kind] : kind \in {"component", "service"}}

(* ScopeIsSafe: a scope that resolve-e2e-scope gives leaves nothing out and nothing
   in: it is the least set of testable owners that has everything the change
   touches, through its alias, and everything that one of its members depends on,
   whatever the order of the worklist; and a change asks for the full suite exactly
   when one of its files does, its scope being the union of theirs. *)
ScopeIsSafe(rules, git, repo) ==
    LET scope == runResolveE2EScope(rules, git, repo, "forward")
        touched == Touched(rules, git, repo)
        targets == {<<o[1], Canonical(rules[o[1]], o[2])>> : o \in touched \ {NoOwner}}
        direct == {t \in targets : ~Excluded(rules, t)}
        files == changedFiles(git)
        single(f) == runResolveE2EScope(rules, OnlyFile(git, f), repo, "forward")
    IN  /\ \A o \in Orders : runResolveE2EScope(rules, git, repo, o) = scope
        /\ scope.ok =>
             /\ files # {} /\ NoOwner \notin touched
             /\ \A o \in scope.owners : o \in Canonicals(rules) /\ ~Excluded(rules, o)
             /\ direct \subseteq scope.owners /\ Follows(rules, scope.owners)
             /\ \A X \in SUBSET scope.owners : direct \subseteq X /\ Follows(rules, X) => X = scope.owners
        /\ files # {} => /\ scope.ok <=> \A f \in files : single(f).ok
                         /\ scope.ok => scope.owners = UNION {single(f).owners : f \in files}

=============================================================================
