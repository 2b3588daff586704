----------------------------- MODULE GluonBuild -----------------------------
(*****************************************************************************)
(* The build tool: its crate graph, vendored sources, model cache, incremental*)
(* builds and test runs.                                                     *)
(*****************************************************************************)
EXTENDS Sequences, FiniteSets, SequencesExt, Integers

-----------------------------------------------------------------------------
(***************************************************************************)
(* From the build model to what is built: validate_model, the inheritance of   *)
(* profiles and presets, resolve_options, and the order of the crates          *)
(* (crates/tools/gluon/src/validate.rs, config.rs, crate_graph.rs). A name      *)
(* that may be absent is <<>> or <<name>>; a value is <<type, value>>.           *)
(***************************************************************************)
CONSTANT GmModels    \* the models the script may give

VARIABLES
    gmModel,    \* the model
    gmPc,       \* "validate", "sort", "options", "built", "failed"
    gmWhy,      \* why it failed
    gmWork,     \* sets of crates still to be sorted: the targets', the groups'
    gmDegree,   \* in_degree of the set being sorted
    gmReady,    \* the queue (its order is a hash table's)
    gmOut,      \* sorted_names
    gmOptions,  \* the resolved options
    gmAll       \* all_crates

gmVars == <<gmModel, gmPc, gmWhy, gmWork, gmDegree, gmReady, gmOut, gmOptions, gmAll>>

Known(opt, names) == \A i \in DOMAIN opt : opt[i] \in names

\* Overlay: what extend does with two maps.
Extend(old, new) == [k \in DOMAIN old \cup DOMAIN new |-> IF k \in DOMAIN new THEN new[k] ELSE old[k]]

-----------------------------------------------------------------------------
\* validate_config_options.
ValidOption(m, o) ==
    /\ o.ty # "group" => o.default[1] = o.ty
    /\ o.range # <<>> => o.ty = "num" /\ o.range[1] <= o.range[2]
    /\ IF o.ty = "choice" THEN o.choices # {} /\ o.default[2] \in o.choices ELSE o.choices = {}
    /\ o.depends \cup o.selects \subseteq DOMAIN m.options
    /\ Known(o.prefix, {n \in DOMAIN m.options : m.options[n].ty = "group"})

\* The walk along inherits from each name: it must not come by a name twice, and
\* not leave the table.
RECURSIVE ChainEnds(_, _, _)
ChainEnds(table, name, visited) ==
    /\ name \notin visited /\ name \in DOMAIN table
    /\ table[name].inherits # <<>> => ChainEnds(table, table[name].inherits[1], visited \cup {name})

ValidPresets(m) ==
    /\ \A p \in DOMAIN m.presets :
          /\ Known(m.presets[p].inherits, DOMAIN m.presets)
          /\ DOMAIN m.presets[p].overrides \subseteq DOMAIN m.options
          /\ ChainEnds(m.presets, p, {})

ValidProfiles(m) ==
    /\ "default" \in DOMAIN m.profiles
    /\ \A p \in DOMAIN m.profiles :
          /\ ChainEnds(m.profiles, p, {})
          /\ Known(m.profiles[p].preset, DOMAIN m.presets)
          /\ DOMAIN m.profiles[p].config \subseteq DOMAIN m.options

ValidGroups(m) ==
    \A g \in DOMAIN m.groups :
        /\ m.groups[g].target = "host" \/ m.groups[g].target \in ToSet(m.targets)
        /\ ToSet(m.groups[g].crates) \subseteq DOMAIN m.crates

\* The part of validate_crates that is not about cycles.
ValidCrates(m) ==
    \A c \in DOMAIN m.crates :
        ToSet(m.crates[c].deps) \cup m.crates[c].devDeps \subseteq DOMAIN m.crates \cup m.externals

ValidRules(m) ==
    \A r \in DOMAIN m.rules : m.rules[r].inputs \subseteq DOMAIN m.crates /\ m.rules[r].depends \subseteq DOMAIN m.rules

ValidPipeline(m) ==
    /\ m.pipeline # <<>>
    /\ \A i \in DOMAIN m.pipeline :
          CASE m.pipeline[i].kind = "stage" -> ToSet(m.pipeline[i].names) \subseteq DOMAIN m.groups
            [] m.pipeline[i].kind = "rule" -> ToSet(m.pipeline[i].names) \subseteq DOMAIN m.rules
            [] OTHER -> TRUE

ValidTests(m) ==
    /\ m.tests.host \subseteq DOMAIN m.crates
    /\ m.tests.kernel # <<>> =>
          /\ m.tests.kernel[1] \in DOMAIN m.crates /\ m.crates[m.tests.kernel[1]].devDeps # {}
          /\ m.tests.dir /\ m.tests.script

\* validate_model; the cycles among the crates of a target come after it.
ValidModel(m) ==
    /\ \A n \in DOMAIN m.options : ValidOption(m, m.options[n])
    /\ ValidPresets(m) /\ ValidProfiles(m) /\ ValidGroups(m) /\ ValidCrates(m)
    /\ ValidRules(m) /\ ValidPipeline(m) /\ ValidTests(m)

-----------------------------------------------------------------------------
\* resolve_preset and collect_profile_config, the parent's values first. The
\* recursion is cut after as many levels as there are names.
RECURSIVE PresetValues(_, _, _)
PresetValues(m, name, fuel) ==
    IF fuel = 0 THEN [endless |-> TRUE]
    ELSE Extend(IF m.presets[name].inherits = <<>> THEN <<>>
                ELSE PresetValues(m, m.presets[name].inherits[1], fuel - 1),
                m.presets[name].overrides)

RECURSIVE ProfileValues(_, _, _)
ProfileValues(m, name, fuel) ==
    LET p == m.profiles[name]
        parent == IF p.inherits = <<>> THEN <<>> ELSE ProfileValues(m, p.inherits[1], fuel - 1)
        preset == IF p.preset = <<>> THEN <<>> ELSE PresetValues(m, p.preset[1], Cardinality(DOMAIN m.presets))
    IN  IF fuel = 0 THEN [endless |-> TRUE] ELSE Extend(Extend(parent, preset), p.config)

\* resolve_profile: what a profile does not say it takes from its parent (here
\* for the target; the other fields go the same way).
RECURSIVE ProfileTarget(_, _, _)
ProfileTarget(m, name, fuel) ==
    IF m.profiles[name].target # <<>> THEN m.profiles[name].target[1]
    ELSE IF m.profiles[name].inherits = <<>> \/ fuel = 0 THEN Head(m.targets)
    ELSE ProfileTarget(m, m.profiles[name].inherits[1], fuel - 1)

\* resolve_options: the override or the default, of the declared type, within
\* its range, among its choices. A group has no value.
ValueFits(o, v) ==
    /\ v[1] = o.ty
    /\ o.range # <<>> => v[2] \in o.range[1]..o.range[2]
    /\ o.choices # {} => v[2] \in o.choices

Overrides(m) ==
    Extend(ProfileValues(m, m.profile, Cardinality(DOMAIN m.profiles)), m.file)

ResolvedOptions(m) ==
    LET over == Overrides(m)
    IN  [n \in {x \in DOMAIN m.options : m.options[x].ty # "group"} |->
            IF n \in DOMAIN over THEN over[n] ELSE m.options[n].default]

-----------------------------------------------------------------------------
GmInit ==
    /\ gmModel \in GmModels
    /\ gmPc = "validate" /\ gmWhy = "-" /\ gmWork = <<>> /\ gmDegree = <<>> /\ gmReady = {}
    /\ gmOut = <<>> /\ gmOptions = <<>> /\ gmAll = <<>>

Job(phase, crates, group) == [phase |-> phase, crates |-> crates, group |-> group]

TargetJobs(m) ==
    SetToSeq({Job("validate", {c \in DOMAIN m.crates : m.crates[c].target = t}, "-") :
                 t \in {m.crates[c].target : c \in DOMAIN m.crates}})

Validate ==
    /\ gmPc = "validate"
    /\ IF ValidModel(gmModel)
       THEN gmPc' = "sort" /\ gmWork' = TargetJobs(gmModel) /\ UNCHANGED gmWhy
       ELSE gmPc' = "failed" /\ gmWhy' = "invalid" /\ UNCHANGED gmWork
    /\ UNCHANGED <<gmModel, gmDegree, gmReady, gmOut, gmOptions, gmAll>>

\* Counting: one for every dependency within the set, twice if it has two names.
Degree(c, set) == Len(SelectSeq(gmModel.crates[c].deps, LAMBDA d : d \in set))

SortBegin ==
    /\ gmPc = "sort" /\ gmWork # <<>>
    /\ LET set == gmWork[1].crates
       IN  /\ gmDegree' = [c \in set |-> Degree(c, set)]
           /\ gmReady' = {c \in set : Degree(c, set) = 0}
    /\ gmOut' = <<>> /\ gmPc' = "sorting"
    /\ UNCHANGED <<gmModel, gmWhy, gmWork, gmOptions, gmAll>>

\* How often c is listed among the dependents of d.
CountDown(c, d) == Len(SelectSeq(gmModel.crates[c].deps, LAMBDA x : x = d))

SortStep(d) ==
    /\ gmPc = "sorting" /\ d \in gmReady
    /\ gmOut' = Append(gmOut, d)
    /\ gmDegree' = [c \in DOMAIN gmDegree |-> gmDegree[c] - CountDown(c, d)]
    /\ gmReady' = (gmReady \ {d}) \cup {c \in DOMAIN gmDegree : gmDegree[c] > 0 /\ gmDegree'[c] = 0}
    /\ UNCHANGED <<gmModel, gmPc, gmWhy, gmWork, gmOptions, gmAll>>

\* resolve_all_groups takes a group's crates in order, without those of the
\* system library, those whose configuration is off and those it has already.
Gated(c) ==
    \E r \in gmModel.crates[c].requires : ~(r \in DOMAIN gmOptions /\ gmOptions[r] = <<"bool", TRUE>>)

Taken(sorted) ==
    SelectSeq(sorted, LAMBDA c : ~gmModel.crates[c].sysroot /\ ~Gated(c) /\ c \notin ToSet(gmAll))

GroupJobs(m) ==
    LET stages == SelectSeq(m.pipeline, LAMBDA s : s.kind = "stage")
        groups == FlattenSeq([i \in DOMAIN stages |-> stages[i].names])
    IN  [i \in DOMAIN groups |-> Job("build", ToSet(m.groups[groups[i]].crates), groups[i])]

\* A set is sorted; a cycle leaves some out. After the targets the options are
\* resolved, after the groups all is known.
SortEnd ==
    /\ gmPc = "sorting" /\ gmReady = {}
    /\ gmWork' = Tail(gmWork)
    /\ gmAll' = IF gmWork[1].phase = "build" THEN gmAll \o Taken(gmOut) ELSE gmAll
    /\ IF Len(gmOut) # Cardinality(gmWork[1].crates)
       THEN gmPc' = "failed" /\ gmWhy' = "cycle"
       ELSE /\ gmPc' = IF Len(gmWork) > 1 THEN "sort"
                      ELSE IF gmWork[1].phase = "validate" THEN "options" ELSE "built"
            /\ UNCHANGED gmWhy
    /\ UNCHANGED <<gmModel, gmDegree, gmReady, gmOut, gmOptions>>

\* resolve_from_model.
ResolveOptions ==
    /\ gmPc = "options"
    /\ LET m == gmModel
           options == ResolvedOptions(m)
           why == IF m.profile \notin DOMAIN m.profiles THEN "profile"
                  ELSE IF ProfileTarget(m, m.profile, Cardinality(DOMAIN m.profiles)) \notin ToSet(m.targets) THEN "target"
                  ELSE IF \E n \in DOMAIN options : ~ValueFits(m.options[n], options[n]) THEN "value"
                  ELSE "-"
       IN  /\ gmWhy' = why
           /\ gmPc' = IF why # "-" THEN "failed" ELSE IF GroupJobs(m) = <<>> THEN "built" ELSE "sort"
           /\ gmOptions' = IF why = "-" THEN options ELSE <<>>
           /\ gmWork' = GroupJobs(m)
    /\ UNCHANGED <<gmModel, gmDegree, gmReady, gmOut, gmAll>>

GmNext == Validate \/ SortBegin \/ (\E d \in gmReady : SortStep(d)) \/ SortEnd \/ ResolveOptions

GmSpec == GmInit /\ [][GmNext]_gmVars

-----------------------------------------------------------------------------
\* Reference: the crates that depend on themselves through crates of the set.
RECURSIVE DependsOn(_, _, _)
DependsOn(m, set, reached) ==
    LET more == reached \cup {d \in set : \E c \in reached : d \in ToSet(m.crates[c].deps)}
    IN  IF more = reached THEN reached ELSE DependsOn(m, set, more)

Cyclic(m, set) ==
    \E c \in set : c \in DependsOn(m, set, {d \in set : d \in ToSet(m.crates[c].deps)})

\* "cycle" is the answer exactly when there is one among the crates sorted; a
\* group of a valid model whose crates are of one target never has one.
CyclesFound ==
    /\ gmPc = "failed" /\ gmWhy = "cycle" =>
          \E t \in ToSet(gmModel.targets) \cup {"host"} :
              Cyclic(gmModel, {c \in DOMAIN gmModel.crates : gmModel.crates[c].target = t})
    /\ gmPc \in {"options", "built"} =>
          \A g \in DOMAIN gmModel.groups : ~Cyclic(gmModel, ToSet(gmModel.groups[g].crates))

\* What is built has every crate of the groups of the pipeline once, those of the
\* system library and those switched off excepted, and each of them after those
\* of its dependencies that are in the same group.
OrderRight ==
    gmPc = "built" =>
        /\ \A i, j \in DOMAIN gmAll : gmAll[i] = gmAll[j] => i = j
        /\ ToSet(gmAll) = {c \in UNION {j.crates : j \in ToSet(GroupJobs(gmModel))} :
                               ~gmModel.crates[c].sysroot /\ ~Gated(c)}
        /\ \A g \in DOMAIN gmModel.groups : \A i, j \in DOMAIN gmAll :
              /\ {gmAll[i], gmAll[j]} \subseteq ToSet(gmModel.groups[g].crates)
              /\ gmAll[i] \in ToSet(gmModel.crates[gmAll[j]].deps)
              => i < j

\* Reference: the override maps from the nearest to the farthest: the file, then
\* each profile along its chain with its presets along theirs.
RECURSIVE PresetMaps(_, _, _)
PresetMaps(m, opt, fuel) ==
    IF opt = <<>> \/ fuel = 0 THEN <<>>
    ELSE <<m.presets[opt[1]].overrides>> \o PresetMaps(m, m.presets[opt[1]].inherits, fuel - 1)

RECURSIVE ProfileMaps(_, _, _)
ProfileMaps(m, opt, fuel) ==
    IF opt = <<>> \/ fuel = 0 THEN <<>>
    ELSE <<m.profiles[opt[1]].config>> \o PresetMaps(m, m.profiles[opt[1]].preset, 9)
             \o ProfileMaps(m, m.profiles[opt[1]].inherits, fuel - 1)

\* Every option of what is built has the value of the nearest map that gives it
\* one, and no walk along inherits was endless.
NearestWins ==
    gmPc = "built" =>
        LET maps == <<gmModel.file>> \o ProfileMaps(gmModel, <<gmModel.profile>>, 9)
        IN  /\ "endless" \notin DOMAIN Overrides(gmModel)
            /\ \A n \in DOMAIN gmOptions :
                  LET has == {i \in DOMAIN maps : n \in DOMAIN maps[i]}
                  IN  gmOptions[n] = IF has = {} THEN gmModel.options[n].default ELSE maps[Min(has)][n]

-----------------------------------------------------------------------------
(***************************************************************************)
(* Vendoring in gluon (crates/tools/gluon/src/vendor.rs): resolve_transitive   *)
(* walks the manifests under vendor/ with a queue, ensure_vendored downloads    *)
(* what is missing and walks again, the lock file pins versions. The registry   *)
(* and the manifests in it are external. One major version of a crate is in     *)
(* use at a time; no crate's name is a prefix of another's.                     *)
(***************************************************************************)
CONSTANTS
    VnManifests,    \* crate -> version -> [deps, features, default]
    VnRoots,        \* sequence of [name, req, features] the build asks for
    VnPublished,    \* versions the registry lists at first: crate -> set
    VnBatch,        \* downloads at a time
    VnBudget        \* bounds: [runs, fails, publishes, removes]

VARIABLES
    vnListed,   \* what the registry lists now
    vnDir,      \* vendor/: crate -> [version -> "ok" or "corrupt"]
    vnLock,     \* gluon.lock: crate -> version
    vnPc,       \* "idle", "roots", "walk", "fetch", "ok", "failed"
    vnRound,    \* iteration of ensure_vendored
    vnQueue,    \* queue of resolve_transitive
    vnResolved, \* crate -> [version, features]
    vnFetch,    \* what is to be downloaded in this iteration
    vnKept,     \* the lock as the last successful run left it
    vnLeft

vnVars == <<vnListed, vnDir, vnLock, vnPc, vnRound, vnQueue, vnResolved, vnFetch, vnKept, vnLeft>>

MaxIterations == 10

GvPut(f, x, v) == [y \in DOMAIN f \cup {x} |-> IF y = x THEN v ELSE f[y]]

-----------------------------------------------------------------------------
\* Versions are <<major, minor>>; a requirement is a version and whether it is
\* exact.
Newer(a, b) == a[1] > b[1] \/ (a[1] = b[1] /\ a[2] > b[2])

Compatible(a, b) == a[1] = b[1] /\ (a[1] = 0 => a[2] = b[2])

GvMatches(req, v) == IF req.exact THEN v = req.version ELSE Compatible(req.version, v) /\ ~Newer(req.version, v)

Newest(versions) == CHOOSE v \in versions : \A w \in versions : ~Newer(w, v)

\* resolve_version_with_lock: an exact version as it is, the locked one if it
\* matches, the newest that matches otherwise (<<>>: none).
ResolveVersion(name, req) ==
    LET matching == {v \in vnListed[name] : GvMatches(req, v)}
    IN  IF req.exact THEN req.version
        ELSE IF name \in DOMAIN vnLock /\ GvMatches(req, vnLock[name]) THEN vnLock[name]
        ELSE IF matching = {} THEN <<>> ELSE Newest(matching)

\* find_vendor_dir: the exact directory, else any directory of the crate.
VendorDir(name, v) ==
    LET whole == {w \in DOMAIN vnDir[name] : vnDir[name][w] = "ok"}
    IN  IF v \in whole THEN v ELSE IF whole # {} THEN CHOOSE w \in whole : TRUE ELSE <<>>

Present(name, v) == VendorDir(name, v) # <<>>

\* compute_activated_features: what the requested features reach in the table.
RECURSIVE Reach(_, _)
Reach(table, feats) ==
    LET more == feats \cup UNION {table[f] : f \in feats \cap DOMAIN table}
    IN  IF more = feats THEN feats ELSE Reach(table, more)

Activated(manifest, requested) ==
    Reach(manifest.features,
          (requested \ {"__default__"}) \cup (IF "__default__" \in requested THEN manifest.default ELSE {}))

\* An optional dependency is in when its name or its dep: feature is.
Active(dep, activated) == ~dep.optional \/ dep.name \in activated \/ dep.gate \in activated

Requests(dep) == dep.features \cup (IF dep.defaults THEN {"__default__"} ELSE {})

-----------------------------------------------------------------------------
VnInit ==
    /\ vnListed = VnPublished
    /\ vnDir = [c \in DOMAIN VnManifests |-> <<>>]
    /\ vnLock = <<>> /\ vnPc = "idle" /\ vnRound = 0 /\ vnQueue = <<>> /\ vnResolved = <<>>
    /\ vnFetch = {} /\ vnKept = <<>> /\ vnLeft = VnBudget

\* cleanup_corrupt_vendor_dirs.
Whole(dirs) == [v \in {w \in DOMAIN dirs : dirs[w] = "ok"} |-> "ok"]

\* ensure_vendored: nothing to do while the lock and all roots are there.
Start(force) ==
    /\ vnPc = "idle" /\ vnLeft.runs > 0
    /\ vnDir' = [c \in DOMAIN vnDir |-> Whole(vnDir[c])]
    /\ vnPc' = IF ~force /\ vnLock # <<>> /\ \A i \in DOMAIN VnRoots : Whole(vnDir[VnRoots[i].name]) # <<>>
               THEN "idle" ELSE "roots"
    /\ vnFetch' = {<<VnRoots[i].name, VnRoots[i].req.version>> : i \in DOMAIN VnRoots}
    /\ vnRound' = 1
    /\ vnLeft' = [vnLeft EXCEPT !.runs = @ - 1]
    /\ UNCHANGED <<vnListed, vnLock, vnQueue, vnResolved, vnKept>>

\* fetch_crates_io: present, downloaded whole, or broken off.
Download(p, outcome) ==
    LET name == p[1]
    IN  /\ vnFetch' = vnFetch \ {p}
        /\ IF Present(name, p[2]) /\ vnPc = "roots" THEN UNCHANGED <<vnDir, vnPc, vnLeft>>
           ELSE /\ outcome = "ok" \/ vnLeft.fails > 0
                /\ vnDir' = IF outcome = "none" THEN vnDir
                            ELSE [vnDir EXCEPT ![name] = GvPut(@, p[2], outcome)]
                /\ vnPc' = IF outcome = "ok" THEN vnPc ELSE "failed"
                /\ vnLeft' = [vnLeft EXCEPT !.fails = IF outcome = "ok" THEN @ ELSE @ - 1]

\* Roots one after the other.
FetchRoot(p, outcome) ==
    /\ vnPc = "roots" /\ p \in vnFetch /\ Download(p, outcome)
    /\ UNCHANGED <<vnListed, vnLock, vnRound, vnQueue, vnResolved, vnKept>>

\* The queue of a new walk: the roots.
BeginWalk ==
    /\ vnPc = "roots" /\ vnFetch = {}
    /\ vnQueue' = [i \in DOMAIN VnRoots |->
                      [name |-> VnRoots[i].name, version |-> VnRoots[i].req.version, features |-> VnRoots[i].features]]
    /\ vnResolved' = <<>> /\ vnPc' = "walk"
    /\ UNCHANGED <<vnListed, vnDir, vnLock, vnRound, vnFetch, vnKept, vnLeft>>

\* A known crate is walked again only when the entry brings new features.
NothingNew(e) == e.name \in DOMAIN vnResolved /\ e.features \subseteq vnResolved[e.name].features

\* The entry merged into what is known: the newer version, all features.
Merge(e) ==
    IF e.name \notin DOMAIN vnResolved
    THEN GvPut(vnResolved, e.name, [version |-> e.version, features |-> e.features])
    ELSE [vnResolved EXCEPT ![e.name].version = IF Newer(e.version, @) THEN e.version ELSE @,
                            ![e.name].features = @ \cup e.features]

\* The dependencies of a manifest that are active, as queue entries.
Edges(manifest, features) ==
    SelectSeq(manifest.deps, LAMBDA d : Active(d, Activated(manifest, features)))

Entries(manifest, features) ==
    LET ds == Edges(manifest, features)
    IN  [i \in DOMAIN ds |-> [name |-> ds[i].name, version |-> ResolveVersion(ds[i].name, ds[i].req),
                              features |-> Requests(ds[i])]]

\* One entry of the queue: a conflict or a requirement nothing matches ends the
\* run; a crate that is not vendored yet is not walked.
Walk ==
    /\ vnPc = "walk" /\ vnQueue # <<>>
    /\ LET e == Head(vnQueue)
           conflict == e.name \in DOMAIN vnResolved /\ ~Compatible(vnResolved[e.name].version, e.version)
           dir == VendorDir(e.name, e.version)
           more == IF NothingNew(e) \/ dir = <<>> THEN <<>>
                   ELSE Entries(VnManifests[e.name][dir], Merge(e)[e.name].features)
       IN  IF conflict \/ \E i \in DOMAIN more : more[i].version = <<>>
           THEN vnPc' = "failed" /\ UNCHANGED <<vnQueue, vnResolved>>
           ELSE /\ vnResolved' = Merge(e)
                /\ vnQueue' = Tail(vnQueue) \o more
                /\ UNCHANGED vnPc
    /\ UNCHANGED <<vnListed, vnDir, vnLock, vnRound, vnFetch, vnKept, vnLeft>>

\* The walk is over: write the lock file, or download what is missing.
Missing == {c \in DOMAIN vnResolved : ~Present(c, vnResolved[c].version)}

EndWalk ==
    /\ vnPc = "walk" /\ vnQueue = <<>>
    /\ IF Missing = {}
       THEN /\ vnLock' = [c \in DOMAIN vnResolved |-> vnResolved[c].version]
            /\ vnPc' = "ok" /\ UNCHANGED vnFetch
       ELSE /\ vnFetch' = {<<c, vnResolved[c].version>> : c \in Missing}
            /\ vnPc' = IF vnRound = MaxIterations THEN "failed" ELSE "fetch"
            /\ UNCHANGED vnLock
    /\ UNCHANGED <<vnListed, vnDir, vnRound, vnQueue, vnResolved, vnKept, vnLeft>>

\* A batch of threads; the others of a batch go on when one fails.
FetchMissing(p, outcome) ==
    /\ vnPc = "fetch" /\ p \in vnFetch /\ Download(p, outcome)
    /\ UNCHANGED <<vnListed, vnLock, vnRound, vnQueue, vnResolved, vnKept>>

NextRound ==
    /\ vnPc = "fetch" /\ vnFetch = {}
    /\ vnRound' = vnRound + 1 /\ vnPc' = "roots"
    /\ UNCHANGED <<vnListed, vnDir, vnLock, vnQueue, vnResolved, vnFetch, vnKept, vnLeft>>

GvExit ==
    /\ vnPc \in {"ok", "failed"}
    /\ vnPc' = "idle" /\ vnFetch' = {} /\ vnQueue' = <<>>
    /\ vnKept' = IF vnPc = "ok" THEN vnLock ELSE vnKept
    /\ UNCHANGED <<vnListed, vnDir, vnLock, vnRound, vnResolved, vnLeft>>

\* The registry lists a newer version; a directory of vendor/ is deleted.
Publish(c, v) ==
    /\ vnPc = "idle" /\ vnLeft.publishes > 0 /\ v \notin vnListed[c]
    /\ vnListed' = [vnListed EXCEPT ![c] = @ \cup {v}]
    /\ vnLeft' = [vnLeft EXCEPT !.publishes = @ - 1]
    /\ UNCHANGED <<vnDir, vnLock, vnPc, vnRound, vnQueue, vnResolved, vnFetch, vnKept>>

DeleteDir(c) ==
    /\ vnPc = "idle" /\ vnLeft.removes > 0 /\ vnDir[c] # <<>>
    /\ vnDir' = [vnDir EXCEPT ![c] = <<>>]
    /\ vnLeft' = [vnLeft EXCEPT !.removes = @ - 1]
    /\ UNCHANGED <<vnListed, vnLock, vnPc, vnRound, vnQueue, vnResolved, vnFetch, vnKept>>

VnNext ==
    \/ \E force \in BOOLEAN : Start(force)
    \/ \E p \in vnFetch, o \in {"ok", "corrupt", "none"} : FetchRoot(p, o) \/ FetchMissing(p, o)
    \/ BeginWalk \/ Walk \/ EndWalk \/ NextRound \/ GvExit
    \/ \E c \in DOMAIN VnManifests : DeleteDir(c) \/ \E v \in DOMAIN VnManifests[c] : Publish(c, v)

VnSpec == VnInit /\ [][VnNext]_vnVars

-----------------------------------------------------------------------------
\* What a run that succeeds has resolved is complete: every root, and for every
\* active dependency of every crate as it is vendored, with all the features
\* the others ask of it, that crate in a version that meets the requirement with
\* the features asked for; and everything is there whole. (Not in the version
\* the lock names: find_vendor_dir takes another one that a run that was broken
\* off has left, and the lock then names a version that is not there.)
ResolutionClosed ==
    vnPc = "ok" =>
        /\ \A i \in DOMAIN VnRoots : VnRoots[i].name \in DOMAIN vnResolved
        /\ \A c \in DOMAIN vnResolved :
              LET v == VendorDir(c, vnResolved[c].version)
                  ds == Edges(VnManifests[c][v], vnResolved[c].features)
              IN  /\ v # <<>>
                  /\ \A i \in DOMAIN ds :
                        /\ ds[i].name \in DOMAIN vnResolved
                        /\ GvMatches(ds[i].req, vnResolved[ds[i].name].version)
                        /\ Requests(ds[i]) \subseteq vnResolved[ds[i].name].features

\* A version that was locked stays, whatever the registry lists since, whatever
\* was deleted, forced or broken off.
LockKept ==
    vnPc = "ok" => \A c \in DOMAIN vnKept \cap DOMAIN vnLock : vnLock[c] = vnKept[c]

-----------------------------------------------------------------------------
(***************************************************************************)
(* The cache of the build model (crates/tools/gluon/src/model_cache.rs) and     *)
(* the commands that load a model through it (load_model_inner in main.rs):      *)
(* processes that take the model from build/model-cache.json when the times of     *)
(* its inputs are unchanged, evaluate the scripts otherwise, and write the cache    *)
(* under a lock file, while the files are edited, the clock goes on and a process    *)
(* may be killed.  Times of files are whole seconds.                                  *)
(***************************************************************************)
CONSTANTS
    McProcs,        \* processes
    McTracked,      \* inputs collect_model_inputs records: scripts, lock file, configuration, Kconfig
    McUntracked,    \* inputs it does not: included scripts
    McForce,        \* processes that were given --force
    StaleLockSecs,  \* STALE_LOCK_SECS
    McMaxTime,      \* bound: the clock
    McMaxEdits,     \* bound: edits
    McMaxKills      \* bound: kills

VARIABLES
    mcNow,      \* the clock, in seconds
    mcFiles,    \* file -> [version, at]
    mcTwice,    \* files that have been edited twice within a second
    mcLock,     \* the lock file: none, or [at, owner]
    mcTmp,      \* model-cache.json.tmp: none, or an envelope
    mcCache,    \* model-cache.json: none, or an envelope
    mcProc,     \* process -> [pc, model, dirty, envelope, missed]; missed: files that were
                \* not what the model is made from when it was taken from the cache
    mcEdits, mcKills,
    mcCleared   \* a lock was removed as stale

mcVars == <<mcNow, mcFiles, mcTwice, mcLock, mcTmp, mcCache, mcProc, mcEdits, mcKills, mcCleared>>

McFiles == McTracked \cup McUntracked
None == <<>>

McInit ==
    /\ mcNow = 0 /\ mcFiles = [f \in McFiles |-> [version |-> 0, at |-> 0]] /\ mcTwice = {}
    /\ mcLock = None /\ mcTmp = None /\ mcCache = None
    /\ mcProc = [p \in McProcs |-> [pc |-> "start", model |-> None, dirty |-> {}, envelope |-> None, missed |-> {}]]
    /\ mcEdits = 0 /\ mcKills = 0 /\ mcCleared = FALSE

Set(p, r) == mcProc' = [mcProc EXCEPT ![p] = r]
At(p, pc) == mcProc[p].pc = pc
Holders == {p \in McProcs : mcProc[p].pc \in {"collect", "write", "rename", "unlock"}}

-----------------------------------------------------------------------------
\* load_model_inner, load_cached_model: a lock that is there, whoever holds it,
\* means that the scripts are evaluated.
LoadCached(p) ==
    /\ At(p, "start")
    /\ Set(p, [mcProc[p] EXCEPT !.pc = IF p \in McForce \/ mcLock # None \/ mcCache = None THEN "evaluate" ELSE "compare",
                                !.envelope = IF p \in McForce \/ mcLock # None THEN None ELSE mcCache])
    /\ UNCHANGED <<mcNow, mcFiles, mcTwice, mcLock, mcTmp, mcCache, mcEdits, mcKills, mcCleared>>

Unchanged(e) == \A f \in DOMAIN e.times : mcFiles[f].at = e.times[f]

\* An envelope that two writers have mixed cannot be read back; otherwise every
\* recorded time is compared with the file's.
Compare(p) ==
    /\ At(p, "compare")
    /\ Set(p, IF mcProc[p].envelope[1].whole /\ Unchanged(mcProc[p].envelope[1])
              THEN [mcProc[p] EXCEPT !.pc = "done", !.model = mcProc[p].envelope[1].model, !.dirty = mcProc[p].envelope[1].dirty,
                       !.missed = {f \in McTracked : mcProc[p].envelope[1].model[f] # mcFiles[f].version}]
              ELSE [mcProc[p] EXCEPT !.pc = "evaluate", !.envelope = None])
    /\ UNCHANGED <<mcNow, mcFiles, mcTwice, mcLock, mcTmp, mcCache, mcEdits, mcKills, mcCleared>>

\* engine::evaluate_script reads the files; what is edited from now until the
\* times are collected is not in the model.
Evaluate(p) ==
    /\ At(p, "evaluate")
    /\ Set(p, [mcProc[p] EXCEPT !.pc = "save", !.model = [f \in McFiles |-> mcFiles[f].version], !.dirty = {}])
    /\ UNCHANGED <<mcNow, mcFiles, mcTwice, mcLock, mcTmp, mcCache, mcEdits, mcKills, mcCleared>>

Stale == mcLock # None /\ mcNow - mcLock[1].at > StaleLockSecs

\* save_cached_model, try_acquire_lock: a look at the lock's age ...
LookAtLock(p) ==
    /\ At(p, "save")
    /\ Set(p, [mcProc[p] EXCEPT !.pc = IF Stale THEN "clear" ELSE "create"])
    /\ UNCHANGED <<mcNow, mcFiles, mcTwice, mcLock, mcTmp, mcCache, mcEdits, mcKills, mcCleared>>

\* ... its removal, of whatever lock is there by now ...
RemoveStale(p) ==
    /\ At(p, "clear")
    /\ mcLock' = None /\ mcCleared' = TRUE
    /\ Set(p, [mcProc[p] EXCEPT !.pc = "create"])
    /\ UNCHANGED <<mcNow, mcFiles, mcTwice, mcTmp, mcCache, mcEdits, mcKills>>

\* (mutant) The lock is taken whether or not it is there.
MayCreateAlways == TRUE

MayCreate == mcLock = None

\* ... and the exclusive creation; the save is skipped where it fails.
CreateLock(p) ==
    /\ At(p, "create")
    /\ IF MayCreate
       THEN mcLock' = <<[at |-> mcNow, owner |-> p]>> /\ Set(p, [mcProc[p] EXCEPT !.pc = "collect"])
       ELSE UNCHANGED mcLock /\ Set(p, [mcProc[p] EXCEPT !.pc = "done"])
    /\ UNCHANGED <<mcNow, mcFiles, mcTwice, mcTmp, mcCache, mcEdits, mcKills, mcCleared>>

\* collect_model_inputs: the times of the files now.
CollectModelInputs == [f \in McTracked |-> mcFiles[f].at]

Collect(p) ==
    /\ At(p, "collect")
    /\ Set(p, [mcProc[p] EXCEPT !.pc = "write",
                  !.envelope = <<[model |-> mcProc[p].model, times |-> CollectModelInputs, dirty |-> mcProc[p].dirty, whole |-> TRUE]>>])
    /\ UNCHANGED <<mcNow, mcFiles, mcTwice, mcLock, mcTmp, mcCache, mcEdits, mcKills, mcCleared>>

\* The envelope goes to the .tmp file, whose name all processes share; one that
\* is written while another process is about to rename it is a mixture.
WriteTmp(p) ==
    /\ At(p, "write")
    /\ mcTmp' = <<[mcProc[p].envelope[1] EXCEPT !.whole = ~ \E q \in McProcs \ {p} : At(q, "rename") /\ mcProc[q].envelope # mcProc[p].envelope]>>
    /\ Set(p, [mcProc[p] EXCEPT !.pc = "rename"])
    /\ UNCHANGED <<mcNow, mcFiles, mcTwice, mcLock, mcCache, mcEdits, mcKills, mcCleared>>

\* The rename fails where another has renamed it before; the guard is dropped
\* either way.
RenameTmp(p) ==
    /\ At(p, "rename")
    /\ IF mcTmp = None THEN UNCHANGED <<mcTmp, mcCache>> ELSE mcCache' = mcTmp /\ mcTmp' = None
    /\ Set(p, [mcProc[p] EXCEPT !.pc = "unlock"])
    /\ UNCHANGED <<mcNow, mcFiles, mcTwice, mcLock, mcEdits, mcKills, mcCleared>>

\* CacheLockGuard::drop removes the lock file, whoever has created it.
DropGuard(p) ==
    /\ At(p, "unlock")
    /\ mcLock' = None
    /\ Set(p, [mcProc[p] EXCEPT !.pc = "done"])
    /\ UNCHANGED <<mcNow, mcFiles, mcTwice, mcTmp, mcCache, mcEdits, mcKills, mcCleared>>

\* The same user runs another command.
Again(p) ==
    /\ At(p, "done")
    /\ Set(p, [pc |-> "start", model |-> None, dirty |-> {}, envelope |-> None, missed |-> {}])
    /\ UNCHANGED <<mcNow, mcFiles, mcTwice, mcLock, mcTmp, mcCache, mcEdits, mcKills, mcCleared>>

\* A process is killed; its lock stays.
Kill(p) ==
    /\ mcKills < McMaxKills /\ ~At(p, "start") /\ ~At(p, "done") /\ ~At(p, "killed")
    /\ mcKills' = mcKills + 1
    /\ Set(p, [mcProc[p] EXCEPT !.pc = "killed", !.model = None, !.envelope = None, !.dirty = {}])
    /\ UNCHANGED <<mcNow, mcFiles, mcTwice, mcLock, mcTmp, mcCache, mcEdits, mcCleared>>

\* A file is edited.
EditFile(f) ==
    /\ mcEdits < McMaxEdits /\ mcEdits' = mcEdits + 1
    /\ mcTwice' = IF mcFiles[f].at = mcNow THEN mcTwice \cup {f} ELSE mcTwice
    /\ mcFiles' = [mcFiles EXCEPT ![f] = [version |-> @.version + 1, at |-> mcNow]]
    /\ mcProc' = [p \in McProcs |-> IF mcProc[p].pc \in {"save", "clear", "create", "collect"} THEN [mcProc[p] EXCEPT !.dirty = @ \cup {f}] ELSE mcProc[p]]
    /\ UNCHANGED <<mcNow, mcLock, mcTmp, mcCache, mcKills, mcCleared>>

\* The clock; a process that is alive saves within StaleLockSecs.
Second ==
    /\ mcNow < McMaxTime
    /\ \A p \in Holders : mcLock # None /\ mcLock[1].owner = p => mcNow + 1 - mcLock[1].at <= StaleLockSecs
    /\ mcNow' = mcNow + 1
    /\ UNCHANGED <<mcFiles, mcTwice, mcLock, mcTmp, mcCache, mcProc, mcEdits, mcKills, mcCleared>>

McStep(p) ==
    \/ LoadCached(p) \/ Compare(p) \/ Evaluate(p) \/ LookAtLock(p) \/ RemoveStale(p) \/ CreateLock(p)
    \/ Collect(p) \/ WriteTmp(p) \/ RenameTmp(p) \/ DropGuard(p) \/ Again(p) \/ Kill(p)

McNext == Second \/ (\E f \in McFiles : EditFile(f)) \/ \E p \in McProcs : McStep(p)

McSpec == McInit /\ [][McNext]_mcVars

-----------------------------------------------------------------------------
\* A model that was taken from the cache is the one the tracked files had when
\* their times were compared: no edit goes unnoticed but one made while the model
\* was being evaluated and saved, or within the second of the one before.
HitsFresh == \A p \in McProcs : mcProc[p].missed \subseteq mcTwice \cup mcProc[p].dirty

\* Until a lock has been removed as stale one process at a time writes the cache,
\* so that what is there is one process's envelope.
WriterAlone ==
    ~mcCleared => Cardinality(Holders) <= 1 /\ (mcCache # None => mcCache[1].whole)

-----------------------------------------------------------------------------
(***************************************************************************)
(* The incremental build of gluon (crates/tools/gluon): the unified graph of   *)
(* execute_pipeline (scheduler.rs) with its worker threads, the manifest that   *)
(* decides what is fresh (cache.rs), and the commands that load and save it     *)
(* (main.rs). Sources change between builds, never during one; every write of   *)
(* a file gives it a time of its own (the code compares whole seconds).         *)
(***************************************************************************)
CONSTANTS
    GbSetups,       \* projects: [graph, rules, boot, programs, editable, modes, budget]
    GbWorkers       \* number of worker threads

VARIABLES
    gbSetup,    \* the project and what its developer does:
                \*   graph     the resolved crates: crate -> [deps, host, conf]
                \*   rules     artifact rules of the pipeline, of "hkif" and "initrd"
                \*   boot      profile.boot_binary, the input of the rule hkif
                \*   programs  the inputs of the rule initrd
                \*   editable  crates (or "config") the developer changes
                \*   modes     commands given: "build", "check"
                \*   budget    bounds: [edits, builds, forces, fails]
    gbSrc,      \* the content of each crate's sources and of the configuration
    gbGen,      \* the generated source of hadron_config
    gbFile,     \* files in build/: name -> [time, content]
    gbTime,     \* the time of the last write
    gbDisk,     \* the saved manifest
    gbCache,    \* PipelineState::cache
    gbPc,       \* "idle", "loop", "recv", "drain", "ok", "failed"
    gbCmd,      \* [mode, force] of the running command
    gbWaits,    \* in_degree: what each node still waits for
    gbBatch,    \* nodes taken out of the ready queue
    gbReady,    \* ready_queue
    gbJobs,     \* jobs sent to the workers and not finished, in order
    gbResults,  \* outcomes not yet received
    gbDone,     \* completed nodes
    gbRebuilt,  \* rebuilt_crates
    gbKernel,   \* kernel_binary: "none", "fresh" or "rebuilt"
    gbLeft      \* what is left of the bounds

gbBuild == <<gbCmd, gbWaits, gbBatch, gbReady, gbJobs, gbResults, gbDone, gbRebuilt, gbKernel>>
gbWorld == <<gbSetup, gbSrc, gbGen, gbFile, gbTime, gbDisk>>

Crates == DOMAIN gbSetup.graph
Cross == {c \in Crates : ~gbSetup.graph[c].host}

\* CompileMode: a check leaves metadata where a build leaves the library;
\* host crates are always built.
Artifact(c) == <<c, IF c \in Cross /\ gbCmd.mode = "check" THEN "rmeta" ELSE "link">>

ConfigLib == <<"config", "link">>
Initrd == <<"initrd", "link">>

\* The part of the flags hash that the commands change.
FlagsHash(c) == IF c \in Cross THEN gbCmd.mode ELSE "host"

Rules(mode) == IF mode = "build" THEN gbSetup.rules ELSE {}

\* The nodes of the graph: sysroot and config nodes for the targets in use,
\* crates, and the rules when the command builds.
Nodes(mode) ==
    Crates \cup Rules(mode)
    \cup {n \in {"sysroot"} : Cross # {}}
    \cup {n \in {"config"} : \E c \in Cross : gbSetup.graph[c].conf}

\* Its edges.
Needs(n) ==
    CASE n = "sysroot" -> {}
      [] n = "config" -> {"sysroot"}
      [] n = "hkif" -> {gbSetup.boot}
      [] n = "initrd" -> gbSetup.programs
      [] OTHER -> (gbSetup.graph[n].deps \cap Crates)
                    \cup (IF n \in Cross THEN {"sysroot"} ELSE {})
                    \cup (IF n \in Cross /\ gbSetup.graph[n].conf THEN {"config"} ELSE {})

EmptyManifest == [sysroot |-> FALSE, entries |-> <<>>, initrd |-> <<>>]

GbInit ==
    /\ gbSetup \in GbSetups
    /\ gbSrc = [x \in Crates \cup {"config"} |-> 0]
    /\ gbGen = <<>> /\ gbFile = <<>> /\ gbTime = 0
    /\ gbDisk = EmptyManifest /\ gbCache = EmptyManifest
    /\ gbPc = "idle" /\ gbCmd = [mode |-> "build", force |-> FALSE]
    /\ gbWaits = <<>> /\ gbBatch = {} /\ gbReady = {} /\ gbJobs = <<>> /\ gbResults = <<>>
    /\ gbDone = {} /\ gbRebuilt = {} /\ gbKernel = "none"
    /\ gbLeft = gbSetup.budget

-----------------------------------------------------------------------------
\* The developer changes a crate or the configuration between two commands.
Edit(x) ==
    /\ gbPc = "idle" /\ gbLeft.edits > 0 /\ x \in DOMAIN gbSrc
    /\ gbSrc' = [gbSrc EXCEPT ![x] = @ + 1]
    /\ gbLeft' = [gbLeft EXCEPT !.edits = @ - 1]
    /\ UNCHANGED <<gbSetup, gbGen, gbFile, gbTime, gbDisk, gbCache, gbPc, gbBuild>>

\* prepare_pipeline_state: the manifest as it was saved, or an empty one.
LoadedManifest(force) == IF force THEN EmptyManifest ELSE gbDisk

Command(mode, force) ==
    /\ gbPc = "idle" /\ gbLeft.builds > 0 /\ (force => gbLeft.forces > 0)
    /\ gbCmd' = [mode |-> mode, force |-> force]
    /\ gbCache' = LoadedManifest(force)
    /\ gbWaits' = [n \in Nodes(mode) |-> Needs(n)]
    /\ gbReady' = {n \in Nodes(mode) : Needs(n) = {}}
    /\ gbBatch' = {} /\ gbJobs' = <<>> /\ gbResults' = <<>>
    /\ gbDone' = {} /\ gbRebuilt' = {} /\ gbKernel' = "none"
    /\ gbPc' = "loop"
    /\ gbLeft' = [gbLeft EXCEPT !.builds = @ - 1, !.forces = IF force THEN @ - 1 ELSE @]
    /\ UNCHANGED gbWorld

\* A node is complete: those that wait for nothing else are ready.
Completes(n) ==
    /\ gbDone' = gbDone \cup {n}
    /\ gbWaits' = [m \in DOMAIN gbWaits |-> gbWaits[m] \ {n}]
    /\ gbReady' = gbReady \cup {m \in DOMAIN gbWaits : n \in gbWaits[m] /\ gbWaits[m] \ {n} = {}}

GbPut(files, name, content) ==
    [f \in DOMAIN files \cup {name} |->
        IF f = name THEN [time |-> gbTime + 1, content |-> content] ELSE files[f]]

Record(entries, name, entry) ==
    [e \in DOMAIN entries \cup {name} |-> IF e = name THEN entry ELSE entries[e]]

TimeOf(name) == IF name \in DOMAIN gbFile THEN gbFile[name].time ELSE 0

-----------------------------------------------------------------------------
\* The top of the loop takes everything that is ready, unless jobs are out and
\* nothing has been received since.
TakeBatch ==
    /\ gbPc = "loop" /\ gbBatch = {}
    /\ gbBatch' = gbReady /\ gbReady' = {}
    /\ gbPc' = "batch"
    /\ UNCHANGED <<gbWorld, gbCache, gbCmd, gbWaits, gbJobs, gbResults, gbDone, gbRebuilt, gbKernel, gbLeft>>

\* ensure_sysroot: built unless the manifest has it.
EnsureSysroot ==
    /\ gbCache' = [gbCache EXCEPT !.sysroot = TRUE]
    /\ Completes("sysroot")
    /\ UNCHANGED <<gbGen, gbFile, gbTime, gbDisk, gbJobs, gbRebuilt, gbKernel, gbPc>>

\* is_sysroot_fresh, record_sysroot and ensure_config_crate: fresh while the
\* generated source is the one that was compiled, whatever the options are now.
ConfigFresh ==
    /\ "config" \in DOMAIN gbCache.entries
    /\ LET e == gbCache.entries["config"]
       IN  TimeOf(ConfigLib) = e.time /\ gbGen = e.src

\* artifact_content_unchanged: the file on disk is what was recorded.
ContentUnchanged ==
    /\ "config" \in DOMAIN gbCache.entries
    /\ gbFile[ConfigLib].content = gbCache.entries["config"].src[1]

EnsureConfig ==
    /\ IF ConfigFresh
       THEN UNCHANGED <<gbGen, gbFile, gbTime, gbCache, gbRebuilt>>
       ELSE /\ gbGen' = <<gbSrc["config"]>>
            /\ gbFile' = GbPut(gbFile, ConfigLib, gbSrc["config"]) /\ gbTime' = gbTime + 1
            /\ gbCache' = [gbCache EXCEPT !.entries =
                               Record(@, "config", [time |-> gbTime + 1, src |-> gbGen'])]
            /\ gbRebuilt' = IF ContentUnchanged /\ gbFile'[ConfigLib].content = gbFile[ConfigLib].content
                            THEN gbRebuilt ELSE gbRebuilt \cup {"config"}
    /\ Completes("config")
    /\ UNCHANGED <<gbDisk, gbJobs, gbKernel, gbPc>>

\* (mutant) The crates that were recompiled are not looked at.
FreshAlone(c) ==
    /\ c \in DOMAIN gbCache.entries
    /\ LET e == gbCache.entries[c]
       IN  e.flags = FlagsHash(c) /\ TimeOf(e.artifact) = e.time /\ e.src = gbSrc[c]

\* CrateEntry::is_fresh: same flags, an artifact nobody wrote since, no
\* dependency recompiled in this build, and sources with the recorded content.
IsFresh(c) ==
    /\ c \in DOMAIN gbCache.entries
    /\ LET e == gbCache.entries[c]
       IN  /\ e.flags = FlagsHash(c)
           /\ TimeOf(e.artifact) = e.time
           /\ gbSetup.graph[c].deps \cap gbRebuilt = {}
           /\ e.src = gbSrc[c]

\* A crate node: nothing to do, or a job for the workers.
CrateNode(c) ==
    /\ IF IsFresh(c)
       THEN /\ Completes(c)
            /\ gbKernel' = IF c = gbSetup.boot THEN "fresh" ELSE gbKernel
            /\ UNCHANGED gbJobs
       ELSE /\ gbJobs' = Append(gbJobs, c)
            /\ UNCHANGED <<gbDone, gbWaits, gbReady, gbKernel>>
    /\ UNCHANGED <<gbGen, gbFile, gbTime, gbDisk, gbCache, gbRebuilt, gbPc>>

\* The rule hkif links the kernel again, into the same file, when this build
\* has compiled it.
HkifRule ==
    /\ IF gbKernel = "rebuilt" \/ (gbCmd.force /\ gbKernel # "none")
       THEN /\ gbFile' = GbPut(gbFile, <<gbSetup.boot, "link">>,
                             [gbFile[<<gbSetup.boot, "link">>].content EXCEPT !.hkif = TRUE])
            /\ gbTime' = gbTime + 1
       ELSE UNCHANGED <<gbFile, gbTime>>
    /\ Completes("hkif")
    /\ UNCHANGED <<gbGen, gbDisk, gbCache, gbJobs, gbRebuilt, gbKernel, gbPc>>

\* is_initrd_fresh: the archive is there and every program has its time.
InitrdFresh ==
    /\ gbCache.initrd # <<>> /\ Initrd \in DOMAIN gbFile
    /\ \A p \in gbSetup.programs : gbCache.initrd[1][p] = TimeOf(<<p, "link">>)

\* The rule initrd packs the programs and saves the manifest at once.
InitrdRule ==
    /\ IF InitrdFresh
       THEN UNCHANGED <<gbFile, gbTime, gbCache, gbDisk>>
       ELSE /\ gbFile' = GbPut(gbFile, Initrd, [p \in gbSetup.programs |-> gbFile[<<p, "link">>].content])
            /\ gbTime' = gbTime + 1
            /\ gbCache' = [gbCache EXCEPT !.initrd = <<[p \in gbSetup.programs |-> TimeOf(<<p, "link">>)]>>]
            /\ gbDisk' = gbCache'
    /\ Completes("initrd")
    /\ UNCHANGED <<gbGen, gbJobs, gbRebuilt, gbKernel, gbPc>>

\* A rule fails: the closure returns, the workers finish what was sent.
RuleFails(n) ==
    /\ n \in gbSetup.rules /\ gbLeft.fails > 0
    /\ gbPc' = "drain"
    /\ UNCHANGED <<gbGen, gbFile, gbTime, gbDisk, gbCache, gbWaits, gbReady, gbJobs, gbDone, gbRebuilt, gbKernel>>

\* The main thread works through its batch.
Process(n) ==
    /\ gbPc = "batch" /\ n \in gbBatch
    /\ gbBatch' = gbBatch \ {n}
    /\ CASE n = "sysroot" -> EnsureSysroot
         [] n = "config" -> EnsureConfig
         [] n = "hkif" -> HkifRule \/ RuleFails(n)
         [] n = "initrd" -> InitrdRule \/ RuleFails(n)
         [] OTHER -> CrateNode(n)
    /\ gbLeft' = [gbLeft EXCEPT !.fails = IF gbPc' = "drain" THEN @ - 1 ELSE @]
    /\ UNCHANGED <<gbSetup, gbSrc, gbCmd, gbResults>>

InFlight == Len(gbJobs) + Len(gbResults)

\* The batch is done: finished, stuck on a cycle, on to the next batch, or
\* waiting for a worker. do_build saves the manifest of a build that succeeds.
BatchDone ==
    /\ gbPc = "batch" /\ gbBatch = {}
    /\ gbPc' = CASE InFlight > 0 -> "recv"
                 [] InFlight = 0 /\ gbDone = Nodes(gbCmd.mode) -> "ok"
                 [] InFlight = 0 /\ gbDone # Nodes(gbCmd.mode) /\ gbReady = {} -> "cycle"
                 [] OTHER -> "loop"
    /\ gbDisk' = IF gbPc' = "ok" THEN gbCache ELSE gbDisk
    /\ UNCHANGED <<gbSetup, gbSrc, gbGen, gbFile, gbTime, gbCache, gbBuild, gbLeft>>

\* What rustc makes of a crate: its sources, the configuration and the
\* libraries of its dependencies as they are now.
Compiled(c) ==
    [src |-> gbSrc[c],
     conf |-> IF c \in Cross /\ gbSetup.graph[c].conf THEN <<gbFile[ConfigLib].content>> ELSE <<>>,
     deps |-> [d \in gbSetup.graph[c].deps |-> gbFile[Artifact(d)].content],
     hkif |-> FALSE]

\* compile_crate on a worker: one of the jobs the threads hold succeeds, or
\* fails and leaves the old file.
Compile(i, ok) ==
    /\ i \in 1..Len(gbJobs) /\ i <= GbWorkers
    /\ ok \/ gbLeft.fails > 0
    /\ gbJobs' = RemoveAt(gbJobs, i)
    /\ gbResults' = Append(gbResults, [crate |-> gbJobs[i], ok |-> ok])
    /\ gbLeft' = [gbLeft EXCEPT !.fails = IF ok THEN @ ELSE @ - 1]
    /\ IF ok THEN gbFile' = GbPut(gbFile, Artifact(gbJobs[i]), Compiled(gbJobs[i])) /\ gbTime' = gbTime + 1
             ELSE UNCHANGED <<gbFile, gbTime>>
    /\ UNCHANGED <<gbSetup, gbSrc, gbGen, gbDisk, gbCache, gbPc, gbCmd, gbWaits, gbBatch, gbReady, gbDone,
                   gbRebuilt, gbKernel>>

\* CrateEntry::from_compilation.
FromCompilation(c) ==
    [flags |-> FlagsHash(c), artifact |-> Artifact(c), time |-> TimeOf(Artifact(c)), src |-> gbSrc[c]]

\* An outcome is received: recorded, or the start of the end.
Receive ==
    /\ gbPc = "recv" /\ gbResults # <<>>
    /\ gbResults' = Tail(gbResults)
    /\ LET r == Head(gbResults)
       IN  IF r.ok
           THEN /\ gbCache' = [gbCache EXCEPT !.entries = Record(@, r.crate, FromCompilation(r.crate))]
                /\ gbKernel' = IF r.crate = gbSetup.boot THEN "rebuilt" ELSE gbKernel
                /\ gbRebuilt' = gbRebuilt \cup {r.crate}
                /\ Completes(r.crate)
                /\ gbPc' = "loop"
           ELSE /\ gbPc' = "drain"
                /\ UNCHANGED <<gbCache, gbKernel, gbRebuilt, gbDone, gbWaits, gbReady>>
    /\ UNCHANGED <<gbWorld, gbCmd, gbBatch, gbJobs, gbLeft>>

\* The remaining outcomes are received and dropped; the command fails and the
\* manifest is not saved.
Drain ==
    /\ gbPc = "drain"
    /\ IF gbResults # <<>>
       THEN gbResults' = Tail(gbResults) /\ UNCHANGED gbPc
       ELSE gbJobs = <<>> /\ gbPc' = "failed" /\ UNCHANGED gbResults
    /\ UNCHANGED <<gbWorld, gbCache, gbCmd, gbWaits, gbBatch, gbReady, gbJobs, gbDone, gbRebuilt, gbKernel, gbLeft>>

\* The command ends.
GbExit ==
    /\ gbPc \in {"ok", "failed", "cycle"}
    /\ gbPc' = "idle"
    /\ UNCHANGED <<gbWorld, gbCache, gbBuild, gbLeft>>

GbNext ==
    \/ \E x \in gbSetup.editable : Edit(x)
    \/ \E mode \in gbSetup.modes, force \in BOOLEAN : Command(mode, force)
    \/ TakeBatch \/ BatchDone \/ Receive \/ Drain \/ GbExit
    \/ \E n \in gbBatch : Process(n)
    \/ \E i \in 1..GbWorkers, ok \in BOOLEAN : Compile(i, ok)

GbSpec == GbInit /\ [][GbNext]_<<gbWorld, gbCache, gbPc, gbBuild, gbLeft>>

-----------------------------------------------------------------------------
\* What a crate's artifact is when everything is compiled from nothing.
Clean[c \in Crates] ==
    [src |-> gbSrc[c],
     conf |-> IF c \in Cross /\ gbSetup.graph[c].conf THEN <<gbSrc["config"]>> ELSE <<>>,
     deps |-> [d \in gbSetup.graph[c].deps |-> Clean[d]],
     hkif |-> c = gbSetup.boot /\ "hkif" \in Rules(gbCmd.mode)]

\* A command that succeeds leaves what a build from nothing would have left:
\* every artifact is compiled from the sources as they are, through all its
\* dependencies, the kernel carries its symbol table, and the archive holds
\* those programs. Whatever was edited, forced, checked or failed before, what
\* is_fresh skips has not changed; and the workers, which run ahead of the
\* bookkeeping, have compiled nothing against an older library.
BuildsCurrent ==
    gbPc = "ok" =>
        /\ \A c \in Crates : gbFile[Artifact(c)].content = Clean[c]
        /\ "initrd" \in Rules(gbCmd.mode) => gbFile[Initrd].content = [p \in gbSetup.programs |-> Clean[p]]

-----------------------------------------------------------------------------
(***************************************************************************)
(* gluon test (crates/tools/gluon/src/main.rs, test.rs, run.rs) with what the    *)
(* tests run under: cargo test of the host crates by a pool of workers, the        *)
(* harness of the kernel's test binaries (crates/test/hadron-test), the tests       *)
(* inside the kernel (kernel/kernel/src/ktest.rs, crates/test/hadron-ktest) and       *)
(* the test programs that take the place of init (crates/test/hadron-utest), each      *)
(* reporting through the exit code of QEMU.  A test passes, panics or hangs.            *)
(***************************************************************************)
CONSTANTS
    TrCrates,       \* host_testable, a sequence
    TrWorkers,      \* the worker threads
    TrKernel,       \* kernel test binaries: a sequence of sequences of tests
    TrKtests,       \* kernel_test_entries: a sequence of [name, stage, kind, work]
    TrUser,         \* user test programs: a sequence of sequences of tests
    TrNames,        \* the name of each test of a kernel binary, a sequence of letters
    TrArgs,         \* command lines: sequences of tokens <<"flag" or "word", text>>
    TrBad,          \* sets of tests that do not pass: test -> "panic" or "hang"
    TrFlags,        \* sets of the suites asked for ({}: all)
    TrYields        \* how often the runner yields for the instances of a test

Instanced == "instanced"

VARIABLES
    trBad,      \* the tests that do not pass
    trFlags, trArgs,
    trPc,       \* where the command is: "host", "build", "kernel", "ktest", "user", "end"
    trNext,     \* next_idx
    trBusy,     \* worker -> the crate it tests (0: none, -1: it has ended)
    trChan,     \* results sent and not collected
    trResults,  \* results collected
    trObjects,  \* the artifacts of the build: crate -> variant
    trKtestObjects, \* the artifacts of the kernel with tests
    trBin,      \* the binary being run (0: none)
    trAt,       \* its next test
    trInst,     \* the instances of the test: what is left to do
    trLeft,     \* yields left
    trFailed,   \* binaries that failed in this suite
    trRan,      \* tests that have ended well, in any suite
    trVerdict   \* "", "ok" or "fail"

trVars == <<trBad, trFlags, trArgs, trPc, trNext, trBusy, trChan, trResults, trObjects, trKtestObjects, trBin, trAt, trInst, trLeft, trFailed, trRan, trVerdict>>

TrInit ==
    /\ trBad \in TrBad /\ trFlags \in TrFlags /\ trArgs \in TrArgs
    /\ trPc = "host" /\ trNext = 1 /\ trBusy = [w \in TrWorkers |-> 0]
    /\ trChan = <<>> /\ trResults = <<>> /\ trObjects = [c \in {} |-> ""] /\ trKtestObjects = [c \in {} |-> ""]
    /\ trBin = 0 /\ trAt = 1 /\ trInst = <<>> /\ trLeft = 0 /\ trFailed = {} /\ trRan = {} /\ trVerdict = ""

Outcome(t) == IF t \in DOMAIN trBad THEN trBad[t] ELSE "pass"

\* cmd_test: which suites run.
Selected(suite) == trFlags = {} \/ suite \in trFlags

Bail == trVerdict' = "fail" /\ trPc' = "end"

hostVars == <<trNext, trBusy, trChan, trResults>>
runVars == <<trBin, trAt, trInst, trLeft, trFailed>>
Choice == <<trBad, trFlags, trArgs>>

-----------------------------------------------------------------------------
\* run_host_tests: a worker takes the next crate under the lock ...
WorkerTakes(w) ==
    /\ trPc = "host" /\ Selected("host") /\ trBusy[w] = 0
    /\ trBusy' = [trBusy EXCEPT ![w] = IF trNext > Len(TrCrates) THEN -1 ELSE trNext]
    /\ trNext' = IF trNext > Len(TrCrates) THEN trNext ELSE trNext + 1
    /\ UNCHANGED <<trChan, trResults, trPc, trObjects, trKtestObjects, trRan, trVerdict>> /\ UNCHANGED runVars /\ UNCHANGED Choice

\* ... runs cargo test and sends what came out ...
WorkerSends(w) ==
    /\ trPc = "host" /\ trBusy[w] > 0
    /\ trChan' = Append(trChan, TrCrates[trBusy[w]])
    /\ trBusy' = [trBusy EXCEPT ![w] = 0]
    /\ UNCHANGED <<trNext, trResults, trPc, trObjects, trKtestObjects, trRan, trVerdict>> /\ UNCHANGED runVars /\ UNCHANGED Choice

\* ... and the main thread receives until every sender is gone.
CollectResult ==
    /\ trPc = "host" /\ trChan # <<>>
    /\ trResults' = Append(trResults, Head(trChan)) /\ trChan' = Tail(trChan)
    /\ trRan' = IF Outcome(Head(trChan)) = "pass" THEN trRan \cup {Head(trChan)} ELSE trRan
    /\ UNCHANGED <<trNext, trBusy, trPc, trObjects, trKtestObjects, trVerdict>> /\ UNCHANGED runVars /\ UNCHANGED Choice

\* (mutant) The receiver stops when it has nothing to read.
SendersIdle == \A w \in TrWorkers : trBusy[w] <= 0

SendersGone == \A w \in TrWorkers : trBusy[w] = -1

HostVerdict ==
    /\ trPc = "host" /\ trChan = <<>> /\ (Selected("host") => SendersGone)
    /\ IF Selected("host") /\ \E i \in DOMAIN trResults : Outcome(trResults[i]) # "pass"
       THEN Bail
       ELSE trPc' = "build" /\ UNCHANGED trVerdict
    /\ UNCHANGED <<trObjects, trKtestObjects, trRan>> /\ UNCHANGED hostVars /\ UNCHANGED runVars /\ UNCHANGED Choice

-----------------------------------------------------------------------------
\* do_build, when a suite needs it: the artifacts of the build.
KernelCrates == {"hadron-kernel", "hadron-drivers", "boot"}

Build ==
    /\ trPc = "build"
    /\ IF \E s \in {"kernel", "ktest", "user"} : Selected(s)
       THEN /\ trPc' = "kernel"
            /\ trObjects' = [c \in KernelCrates |-> "plain"]
            /\ UNCHANGED trVerdict
       ELSE trPc' = "end" /\ trVerdict' = "ok" /\ UNCHANGED trObjects
    /\ UNCHANGED <<trKtestObjects, trRan>> /\ UNCHANGED hostVars /\ UNCHANGED runVars /\ UNCHANGED Choice

StartFirst(bins) == trBin' = IF bins = <<>> THEN 0 ELSE 1

\* compile_kernel_tests: the dependencies that are not there yet, then every test
\* file twice, the second time with the symbols of the first.  One that cannot be
\* compiled ends the command.
CompileKernelTests ==
    /\ trPc = "kernel" /\ trBin = 0 /\ trAt = 1
    /\ IF ~Selected("kernel") \/ TrKernel = <<>>
       THEN trPc' = "ktest" /\ UNCHANGED <<trBin, trVerdict, trObjects>>
       ELSE /\ trObjects' = [c \in DOMAIN trObjects \cup {"test-deps"} |-> IF c \in DOMAIN trObjects THEN trObjects[c] ELSE "plain"]
            /\ \/ StartFirst(TrKernel) /\ UNCHANGED <<trPc, trVerdict>>
               \/ "compile" \in DOMAIN trBad /\ Bail /\ UNCHANGED trBin
    /\ UNCHANGED <<trKtestObjects, trAt, trInst, trLeft, trFailed, trRan>> /\ UNCHANGED hostVars /\ UNCHANGED Choice

\* TestArgs::parse.
Flagged(name) == \E i \in DOMAIN trArgs : trArgs[i] = <<"flag", name>>
Words == SelectSeq([i \in DOMAIN trArgs |->
            IF trArgs[i][1] = "word" /\ ~(i > 1 /\ trArgs[i - 1] = <<"flag", "test-threads">>) THEN trArgs[i][2] ELSE <<>>], LAMBDA w : w # <<>>)

\* TestArgs::matches.
TrMatches(t) ==
    \/ Words = <<>>
    \/ LET n == TrNames[t]
           f == Words[1]
       IN IF Flagged("exact") THEN n = f
          ELSE \E i \in 0..Len(n) : i + Len(f) <= Len(n) /\ SubSeq(n, i + 1, i + Len(f)) = f

\* A run of QEMU ends: with the code the kernel wrote, or by its time-out.
QemuEnds(success, bins, next) ==
    /\ trFailed' = IF success THEN trFailed ELSE trFailed \cup {trBin}
    /\ IF trBin < Len(bins)
       THEN trBin' = trBin + 1 /\ trAt' = 1 /\ UNCHANGED <<trPc, trVerdict>>
       ELSE /\ trBin' = 0 /\ trAt' = 1
            /\ IF trFailed' # {} THEN Bail
               ELSE IF next = "end" THEN trPc' = "end" /\ trVerdict' = "ok" ELSE trPc' = next /\ UNCHANGED trVerdict

\* exit: the code of a panic is not the one that stands for success.
EndOf(t) == FALSE

\* TestHarness::run: the tests that match, in order; a panic ends the machine.
HarnessTest ==
    /\ trPc = "kernel" /\ trBin > 0
    /\ LET tests == TrKernel[trBin]
       IN IF Flagged("list") \/ trAt > Len(tests)
          THEN QemuEnds(TRUE, TrKernel, "ktest") /\ UNCHANGED trRan
          ELSE IF TrMatches(tests[trAt]) /\ Outcome(tests[trAt]) # "pass"
               THEN QemuEnds(EndOf(tests[trAt]), TrKernel, "ktest") /\ UNCHANGED trRan
               ELSE /\ trAt' = trAt + 1
                    /\ trRan' = IF TrMatches(tests[trAt]) THEN trRan \cup {tests[trAt]} ELSE trRan
                    /\ UNCHANGED <<trBin, trFailed, trPc, trVerdict>>
    /\ UNCHANGED <<trObjects, trKtestObjects, trInst, trLeft>> /\ UNCHANGED hostVars /\ UNCHANGED Choice

-----------------------------------------------------------------------------
\* compile_ktest_kernel: three crates again, with the tests in, into artifacts of
\* their own.
KtestApart == UNCHANGED trObjects

CompileKtest ==
    /\ trPc = "ktest" /\ trBin = 0
    /\ IF ~Selected("ktest")
       THEN trPc' = "user" /\ UNCHANGED <<trBin, trKtestObjects, trObjects>>
       ELSE /\ trBin' = 1
            /\ KtestApart
            /\ trKtestObjects' = [c \in DOMAIN trObjects |-> IF c \in KernelCrates THEN "ktest" ELSE trObjects[c]]
            /\ UNCHANGED trPc
    /\ UNCHANGED <<trAt, trInst, trLeft, trFailed, trRan, trVerdict>> /\ UNCHANGED hostVars /\ UNCHANGED Choice

Stages == <<"early_boot", "before_executor", "with_executor", "userspace">>
KtestOrder == FlattenSeq([s \in 1..Len(Stages) |-> SelectSeq(TrKtests, LAMBDA t : t.stage = Stages[s])])

\* run_sync_test, run_single_async_test: a panic ends the machine, the watchdog
\* or the time-out ends a test that hangs.
KtestRuns ==
    /\ trPc = "ktest" /\ trBin > 0 /\ trAt <= Len(KtestOrder) /\ KtestOrder[trAt].kind # Instanced
    /\ LET t == KtestOrder[trAt].name
       IN IF Outcome(t) = "pass"
          THEN trAt' = trAt + 1 /\ trRan' = trRan \cup {t} /\ UNCHANGED <<trBin, trFailed, trPc, trVerdict>>
          ELSE QemuEnds(EndOf(t), <<1>>, "user") /\ UNCHANGED trRan
    /\ UNCHANGED <<trObjects, trKtestObjects, trInst, trLeft>> /\ UNCHANGED hostVars /\ UNCHANGED Choice

\* AsyncBarrier: the instances come in their order; the last one goes on at once,
\* the others at their next turn.
BarrierTurns(i, n) == IF i < n THEN 1 ELSE 0

\* run_instanced_async_test: a task per instance ...
InstancesStart ==
    /\ trPc = "ktest" /\ trBin > 0 /\ trAt <= Len(KtestOrder) /\ KtestOrder[trAt].kind = Instanced /\ trInst = <<>>
    /\ LET w == KtestOrder[trAt].work IN trInst' = [i \in DOMAIN w |-> w[i] + BarrierTurns(i, Len(w))]
    /\ trLeft' = TrYields
    /\ UNCHANGED <<trObjects, trKtestObjects, trPc, trBin, trAt, trFailed, trRan, trVerdict>> /\ UNCHANGED hostVars /\ UNCHANGED Choice

YieldsDone == trLeft = 0

\* ... that get their turn at every yield; the last of what one does may panic.
InstancesTurn ==
    /\ trPc = "ktest" /\ trInst # <<>> /\ ~YieldsDone
    /\ IF Outcome(KtestOrder[trAt].name) = "panic" /\ \E i \in DOMAIN trInst : trInst[i] = 1
       THEN QemuEnds(EndOf(KtestOrder[trAt].name), <<1>>, "user") /\ trInst' = <<>> /\ UNCHANGED trLeft
       ELSE /\ trInst' = [i \in DOMAIN trInst |-> IF trInst[i] > 0 THEN trInst[i] - 1 ELSE 0]
            /\ trLeft' = trLeft - 1
            /\ UNCHANGED <<trBin, trAt, trFailed, trPc, trVerdict>>
    /\ UNCHANGED <<trObjects, trKtestObjects, trRan>> /\ UNCHANGED hostVars /\ UNCHANGED Choice

\* After so many yields the test counts as passed.
InstancesOk ==
    /\ trPc = "ktest" /\ trInst # <<>> /\ YieldsDone
    /\ trAt' = trAt + 1 /\ trInst' = <<>>
    /\ trRan' = IF \A i \in DOMAIN trInst : trInst[i] = 0 THEN trRan \cup {KtestOrder[trAt].name} ELSE trRan
    /\ UNCHANGED <<trObjects, trKtestObjects, trPc, trBin, trLeft, trFailed, trVerdict>> /\ UNCHANGED hostVars /\ UNCHANGED Choice

\* run_async_stages ends the machine.
KtestEnds ==
    /\ trPc = "ktest" /\ trBin > 0 /\ trAt > Len(KtestOrder)
    /\ QemuEnds(TRUE, <<1>>, "user")
    /\ UNCHANGED <<trObjects, trKtestObjects, trInst, trLeft, trRan>> /\ UNCHANGED hostVars /\ UNCHANGED Choice

-----------------------------------------------------------------------------
\* compile_userspace_tests.
CompileUserTests ==
    /\ trPc = "user" /\ trBin = 0
    /\ IF ~Selected("user") \/ TrUser = <<>>
       THEN trPc' = "end" /\ trVerdict' = "ok" /\ UNCHANGED trBin
       ELSE StartFirst(TrUser) /\ UNCHANGED <<trPc, trVerdict>>
    /\ UNCHANGED <<trObjects, trKtestObjects, trAt, trInst, trLeft, trFailed, trRan>> /\ UNCHANGED hostVars /\ UNCHANGED Choice

\* run_utests in the place of init, its exit status 0 or 1; the kernel makes it the
\* exit code of the machine.
UserTest ==
    /\ trPc = "user" /\ trBin > 0
    /\ LET tests == TrUser[trBin]
       IN IF trAt > Len(tests) THEN QemuEnds(TRUE, TrUser, "end") /\ UNCHANGED trRan
          ELSE IF Outcome(tests[trAt]) # "pass" THEN QemuEnds(EndOf(tests[trAt]), TrUser, "end") /\ UNCHANGED trRan
          ELSE trAt' = trAt + 1 /\ trRan' = trRan \cup {tests[trAt]} /\ UNCHANGED <<trBin, trFailed, trPc, trVerdict>>
    /\ UNCHANGED <<trObjects, trKtestObjects, trInst, trLeft>> /\ UNCHANGED hostVars /\ UNCHANGED Choice

TrNext ==
    \/ \E w \in TrWorkers : WorkerTakes(w) \/ WorkerSends(w)
    \/ CollectResult \/ HostVerdict \/ Build \/ CompileKernelTests \/ HarnessTest \/ CompileKtest \/ KtestRuns
    \/ InstancesStart \/ InstancesTurn \/ InstancesOk \/ KtestEnds \/ CompileUserTests \/ UserTest

TrSpec == TrInit /\ [][TrNext]_trVars

-----------------------------------------------------------------------------
\* The tests a run of the command is about.
Wanted ==
    (IF Selected("host") THEN ToSet(TrCrates) ELSE {})
    \cup (IF Selected("kernel") /\ ~Flagged("list") THEN {t \in UNION {ToSet(TrKernel[b]) : b \in DOMAIN TrKernel} : Words = <<>> \/ (Flagged("exact") => TrNames[t] = Words[1])} ELSE {})
    \cup (IF Selected("ktest") THEN {TrKtests[i].name : i \in DOMAIN TrKtests} ELSE {})
    \cup (IF Selected("user") THEN UNION {ToSet(TrUser[b]) : b \in DOMAIN TrUser} ELSE {})

\* The command succeeds only when every test it is about has run and passed
\* (of the kernel's binaries, every one the filter names), and fails only when one
\* of them did not: whichever worker was last, whichever binary failed first.
VerdictRight ==
    /\ (trVerdict = "ok" /\ (Words = <<>> \/ Flagged("exact"))) => Wanted \subseteq trRan
    /\ trVerdict = "fail" => \E t \in DOMAIN trBad : t = "compile" \/ t \in Wanted

\* No crate is tested twice, and when the host tests are over all are.
CratesTestedOnce ==
    LET taken == trResults \o trChan \o SetToSeq({TrCrates[trBusy[w]] : w \in {v \in TrWorkers : trBusy[v] > 0}})
    IN IsInjective(taken) /\ (trPc # "host" /\ Selected("host") => ToSet(taken) = ToSet(TrCrates))

\* The kernel that runs the user tests is the one without tests in it, and the one
\* with tests has all its parts with tests.
KernelsApart ==
    /\ trPc = "user" => \A c \in KernelCrates : trObjects[c] = "plain"
    /\ trPc = "ktest" /\ trBin > 0 => \A c \in KernelCrates : trKtestObjects[c] = "ktest"
=============================================================================
