---------------------------- MODULE GuestRelease ----------------------------
(***************************************************************************)
(* The guest release toolchain: `build-guest' compiles the RISC0 and SP1   *)
(* guest programs in a toolchain image and exports them, file by file, to  *)
(* the checked-in artifact directory with a provenance manifest per        *)
(* backend; `release-image' packages that directory into the runtime       *)
(* image; `register-image' makes the verifier contracts trust the digests. *)
(* One command runs at a time in a worktree that a developer also edits    *)
(* and commits; it may fail at every external command and be killed        *)
(* between, or in the middle of, two writes.                               *)
(*                                                                         *)
(* A file's content is what it was built from.  None is a missing file and *)
(* Torn one whose writer was killed.                                       *)
(***************************************************************************)
EXTENDS Integers, Sequences, FiniteSets, TLC

CONSTANTS Casts, None, Torn

VARIABLES cast,       \* the scenario: who may do what, how often
          tree,       \* the worktree: sources, artifacts, manifests
          head,       \* the committed revision, same shape
          toolchain,  \* backend -> local toolchain image
          target,     \* backend -> output directory -> binary -> content
          proc,       \* the running command
          cache,      \* the layer cache's directories: current, next and old
          registry,   \* image tag -> published image
          chain,      \* [trusted, pool]: the verifier's list, sent transactions
          last,       \* the last command that ended, None before one has
          left,       \* edits, crashes and commands still allowed
          doubtful    \* history: the outcomes of builds that did not see the
                      \* inputs they were recorded with

vars == <<cast, tree, head, toolchain, target, proc, cache, registry, chain, last, left,
          doubtful>>

Backends == {"risc0", "sp1"}
Bins == <<"proposal", "aggregation">>
Dirs == {"release", "docker", "legacy", "export"}
Packages == {"guest", "common", "deep", "host"}

Key(b, n, kind) == <<b, n, kind>>
Artifacts == {"risc0"} \X {"proposal", "aggregation", "retired"} \X {"elf"}
        \cup {"sp1"} \X {"proposal", "aggregation", "retired"} \X {"elf", "vk"}
BinNames == {Bins[i] : i \in DOMAIN Bins}

-----------------------------------------------------------------------------
(* What a build depends on. *)

\* The crates a guest crate names, and with the bench feature one more.
Dependencies(p, bench) ==
    CASE p = "guest" -> {"common"} \cup (IF bench THEN {"host"} ELSE {})
      [] p = "common" -> {"deep"}
      [] OTHER -> {}

\* cargo metadata's resolve graph, walked from the guest crate.
guest_source_paths(bench) ==
    LET Step(S) == S \cup UNION {Dependencies(p, bench) : p \in S}
    IN  Step(Step(Step({"guest"})))

\* The sources really compiled into a guest, whatever is hashed.
Compiled(bench) ==
    {"guest", "common", "deep"} \cup (IF bench THEN {"host"} ELSE {})

\* The first value that is set, of the flag, the environment and the lock file.
resolve_sp1_docker_tag(flag, envtag) ==
    LET lock == "lock" IN
    IF flag /= None THEN flag ELSE IF envtag /= None THEN envtag ELSE lock

\* The environment that reaches the hash: the toolchain image and, for SP1, the
\* docker tag.
hash_backend_env(b, cmd) ==
    [image |-> cmd.image,
     tag |-> IF b = "sp1" THEN resolve_sp1_docker_tag(None, cmd.tag) ELSE None]

build_input_paths(t, bench) ==
    [src |-> [p \in guest_source_paths(bench) |-> t.src[p]], docker |-> t.docker]

compute_backend_fingerprint(t, b, cmd) ==
    [backend |-> b, env |-> hash_backend_env(b, cmd), inputs |-> build_input_paths(t, cmd.bench)]

compute_guest_fingerprint(t, b, cmd) ==
    [bench |-> cmd.bench, rest |-> compute_backend_fingerprint(t, b, cmd)]

-----------------------------------------------------------------------------
(* The provenance manifest of a backend. *)

expected_artifacts(b) ==
    {Key(b, n, "elf") : n \in BinNames}
    \cup (IF b = "sp1" THEN {Key(b, n, "vk") : n \in BinNames} ELSE {})

actual_backend_artifact_keys(t, b) == {k \in Artifacts : k[1] = b /\ t.files[k] /= None}

artifact_digests(t, b) == [k \in expected_artifacts(b) |-> t.files[k]]

\* Mutant: the manifest's digests are not compared with the files.
DigestsUnread(t, b, bench, fingerprint) ==
    CASE t.prov[b] = None -> "stale"
      [] t.prov[b] = Torn -> "error"
      [] OTHER -> IF t.prov[b].bench = bench /\ t.prov[b].fingerprint = fingerprint
                  THEN "current" ELSE "stale"

\* A missing manifest is stale, one that does not parse is an error.  A present
\* one must name this fingerprint and exactly the files on disk.
check_backend_with_source(t, b, bench, fingerprint) ==
    CASE t.prov[b] = None -> "stale"
      [] t.prov[b] = Torn -> "error"
      [] OTHER ->
           IF /\ t.prov[b].bench = bench
              /\ t.prov[b].fingerprint = fingerprint
              /\ actual_backend_artifact_keys(t, b) = expected_artifacts(b)
              /\ t.prov[b].artifacts = artifact_digests(t, b)
           THEN "current" ELSE "stale"

check_backend(t, b, cmd) ==
    check_backend_with_source(t, b, cmd.bench, compute_guest_fingerprint(t, b, cmd))

write_backend_with_source(t, b, bench, fingerprint) ==
    [bench |-> bench, fingerprint |-> fingerprint, artifacts |-> artifact_digests(t, b)]

write_backend(t, b, cmd) ==
    write_backend_with_source(t, b, cmd.bench, compute_guest_fingerprint(t, b, cmd))

-----------------------------------------------------------------------------
(* Compiling and exporting. *)

\* The label the local toolchain image must carry.
WantedLabel(b, cmd) ==
    IF b = "sp1" THEN resolve_sp1_docker_tag(None, cmd.tag) ELSE "pinned"

\* The toolchain a command asks for, in the state of its Dockerfile.
Tool(t, b, cmd) ==
    IF cmd.image = "default"
    THEN [label |-> WantedLabel(b, cmd), docker |-> t.docker]
    ELSE [label |-> cmd.image, docker |-> 0]

\* What a compiler run puts in a binary: the sources it read and the toolchain.
Stamp(t, b, cmd) ==
    [src |-> [p \in Compiled(cmd.bench) |-> t.src[p]],
     tool |-> IF cmd.image = "default" THEN toolchain[b] ELSE Tool(t, b, cmd)]

\* Reuse the local image when its label is the wanted one; the Dockerfile it was
\* built from is not looked at.
ensure_local_sp1_toolchain_image(image, label, t) ==
    IF image /= None /\ image.label = label THEN image ELSE [label |-> label, docker |-> t.docker]

ensure_local_risc0_toolchain_image(image, label, t) ==
    IF image /= None /\ image.label = label THEN image ELSE [label |-> label, docker |-> t.docker]

\* The first k binaries of a compiler run over what its directory held.
Compile(dir, k, stamp) ==
    [n \in BinNames |-> IF \E j \in 1..k : Bins[j] = n THEN stamp ELSE dir[n]]

\* The toolchain image runs plain cargo; cargo-risczero, in either of its
\* layouts, and cargo-prove have an output directory of their own.
build_risc0_with_toolchain_image(dirs, k, stamp) ==
    [dirs EXCEPT !.release = Compile(@, k, stamp)]

build_risc0(dirs, k, stamp, cmd) ==
    IF cmd.image = "none" THEN [dirs EXCEPT ![cast.risczero] = Compile(@, k, stamp)]
    ELSE build_risc0_with_toolchain_image(dirs, k, stamp)

build_sp1_with_toolchain_image(dirs, k, stamp) ==
    [dirs EXCEPT !.export = Compile(@, k, stamp)]

build_sp1(dirs, k, stamp, cmd) ==
    IF cmd.image = "none" THEN [dirs EXCEPT !.docker = Compile(@, k, stamp)]
    ELSE build_sp1_with_toolchain_image(dirs, k, stamp)

\* The directories searched for a compiled binary, in order and whichever of them
\* this build wrote.
export_risc0_elves(dirs, n) ==
    LET found == SelectSeq(<<"release", "docker", "legacy">>, LAMBDA d : dirs[d][n] /= None)
    IN  IF found = <<>> THEN None ELSE dirs[found[1]][n]

export_sp1_elves(dirs, n, cmd) ==
    IF cmd.image = "none" THEN dirs.docker[n] ELSE dirs.export[n]

Exported(b, n, cmd) ==
    IF b = "risc0" THEN export_risc0_elves(target[b], n)
    ELSE export_sp1_elves(target[b], n, cmd)

\* The directory the build of a command writes.
OutDir(b, cmd) ==
    IF b = "risc0" THEN IF cmd.image = "none" THEN cast.risczero ELSE "release"
    ELSE IF cmd.image = "none" THEN "docker" ELSE "export"

\* The verifying key of an ELF; none can be derived from a torn one.
derive_sp1_vk(elf) == elf

verified_sp1_vk(t, n) ==
    /\ t.files[Key("sp1", n, "elf")] \notin {None, Torn}
    /\ t.files[Key("sp1", n, "vk")] = derive_sp1_vk(t.files[Key("sp1", n, "elf")])

-----------------------------------------------------------------------------
(* A command: what it was asked and how far it is. *)

\* The guest backends a runtime image refreshes, "error" for flags that contradict
\* each other, "none" when there is nothing to refresh.
resolve_guest_refresh_backend(image, force, skip, refresh) ==
    LET selected == IF refresh /= "none" THEN refresh
                    ELSE IF image = "host" THEN "none" ELSE image
    IN  IF \/ skip /\ (force \/ refresh /= "none")
           \/ ~skip /\ refresh /= "none" /\ image /= "host"
                    /\ refresh \notin {image, "all"}
           \/ ~skip /\ force /\ selected = "none"
        THEN "error"
        ELSE IF skip THEN "none" ELSE selected

BackendsOf(which) ==
    CASE which = "all" -> <<"risc0", "sp1">> [] which = "none" -> <<>> [] OTHER -> <<which>>

\* Where a build starts for a backend: a forced one, and the bench's, do not look
\* at provenance.
ensure_release_backend(cmd) == IF cmd.force \/ cmd.op = "bench" THEN "image" ELSE "check"

\* Whether the manifest is written after the export.  A plain build, which is what
\* the bench and a forced image release call, leaves it alone.
Records(cmd) == cmd.op = "build" \/ (cmd.op = "release" /\ ~cmd.force)

ExpectChain == 1
ensure_profile_chain_id(id) == id = ExpectChain

NewProc(cmd, at, todo) ==
    [cmd |-> cmd, at |-> at, todo |-> todo, bin |-> 1, rev |-> None, image |-> None,
     plan |-> <<>>, seen |-> <<>>, receipt |-> None, touched |-> FALSE]

Begin(cmd) ==
    /\ proc = None /\ left.commands > 0
    /\ left' = [left EXCEPT !.commands = @ - 1]
    /\ proc' = CASE cmd.op = "check" -> NewProc(cmd, "check", BackendsOf(cmd.which))
                 [] cmd.op \in {"build", "bench"} ->
                      NewProc(cmd, ensure_release_backend(cmd), BackendsOf(cmd.which))
                 [] cmd.op = "release" -> NewProc(cmd, "resolve", <<>>)
                 [] cmd.op = "download" -> NewProc(cmd, "asset", BackendsOf(cmd.which))
                 [] cmd.op \in {"register", "digests"} ->
                      NewProc(cmd, "plan", BackendsOf(cmd.which))
    /\ UNCHANGED <<cast, tree, head, toolchain, target, cache, registry, chain, last, doubtful>>

\* The command ends.
End(ok) ==
    /\ proc' = None
    /\ last' = [cmd |-> proc.cmd, ok |-> ok, plan |-> proc.plan]

Goto(at) == proc' = [proc EXCEPT !.at = at] /\ UNCHANGED last

\* The next backend of the command, or what follows the last one.
NextBackend ==
    IF Len(proc.todo) > 1
    THEN /\ proc' = [proc EXCEPT !.todo = Tail(@), !.bin = 1, !.touched = FALSE,
                                 !.at = IF proc.cmd.op = "check" THEN "check"
                                        ELSE ensure_release_backend(proc.cmd)]
         /\ UNCHANGED last
    ELSE IF proc.cmd.op = "release" THEN Goto("clean after") ELSE End(TRUE)

At(step) == proc /= None /\ proc.at = step
B == Head(proc.todo)
Bin == Bins[proc.bin]

\* check_backend, and what a caller makes of it: check mode fails on a stale
\* backend, a refresh builds it, and an unreadable manifest ends both.
verify_release_backend ==
    /\ At("check")
    /\ \E s \in {check_backend(tree, B, proc.cmd)} :
         CASE s = "current" -> NextBackend
           [] s = "stale" /\ proc.cmd.op /= "check" -> Goto("image")
           [] OTHER -> End(FALSE)
    /\ UNCHANGED <<cast, tree, head, toolchain, target, cache, registry, chain, left, doubtful>>

ToolchainImage ==
    /\ At("image")
    /\ \/ /\ toolchain' = [toolchain EXCEPT ![B] =
                IF proc.cmd.image /= "default" THEN @
                ELSE IF B = "sp1"
                THEN ensure_local_sp1_toolchain_image(@, WantedLabel(B, proc.cmd), tree)
                ELSE ensure_local_risc0_toolchain_image(@, WantedLabel(B, proc.cmd), tree)]
          /\ Goto("compile")
       \/ End(FALSE) /\ UNCHANGED toolchain
    /\ UNCHANGED <<cast, tree, head, target, cache, registry, chain, left, doubtful>>

\* One compiler run for all binaries; a failing one may have finished the first.
RunCompiler ==
    /\ At("compile")
    /\ \E k \in 0..Len(Bins) :
         /\ target' = [target EXCEPT ![B] =
                IF B = "sp1" THEN build_sp1(@, k, Stamp(tree, B, proc.cmd), proc.cmd)
                ELSE build_risc0(@, k, Stamp(tree, B, proc.cmd), proc.cmd)]
         /\ IF k = Len(Bins) THEN Goto("export") ELSE End(FALSE)
    /\ UNCHANGED <<cast, tree, head, toolchain, cache, registry, chain, left, doubtful>>

\* The ELF of one binary, then for SP1 its verifying key, binary after binary.
ExportElf ==
    /\ At("export")
    /\ \E content \in {Exported(B, Bin, proc.cmd)} :
         IF content = None
         THEN End(FALSE) /\ UNCHANGED tree
         ELSE /\ tree' = [tree EXCEPT !.files[Key(B, Bin, "elf")] = content]
              /\ IF B = "sp1" THEN Goto("vk") ELSE
                 IF proc.bin < Len(Bins)
                 THEN proc' = [proc EXCEPT !.bin = @ + 1] /\ UNCHANGED last
                 ELSE Goto("record")
    /\ UNCHANGED <<cast, head, toolchain, target, cache, registry, chain, left, doubtful>>

sp1_vk_bin ==
    /\ At("vk")
    /\ tree' = [tree EXCEPT !.files[Key(B, Bin, "vk")] =
                    derive_sp1_vk(tree.files[Key(B, Bin, "elf")])]
    /\ IF proc.bin < Len(Bins)
       THEN proc' = [proc EXCEPT !.bin = @ + 1, !.at = "export"] /\ UNCHANGED last
       ELSE Goto("record")
    /\ UNCHANGED <<cast, head, toolchain, target, cache, registry, chain, left, doubtful>>

\* The programs of a backend with the inputs they are believed to come from.
Outcome(t, b, bench) == <<b, artifact_digests(t, b), build_input_paths(t, bench)>>

\* The programs just exported may come from other inputs than the tree's: the tree
\* was edited after the compiler ran, the export found a program of another build,
\* or the toolchain image was made from another Dockerfile.
Doubt ==
    \/ proc.touched
    \/ \E n \in BinNames : Exported(B, n, proc.cmd) /= target[B][OutDir(B, proc.cmd)][n]
    \/ proc.cmd.image = "default" /\ toolchain[B].docker /= tree.docker

\* The fingerprint in the manifest is computed after the build.
RecordProvenance ==
    /\ At("record")
    /\ doubtful' = doubtful \cup
          IF Doubt THEN {Outcome(tree, B, proc.cmd.bench)} ELSE {}
    /\ tree' = IF Records(proc.cmd)
               THEN [tree EXCEPT !.prov[B] = write_backend(tree, B, proc.cmd)] ELSE tree
    /\ NextBackend
    /\ UNCHANGED <<cast, head, toolchain, target, cache, registry, chain, left>>

-----------------------------------------------------------------------------
(* release-image *)

ensure_clean_source_tree(t, h) == t = h

\* The directory of the next layer cache is emptied.
reset_dir(c) == [c EXCEPT !.next = "empty"]

\* The states a promotion goes through: the old cache makes room for the current
\* one, the next one becomes current, and the old one goes.
promote_local_cache(c) ==
    LET c1 == [c EXCEPT !.old = None]
        c2 == IF c.current = None THEN c1 ELSE [c1 EXCEPT !.old = c.current, !.current = None]
        c3 == [c2 EXCEPT !.current = c.next, !.next = None]
    IN  <<c1, c2, c3, [c3 EXCEPT !.old = None]>>

\* Flags, the first look at the worktree, and the guest refresh if there is one.
\* A refresh needs the guest-tools feature.
ReleaseStart ==
    /\ At("resolve")
    /\ \E which \in {resolve_guest_refresh_backend(proc.cmd.which, proc.cmd.force,
                                                   proc.cmd.skip, proc.cmd.refresh)} :
         IF which = "error" \/ ~ensure_clean_source_tree(tree, head)
         THEN End(FALSE) /\ UNCHANGED cache
         ELSE /\ cache' = reset_dir(cache)
              /\ IF which = "none" THEN Goto("revision")
                 ELSE /\ proc' = [proc EXCEPT !.todo = BackendsOf(which),
                                              !.at = ensure_release_backend(proc.cmd)]
                      /\ UNCHANGED last
    /\ UNCHANGED <<cast, tree, head, toolchain, target, registry, chain, left, doubtful>>

CleanAfterRefresh ==
    /\ At("clean after")
    /\ IF ensure_clean_source_tree(tree, head) THEN Goto("revision") ELSE End(FALSE)
    /\ UNCHANGED <<cast, tree, head, toolchain, target, cache, registry, chain, left, doubtful>>

source_revision ==
    /\ At("revision")
    /\ proc' = [proc EXCEPT !.rev = head, !.at = "buildx"]
    /\ UNCHANGED <<cast, tree, head, toolchain, target, cache, registry, chain, last, left, doubtful>>

\* buildx packages the worktree as it is now, labelled with the revision, and
\* exports its layer cache, index included unless the export was incomplete.
BuildImage ==
    /\ At("buildx")
    /\ \/ /\ proc' = [proc EXCEPT !.image = [rev |-> proc.rev, content |-> tree],
                                  !.at = "promote"]
          /\ cache' \in {[cache EXCEPT !.next = "index"], cache}
          /\ UNCHANGED last
       \/ End(FALSE) /\ UNCHANGED cache
    /\ UNCHANGED <<cast, tree, head, toolchain, target, registry, chain, left, doubtful>>

PromoteCache ==
    /\ At("promote")
    /\ IF cache.next /= "index" THEN End(FALSE) /\ UNCHANGED cache
       ELSE cache' = promote_local_cache(cache)[4] /\ Goto("push")
    /\ UNCHANGED <<cast, tree, head, toolchain, target, registry, chain, left, doubtful>>

\* docker push, and the digest read back from the local image.
PushImage ==
    /\ At("push")
    /\ \/ registry' = [registry EXCEPT ![proc.cmd.dest] =
                          [image |-> proc.image, cmd |-> proc.cmd, touched |-> proc.touched]]
          /\ \E ok \in BOOLEAN : End(ok)
       \/ End(FALSE) /\ UNCHANGED registry
    /\ UNCHANGED <<cast, tree, head, toolchain, target, cache, chain, left, doubtful>>

-----------------------------------------------------------------------------
(* download-guest-elves *)

\* The assets a release holds and the file patterns that fetch them.
asset_patterns(b) == IF b = "sp1" THEN <<"elf", "vk">> ELSE <<"elf">>

Assets(b, kind) == {k \in DOMAIN cast.assets : k[1] = b /\ k[3] = kind}

\* One pattern at a time; a download that fails may have replaced some files.
DownloadAssets ==
    /\ At("asset")
    /\ \E got \in SUBSET Assets(B, asset_patterns(B)[proc.bin]) :
         /\ tree' = [tree EXCEPT !.files =
                [k \in Artifacts |-> IF k \in got THEN cast.assets[k] ELSE @[k]]]
         /\ IF got /= Assets(B, asset_patterns(B)[proc.bin]) THEN End(FALSE)
            ELSE IF proc.bin < Len(asset_patterns(B))
            THEN proc' = [proc EXCEPT !.bin = @ + 1] /\ UNCHANGED last
            ELSE IF Len(proc.todo) > 1
            THEN proc' = [proc EXCEPT !.todo = Tail(@), !.bin = 1] /\ UNCHANGED last
            ELSE End(TRUE)
    /\ UNCHANGED <<cast, head, toolchain, target, cache, registry, chain, left, doubtful>>

-----------------------------------------------------------------------------
(* guest-digests and register-image *)

risc0_digest_entries(t) ==
    <<<<"risc0", "proposal", "image", t.files[Key("risc0", "proposal", "elf")]>>,
      <<"risc0", "aggregation", "image", t.files[Key("risc0", "aggregation", "elf")]>>>>

sp1_digest_entries(t) ==
    <<<<"sp1", "proposal", "bn254", t.files[Key("sp1", "proposal", "elf")]>>,
      <<"sp1", "proposal", "bytes", t.files[Key("sp1", "proposal", "elf")]>>,
      <<"sp1", "aggregation", "bn254", t.files[Key("sp1", "aggregation", "elf")]>>,
      <<"sp1", "aggregation", "bytes", t.files[Key("sp1", "aggregation", "elf")]>>>>

load_risc0_shasta_guest_elves_from_dir(t) ==
    \A n \in BinNames : t.files[Key("risc0", n, "elf")] /= None

load_sp1_shasta_guest_elves_from_dir(t) ==
    \A n \in BinNames, kind \in {"elf", "vk"} : t.files[Key("sp1", n, kind)] /= None

\* Both programs load and have a digest, and an SP1 one has the key its ELF gives.
Loads(t, b) ==
    IF b = "risc0"
    THEN /\ load_risc0_shasta_guest_elves_from_dir(t)
         /\ \A n \in BinNames : t.files[Key(b, n, "elf")] /= Torn
    ELSE /\ load_sp1_shasta_guest_elves_from_dir(t)
         /\ \A n \in BinNames : verified_sp1_vk(t, n)

plan_entries(t, bs) ==
    LET asked == {bs[i] : i \in DOMAIN bs} IN
    (IF "risc0" \in asked THEN risc0_digest_entries(t) ELSE <<>>)
    \o (IF "sp1" \in asked THEN sp1_digest_entries(t) ELSE <<>>)

\* guest-digests writes the same digests to a summary file and ends.
collect_guest_digests ==
    /\ proc' = None
    /\ last' = [cmd |-> proc.cmd, ok |-> TRUE, plan |-> plan_entries(tree, proc.todo)]

build_plan ==
    /\ At("plan")
    /\ IF \E i \in DOMAIN proc.todo : ~Loads(tree, proc.todo[i]) THEN End(FALSE)
       ELSE IF proc.cmd.op = "digests" THEN collect_guest_digests
       ELSE IF ~ensure_profile_chain_id(proc.cmd.chain) THEN End(FALSE)
       ELSE /\ proc' = [proc EXCEPT !.plan = plan_entries(tree, proc.todo), !.at = "look"]
            /\ UNCHANGED last
    /\ UNCHANGED <<cast, tree, head, toolchain, target, cache, registry, chain, left, doubtful>>

\* isTrusted of every call, one after the other; a dry run ends there.
check_plan ==
    /\ At("look")
    /\ IF Len(proc.seen) < Len(proc.plan)
       THEN /\ proc' = [proc EXCEPT !.seen = Append(@,
                           proc.plan[Len(proc.seen) + 1] \in chain.trusted)]
            /\ UNCHANGED last
       ELSE IF proc.cmd.apply THEN proc' = [proc EXCEPT !.at = "apply"] /\ UNCHANGED last
       ELSE End(TRUE)
    /\ UNCHANGED <<cast, tree, head, toolchain, target, cache, registry, chain, left, doubtful>>

\* Calls already trusted when they were looked at are passed over.
SendRegistration ==
    /\ At("apply")
    /\ IF proc.bin > Len(proc.plan) THEN End(TRUE) /\ UNCHANGED chain
       ELSE IF proc.seen[proc.bin]
       THEN proc' = [proc EXCEPT !.bin = @ + 1] /\ UNCHANGED <<last, chain>>
       ELSE \/ End(FALSE) /\ UNCHANGED chain
            \/ /\ chain' = [chain EXCEPT !.pool = @ \cup {<<proc.plan[proc.bin], left.commands>>}]
               /\ proc' = [proc EXCEPT !.at = "receipt", !.receipt = "none"]
               /\ UNCHANGED last
    /\ UNCHANGED <<cast, tree, head, toolchain, target, cache, registry, left, doubtful>>

\* The receipt, or its timeout; then the contract is read back and the status of
\* the transaction looked at.  The first failure ends the command.
apply_one ==
    /\ At("receipt")
    /\ IF /\ proc.receipt = "ok"
          /\ proc.plan[proc.bin] \in chain.trusted
       THEN proc' = [proc EXCEPT !.at = "apply", !.bin = @ + 1] /\ UNCHANGED last
       ELSE End(FALSE)
    /\ UNCHANGED <<cast, tree, head, toolchain, target, cache, registry, chain, left, doubtful>>

\* A transaction is mined, at any time after it was sent.
Mine(tx) ==
    /\ tx \in chain.pool
    /\ \E ok \in BOOLEAN :
         /\ chain' = [trusted |-> IF ok THEN chain.trusted \cup {tx[1]} ELSE chain.trusted,
                      pool |-> chain.pool \ {tx}]
         /\ proc' = IF At("receipt") /\ tx = <<proc.plan[proc.bin], left.commands>>
                    THEN [proc EXCEPT !.receipt = IF ok THEN "ok" ELSE "reverted"] ELSE proc
    /\ UNCHANGED <<cast, tree, head, toolchain, target, cache, registry, last, left, doubtful>>

-----------------------------------------------------------------------------
(* The developer and the machine. *)

\* The command compiled the worktree, or found it clean, and has not done with it.
AlreadyRead == proc.at \in {"export", "vk", "record", "revision", "buildx"}

\* An edit of a crate or of the toolchain's Dockerfile, while no command runs
\* unless the cast lets it.
Edit ==
    /\ left.edits > 0 /\ (proc = None \/ cast.live)
    /\ left' = [left EXCEPT !.edits = @ - 1]
    /\ tree' \in {[tree EXCEPT !.src[p] = @ + 1] : p \in cast.edited \ {"docker"}}
                 \cup {[tree EXCEPT !.docker = @ + 1] : p \in cast.edited \cap {"docker"}}
    /\ proc' = IF proc /= None /\ AlreadyRead
               THEN [proc EXCEPT !.touched = TRUE] ELSE proc
    /\ UNCHANGED <<cast, head, toolchain, target, cache, registry, chain, last, doubtful>>

Commit ==
    /\ cast.commits /\ proc = None /\ head /= tree
    /\ head' = tree
    /\ UNCHANGED <<cast, tree, toolchain, target, proc, cache, registry, chain, last, left, doubtful>>

Checkout ==
    /\ cast.commits /\ proc = None /\ head /= tree
    /\ tree' = head
    /\ UNCHANGED <<cast, head, toolchain, target, proc, cache, registry, chain, last, left, doubtful>>

\* The file a command is writing when it is killed.
Writing(t) ==
    CASE proc.at = "export" -> {[t EXCEPT !.files[Key(B, Bin, "elf")] = Torn]}
      [] proc.at = "vk" -> {[t EXCEPT !.files[Key(B, Bin, "vk")] = Torn]}
      [] proc.at = "record" /\ Records(proc.cmd) -> {[t EXCEPT !.prov[B] = Torn]}
      [] OTHER -> {}

Crash ==
    /\ proc /= None /\ left.crashes > 0
    /\ left' = [left EXCEPT !.crashes = @ - 1]
    /\ tree' \in {tree} \cup Writing(tree)
    /\ cache' \in {cache} \cup IF At("promote") /\ cache.next = "index"
                               THEN {promote_local_cache(cache)[i] : i \in 1..3} ELSE {}
    /\ proc' = None
    /\ UNCHANGED <<cast, head, toolchain, target, registry, chain, last, doubtful>>

-----------------------------------------------------------------------------

\* A committed tree built by cmd, or one without artifacts.
Unbuilt == [src |-> [p \in Packages |-> 0], docker |-> 0, files |-> [k \in Artifacts |-> None],
            prov |-> [b \in Backends |-> None]]

BuiltWith(cmd, bs) ==
    LET stamp(b) == [src |-> [p \in Compiled(cmd.bench) |-> 0], tool |-> Tool(Unbuilt, b, cmd)]
        t == [Unbuilt EXCEPT !.files =
                [k \in Artifacts |-> IF k[1] \in bs /\ k[2] \in BinNames THEN stamp(k[1]) ELSE None]]
    IN  [t EXCEPT !.prov = [b \in Backends |-> IF b \in bs THEN write_backend(t, b, cmd) ELSE None]]

Init ==
    /\ cast \in Casts
    /\ tree \in {Unbuilt} \cup {BuiltWith(cmd, cast.backends) : cmd \in cast.first}
    /\ head = tree
    /\ toolchain = [b \in Backends |-> None]
    /\ target = [b \in Backends |-> [d \in Dirs |-> [n \in BinNames |-> None]]]
    /\ proc = None
    /\ cache = [current |-> None, next |-> None, old |-> None]
    /\ registry = [d \in {"v1", "v2"} |-> None]
    /\ chain = [trusted |-> {}, pool |-> {}]
    /\ last = None
    /\ left = cast.left
    /\ doubtful = {}

BuildStep ==
    \/ verify_release_backend \/ ToolchainImage \/ RunCompiler
    \/ ExportElf \/ sp1_vk_bin \/ RecordProvenance

ReleaseStep ==
    ReleaseStart \/ CleanAfterRefresh \/ source_revision \/ BuildImage \/ PromoteCache
    \/ PushImage

RegisterStep == build_plan \/ check_plan \/ SendRegistration \/ apply_one

Next ==
    \/ \E cmd \in cast.commands : Begin(cmd)
    \/ BuildStep \/ ReleaseStep \/ DownloadAssets \/ RegisterStep
    \/ \E tx \in chain.pool : Mine(tx)
    \/ Edit \/ Commit \/ Checkout \/ Crash

Spec == Init /\ [][Next]_vars

-----------------------------------------------------------------------------

\* Every program of the backend was compiled from the sources in the tree.
FreshSources(t, b, cmd) ==
    \A n \in BinNames :
       /\ t.files[Key(b, n, "elf")] \notin {None, Torn}
       /\ t.files[Key(b, n, "elf")].src = [p \in Compiled(cmd.bench) |-> t.src[p]]

\* So it was, with the toolchain the command asks for, and every verifying key is
\* its program's.
Fresh(t, b, cmd) ==
    /\ FreshSources(t, b, cmd)
    /\ \A n \in BinNames :
          /\ t.files[Key(b, n, "elf")].tool = Tool(t, b, cmd)
          /\ b = "sp1" => t.files[Key(b, n, "vk")] = t.files[Key(b, n, "elf")]

\* Whenever `build-guest --check' would call a backend current, its programs were
\* compiled from the sources in the worktree (check_backend, write_backend,
\* export_risc0_elves).
CheckedIsFresh ==
    \A cmd \in cast.commands : \A b \in cast.backends :
       (cmd.op = "check" /\ check_backend(tree, b, cmd) = "current")
          => FreshSources(tree, b, cmd)

\* Whenever `build-guest --check' would call a backend current, its programs were
\* built from the worktree's sources and Dockerfile and their keys fit: however a
\* build was killed, failed, downloaded over, checked out or followed by edits
\* (check_backend_with_source, ensure_release_backend, export_sp1_elves).  The
\* one exception is what a build recorded for inputs it had not seen.
CurrentIsFresh ==
    \A cmd \in cast.commands : \A b \in cast.backends :
       /\ cmd.op = "check" /\ check_backend(tree, b, cmd) = "current"
       /\ Outcome(tree, b, cmd.bench) \notin doubtful
       => Fresh(tree, b, cmd)

\* A published runtime image that nobody edited while it was packaged holds exactly
\* the revision in its label, and the guests it was asked to refresh are those of
\* that revision, with the exception above (run, ensure_clean_source_tree,
\* source_revision in release_image.rs).
PublishedIsCommitted ==
    \A d \in DOMAIN registry : registry[d] /= None =>
       LET image == registry[d].image
           cmd == registry[d].cmd
           which == resolve_guest_refresh_backend(cmd.which, cmd.force, cmd.skip, cmd.refresh)
       IN  /\ ~registry[d].touched => image.content = image.rev
           /\ \A b \in {BackendsOf(which)[i] : i \in DOMAIN BackendsOf(which)} :
                 \/ Outcome(image.rev, b, FALSE) \in doubtful
                 \/ Fresh(image.rev, b, cmd)

\* When register-image --apply reports success every digest of its plan is trusted
\* on chain, whatever timed out, reverted or landed late in this run and the runs
\* before it (run, apply_one in register_image.rs).
AppliedIsTrusted ==
    IF last = None THEN TRUE
    ELSE (last.ok /\ last.cmd.op = "register" /\ last.cmd.apply)
            => \A i \in DOMAIN last.plan : last.plan[i] \in chain.trusted
=============================================================================
