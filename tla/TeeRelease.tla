----------------------------- MODULE TeeRelease -----------------------------
(***************************************************************************)
(* release-tee-providers: the two variants of the local SGX provider image *)
(* and one image per external provider of release/providers.toml are built,*)
(* compared, pushed under the release tag and written to an attestation    *)
(* manifest.  Every external command may fail, the signing key and the     *)
(* source move between commands, and a release is tried again after a      *)
(* failure.                                                                *)
(*                                                                         *)
(* An image is what it was built from; its digest is the image itself.     *)
(***************************************************************************)
EXTENDS Integers, Sequences, FiniteSets, TLC

CONSTANTS Tags, External, None, MaxMoves

VARIABLES source,    \* [commit, dirty, key]: the worktree and the signing secret
          lock,      \* the lines of release/providers.toml
          published, \* image reference -> image, None when the tag is free
          manifest,  \* release tag -> the manifest on disk
          run,       \* the running command
          moves      \* commands, source moves and key rotations so far

vars == <<source, lock, published, manifest, run, moves>>

-----------------------------------------------------------------------------
(* Tags and image references. *)

Variants == <<FALSE, TRUE>>

\* A tag is [name, edmm]: the EDMM variant's has the reserved suffix.
local_sgx_variant_tag(tag, edmm) == [tag EXCEPT !.edmm = edmm]

local_provider_image_ref(tag, repository) == <<repository, tag>>

\* Names an OCI registry takes; the variant's tag is longer than the release's.
validate_oci_tag(tag) == tag.name /= "malformed"

validate_release_tag(tag) ==
    /\ validate_oci_tag(tag)
    /\ ~tag.edmm
    /\ \A i \in DOMAIN Variants : validate_oci_tag(local_sgx_variant_tag(tag, Variants[i]))

LocalRefs(tag) ==
    [i \in DOMAIN Variants |-> local_provider_image_ref(local_sgx_variant_tag(tag, Variants[i]), "local")]

release_destination_image_refs(tag) ==
    LocalRefs(tag) \o <<local_provider_image_ref(tag, External)>>

Refs == {<<"local", [name |-> t, edmm |-> e]>> : t \in Tags, e \in BOOLEAN}
        \cup {<<External, [name |-> t, edmm |-> FALSE]>> : t \in Tags}

-----------------------------------------------------------------------------
(* The provider lock: a header line per provider, then its fields. *)

Line(kind, value) == [kind |-> kind, value |-> value]

\* The section a line belongs to is that of the last header before it.
Section(lines, i) ==
    LET above == {j \in 1..i : lines[j].kind = "header"}
    IN  IF above = {} THEN None
        ELSE lines[CHOOSE j \in above : \A k \in above : k <= j].value

InTarget(lines, provider) ==
    {i \in DOMAIN lines : lines[i].kind = "commit" /\ Section(lines, i) = provider}

\* Every commit line of the provider's section is rewritten; no header or no
\* such line is an error.
update_provider_commit(lines, provider, commit) ==
    [i \in DOMAIN lines |-> IF i \in InTarget(lines, provider)
                            THEN Line("commit", commit) ELSE lines[i]]

UpdateFinds(lines, provider) ==
    /\ \E i \in DOMAIN lines : lines[i] = Line("header", provider)
    /\ InTarget(lines, provider) /= {}

\* Reading the lock, where a later header starts another table.
CommitOf(lines, provider) == lines[CHOOSE i \in InTarget(lines, provider) : TRUE].value

-----------------------------------------------------------------------------
(* Images. *)

\* A build of this worktree with the key that was resolved.  A variant flag that
\* has no effect gives both variants the same enclave.
LocalBuilds(rev, key, edmm) ==
    {[commit |-> rev, signer |-> key, edmm |-> edmm, enclave |-> <<rev, e>>] : e \in {edmm, FALSE}}

docker_build_external_tee_provider(commit, key) ==
    [commit |-> commit, signer |-> key, edmm |-> FALSE, enclave |-> <<commit, FALSE>>]

\* What validate_local_sgx_entries requires of the two variants.
validate_local_sgx_entries(entries, no_push) ==
    /\ Len(entries) = 2
    /\ entries[1].ref /= entries[2].ref
    /\ entries[1].image.enclave /= entries[2].image.enclave
    /\ entries[1].image.signer = entries[2].image.signer
    /\ ~no_push => entries[1].digest /= entries[2].digest

\* What `docker manifest inspect' can say of a reference: the manifest, or an
\* error text with words of the two lists, of neither or of both.
InspectAnswers(ref) ==
    IF published[ref] /= None THEN {"found", "blocking", "other"}
    ELSE {"missing", "missing and blocking", "blocking", "other"}

docker_manifest_inspect_reports_blocking_error(answer) ==
    answer \in {"blocking", "missing and blocking"}
docker_manifest_inspect_reports_missing(answer) ==
    answer \in {"missing", "missing and blocking"}

classify_docker_manifest_inspect_failure(answer) ==
    IF docker_manifest_inspect_reports_blocking_error(answer) THEN "Blocking"
    ELSE IF docker_manifest_inspect_reports_missing(answer) THEN "Missing"
    ELSE "Blocking"

ensure_remote_image_tag_unpublished(answer) ==
    answer /= "found" /\ classify_docker_manifest_inspect_failure(answer) = "Missing"

-----------------------------------------------------------------------------
(* The command. *)

At(step) == run /= None /\ run.at = step
Fail == run' = None
Goto(at) == run' = [run EXCEPT !.at = at, !.i = 1]

\* Flags and a clean worktree; the lock is read once.
Start(name, edmm, push) ==
    /\ run = None /\ moves < MaxMoves
    /\ moves' = moves + 1
    /\ LET tag == [name |-> name, edmm |-> edmm] IN
       run' = IF validate_release_tag(tag) /\ ~source.dirty
              THEN [tag |-> tag, push |-> push, at |-> IF push THEN "look" ELSE "key", i |-> 1,
                    commit |-> CommitOf(lock, External), key |-> None, rev |-> None, entries |-> <<>>]
              ELSE None
    /\ UNCHANGED <<source, lock, published, manifest>>

ensure_release_destination_tags_unpublished ==
    /\ At("look")
    /\ \E refs \in {release_destination_image_refs(run.tag)} :
         IF run.i > Len(refs) THEN Goto("key")
         ELSE \E answer \in InspectAnswers(refs[run.i]) :
                IF ensure_remote_image_tag_unpublished(answer)
                THEN run' = [run EXCEPT !.i = @ + 1] ELSE Fail
    /\ UNCHANGED <<source, lock, published, manifest, moves>>

\* One key for both variants, the cloud secret first; then the revision.
resolve_gramine_enclave_key_from_values ==
    /\ At("key")
    /\ \/ run' = [run EXCEPT !.key = source.key, !.rev = source.commit, !.at = "build"]
       \/ Fail
    /\ UNCHANGED <<source, lock, published, manifest, moves>>

\* Both variants are built and their attestation read before anything is pushed.
build_local_provider_entries ==
    /\ At("build")
    /\ \/ /\ run.i <= Len(Variants)
          /\ \E image \in LocalBuilds(run.rev, run.key, Variants[run.i]) :
               run' = [run EXCEPT !.i = @ + 1,
                         !.entries = Append(@, [ref |-> LocalRefs(run.tag)[run.i], image |-> image,
                                                digest |-> None])]
       \/ /\ run.i <= Len(Variants)
          /\ Fail
       \/ /\ run.i > Len(Variants)
          /\ IF ~validate_local_sgx_entries(run.entries, TRUE) THEN Fail
             ELSE Goto(IF run.push THEN "push" ELSE "external")
    /\ UNCHANGED <<source, lock, published, manifest, moves>>

\* Push, read the digest back from the local image and from the registry's tag.
docker_push ==
    /\ At("push")
    /\ \/ /\ run.i <= Len(run.entries)
          /\ published' = [published EXCEPT ![run.entries[run.i].ref] = run.entries[run.i].image]
          /\ \/ run' = [run EXCEPT !.i = @ + 1, !.entries[run.i].digest = run.entries[run.i].image]
             \/ Fail
       \/ /\ run.i <= Len(run.entries)
          /\ Fail /\ UNCHANGED published
       \/ /\ run.i > Len(run.entries)
          /\ IF validate_local_sgx_entries(run.entries, FALSE) THEN Goto("external") ELSE Fail
          /\ UNCHANGED published
    /\ UNCHANGED <<source, lock, manifest, moves>>

\* An external provider is cloned at its locked commit, built with a key that is
\* resolved again, and pushed before its attestation is read.
build_external_provider_entry ==
    /\ At("external")
    /\ \E image \in {docker_build_external_tee_provider(run.commit, source.key)},
          ref \in {local_provider_image_ref(run.tag, External)} :
         \/ Fail /\ UNCHANGED published
         \/ /\ published' = IF run.push THEN [published EXCEPT ![ref] = image] ELSE published
            /\ \/ run' = [run EXCEPT !.at = "manifest", !.entries = Append(@,
                             [ref |-> ref, image |-> image, digest |-> IF run.push THEN image ELSE None])]
               \/ Fail
    /\ UNCHANGED <<source, lock, manifest, moves>>

write_manifest ==
    /\ At("manifest")
    /\ manifest' = [manifest EXCEPT ![run.tag.name] = [push |-> run.push, entries |-> run.entries]]
    /\ run' = None
    /\ UNCHANGED <<source, lock, published, moves>>

\* update-tee-provider-lock, an edit, a commit and a key rotation, between commands
\* (the key at any time).
UpdateLock(provider) ==
    /\ run = None /\ moves < MaxMoves
    /\ moves' = moves + 1
    /\ lock' = IF UpdateFinds(lock, provider)
               THEN update_provider_commit(lock, provider, CommitOf(lock, External) + 1) ELSE lock
    /\ source' = [source EXCEPT !.dirty = @ \/ lock' /= lock]
    /\ UNCHANGED <<published, manifest, run>>

CommitSource ==
    /\ run = None /\ moves < MaxMoves
    /\ moves' = moves + 1
    /\ source' = [source EXCEPT !.commit = @ + 1, !.dirty = FALSE]
    /\ UNCHANGED <<lock, published, manifest, run>>

RotateKey ==
    /\ moves < MaxMoves
    /\ moves' = moves + 1
    /\ source' = [source EXCEPT !.key = @ + 1]
    /\ UNCHANGED <<lock, published, manifest, run>>

Init ==
    /\ source = [commit |-> 0, dirty |-> FALSE, key |-> 0]
    /\ lock = <<Line("other", 0), Line("header", External), Line("other", 0), Line("commit", 0),
                Line("header", "unlocked"), Line("other", 0)>>
    /\ published = [r \in Refs |-> None]
    /\ manifest = [t \in Tags |-> None]
    /\ run = None
    /\ moves = 0

Next ==
    \/ \E name \in Tags \cup {"malformed"}, edmm, push \in BOOLEAN : Start(name, edmm, push)
    \/ ensure_release_destination_tags_unpublished \/ resolve_gramine_enclave_key_from_values
    \/ build_local_provider_entries \/ docker_push \/ build_external_provider_entry
    \/ write_manifest
    \/ \E provider \in {External, "unlocked", "unknown"} : UpdateLock(provider)
    \/ CommitSource \/ RotateKey

Spec == Init /\ [][Next]_vars

-----------------------------------------------------------------------------

\* Under one release tag the two published SGX variants come from one commit and
\* one signing key and differ in their enclave, and a manifest that says it was
\* pushed names what the registry holds, however many tries the release took
\* (build_local_provider_entries, ensure_release_destination_tags_unpublished).
VariantsPair ==
    /\ \A t \in Tags :
         LET plain == published[<<"local", [name |-> t, edmm |-> FALSE]>>]
             edmm == published[<<"local", [name |-> t, edmm |-> TRUE]>>]
         IN  (plain /= None /\ edmm /= None) =>
                /\ plain.commit = edmm.commit
                /\ plain.signer = edmm.signer
                /\ plain.enclave /= edmm.enclave
    /\ \A t \in Tags : manifest[t] /= None => (manifest[t].push =>
          \A i \in DOMAIN manifest[t].entries :
             published[manifest[t].entries[i].ref] = manifest[t].entries[i].digest)
=============================================================================
