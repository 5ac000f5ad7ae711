--------------------------- MODULE ReleaseReconciler ---------------------------
(***************************************************************************)
(* controllers/dockyardsrelease_controller.go: Releases, the Flux image    *)
(* repository and image policies the controller keeps for each of them,    *)
(* the status it derives from what Flux finds, the controller's caches     *)
(* and its work queue.  One worker reconciles one Release at a time; every *)
(* call to the API server is a step of its own.                            *)
(*                                                                         *)
(* A Kubernetes release has one policy per range, named after release and  *)
(* range; a Talos installer release has one policy, named after itself.    *)
(* Policies are therefore identified by <<release, range>> and <<release>>;*)
(* names of different releases are taken not to collide.                   *)
(***************************************************************************)
EXTENDS Integers, Sequences

CONSTANTS
    Release,             \* names of Releases
    Range, InRange,      \* version ranges, and the tags each of them admits
    Unnameable,          \* ranges with characters no object name may have
    Tag, Rank,           \* image tags; their semver precedence, 0 if they have none
    Published,           \* tags of each type's image that exist from the start
    Platform,            \* cloud platforms the image factory knows
    Schematic, DefaultSchematicID,
    Specs,               \* what users write in a Release
    Faults,              \* "api": calls may fail; "crash": the controller may die
    MaxEdits,            \* bound on edits of Releases and publications of tags
    Nil

Type == {"kubernetes", "installer"}

\* Reconcile leaves Releases of other types alone.
ReleaseSpec ==
    [type: Type \cup {"other"}, ranges: Seq(Range), platform: Platform \cup {"unknown", Nil},
     schematic: Schematic \cup {Nil}]

ASSUME ReleaseAssumption ==
    /\ InRange \in [Range -> SUBSET Tag]
    /\ Unnameable \subseteq Range
    /\ Rank \in [Tag -> Nat]
    /\ Published \in [Type -> SUBSET Tag]
    /\ Nil \notin Tag \cup Range \cup Platform \cup Schematic \cup Type
    /\ "unknown" \notin Platform
    /\ Specs \subseteq ReleaseSpec
    /\ Faults \subseteq {"api", "crash"}
    /\ MaxEdits \in Nat

URL ==
    [schematic: Schematic \cup {DefaultSchematicID}, tag: Tag, platform: Platform]

Status == [versions: Seq(Tag), latest: Tag \cup {Nil}, url: URL \cup {Nil}]

NoStatus == [versions |-> <<>>, latest |-> Nil, url |-> Nil]

\* The status of an image policy is the tag Flux has chosen.
ImagePolicy == [range: Range, ref: Tag \cup {Nil}]

PolicyID == (Release \X Range) \cup {<<r>> : r \in Release}

Job ==
    [release: Release, spec: ReleaseSpec, before: Status, status: Status,
     seen: Seq(Tag), next: Nat, failed: BOOLEAN]

VARIABLES
    releases, releaseCache,          \* Releases in the API server, and as cached
    repositories, repositoryCache,   \* type of the image each repository scans
    policies, policyCache,           \* image policies
    published,                       \* tags of each type's image
    queued,                          \* Releases in the work queue
    pc, job,                         \* Reconcile's control state and locals
    edits

vars == <<releases, releaseCache, repositories, repositoryCache, policies,
          policyCache, published, queued, pc, job, edits>>

cacheVars == <<releaseCache, repositoryCache, policyCache>>
fluxVars  == <<repositories, policies>>

TypeOK ==
    /\ releases \in [Release -> [spec: Specs, status: Status] \cup {Nil}]
    /\ releaseCache \in [Release -> [spec: Specs, status: Status] \cup {Nil}]
    /\ repositories \in [Release -> Type \cup {Nil}]
    /\ repositoryCache \in [Release -> Type \cup {Nil}]
    /\ policies \in [PolicyID -> ImagePolicy \cup {Nil}]
    /\ policyCache \in [PolicyID -> ImagePolicy \cup {Nil}]
    /\ published \in [Type -> SUBSET Tag]
    /\ queued \in SUBSET Release
    /\ pc \in {"idle", "repository", "policy", "patch"}
    /\ job \in Job \cup {Nil}
    /\ edits \in Nat

Init ==
    /\ releases = [r \in Release |-> Nil]
    /\ releaseCache = releases
    /\ repositories = [r \in Release |-> Nil]
    /\ repositoryCache = repositories
    /\ policies = [p \in PolicyID |-> Nil]
    /\ policyCache = policies
    /\ published = Published
    /\ queued = {}
    /\ pc = "idle"
    /\ job = Nil
    /\ edits = 0

-----------------------------------------------------------------------------
(***************************************************************************)
(* Users and Flux.                                                         *)
(***************************************************************************)
Edit ==
    /\ edits < MaxEdits
    /\ edits' = edits + 1

WriteRelease(r, spec) ==
    /\ Edit
    /\ releases[r] # Nil => releases[r].spec # spec
    /\ releases' = [releases EXCEPT ![r] =
          [spec |-> spec, status |-> IF @ = Nil THEN NoStatus ELSE @.status]]
    /\ UNCHANGED <<cacheVars, fluxVars, published, queued, pc, job>>

\* The repository and the policies stay behind.
DeleteRelease(r) ==
    /\ Edit
    /\ releases[r] # Nil
    /\ releases' = [releases EXCEPT ![r] = Nil]
    /\ UNCHANGED <<cacheVars, fluxVars, published, queued, pc, job>>

Publish(type, tag) ==
    /\ Edit
    /\ tag \notin published[type]
    /\ published' = [published EXCEPT ![type] = @ \cup {tag}]
    /\ UNCHANGED <<releases, cacheVars, fluxVars, queued, pc, job>>

\* Tags with the greatest precedence in T.
Newest(T) == {t \in T : \A u \in T : Rank[t] >= Rank[u]}

\* What Flux finds for policy p in the repository of its release.
Found(p) == published[repositories[p[1]]] \cap InRange[policies[p].range]

\* Flux chooses anew; if nothing is in range it may clear its choice or keep it.
FluxChooses(p) ==
    /\ policies[p] # Nil
    /\ repositories[p[1]] # Nil
    /\ policies[p].ref \notin Newest(Found(p))
    /\ \E ref \in IF Found(p) = {} THEN {Nil} \ {policies[p].ref} ELSE Newest(Found(p)) :
          policies' = [policies EXCEPT ![p].ref = ref]
    /\ UNCHANGED <<releases, cacheVars, repositories, published, queued, pc, job, edits>>

-----------------------------------------------------------------------------
(***************************************************************************)
(* Caches and watches: of Releases and of image policies, whose label      *)
(* names the Release.  Image repositories are cached and not watched.      *)
(***************************************************************************)
SyncRelease(r) ==
    /\ releaseCache[r] # releases[r]
    /\ releaseCache' = [releaseCache EXCEPT ![r] = releases[r]]
    /\ queued' = queued \cup {r}
    /\ UNCHANGED <<releases, repositoryCache, policyCache, fluxVars, published,
                   pc, job, edits>>

ReleaseFromImagePolicy(p) == {p[1]}

SyncPolicy(p) ==
    /\ policyCache[p] # policies[p]
    /\ policyCache' = [policyCache EXCEPT ![p] = policies[p]]
    /\ queued' = queued \cup ReleaseFromImagePolicy(p)
    /\ UNCHANGED <<releases, releaseCache, repositoryCache, fluxVars, published,
                   pc, job, edits>>

SyncRepository(r) ==
    /\ repositoryCache[r] # repositories[r]
    /\ repositoryCache' = [repositoryCache EXCEPT ![r] = repositories[r]]
    /\ UNCHANGED <<releases, releaseCache, policyCache, fluxVars, published,
                   queued, pc, job, edits>>

\* controller-runtime delivers every cached object again from time to time.
Resync(r) ==
    /\ releaseCache[r] # Nil
    /\ r \notin queued
    /\ queued' = queued \cup {r}
    /\ UNCHANGED <<releases, cacheVars, fluxVars, published, pc, job, edits>>

-----------------------------------------------------------------------------
(***************************************************************************)
(* Reconcile reads the Release from the cache; whatever happens after      *)
(* that, the deferred function patches the status at the end.              *)
(***************************************************************************)
Handled(spec) ==
    \/ spec.type = "kubernetes"
    \/ spec.type = "installer" /\ Len(spec.ranges) = 1

Reconcile(r) ==
    LET rel == releaseCache[r] IN
    /\ pc = "idle"
    /\ r \in queued
    /\ queued' = queued \ {r}
    /\ IF rel = Nil
       THEN UNCHANGED <<pc, job>>
       ELSE /\ job' = [release |-> r, spec |-> rel.spec, before |-> rel.status,
                       status |-> rel.status, seen |-> <<>>, next |-> 1,
                       failed |-> FALSE]
            /\ pc' = IF Handled(rel.spec) THEN "repository" ELSE "patch"
    /\ UNCHANGED <<releases, cacheVars, fluxVars, published, edits>>

Fail ==
    /\ pc' = "patch"
    /\ job' = [job EXCEPT !.failed = TRUE]

\* The first of the tags whose precedence is greatest; Nil if none has one.
LatestVersion(tags) ==
    LET I == {i \in 1..Len(tags) : Rank[tags[i]] > 0} IN
    IF I = {} THEN Nil
    ELSE tags[CHOOSE i \in I :
                 \A j \in I : \/ Rank[tags[i]] > Rank[tags[j]]
                              \/ Rank[tags[i]] = Rank[tags[j]] /\ i <= j]

\* Mutant: a platform the image factory does not know is not refused.
LatestURL_Unchecked(spec, tag) ==
    IF spec.platform = Nil THEN Nil
    ELSE [schematic |-> IF spec.schematic = Nil THEN DefaultSchematicID
                        ELSE spec.schematic,
          tag |-> tag, platform |-> spec.platform]

LatestURL(spec, tag) ==
    IF spec.platform \notin Platform THEN Nil
    ELSE [schematic |-> IF spec.schematic = Nil THEN DefaultSchematicID
                        ELSE spec.schematic,
          tag |-> tag, platform |-> spec.platform]

\* The status at the end of the loop over the ranges, having seen these tags.
StatusOf(spec, status, seen) ==
    IF spec.type = "kubernetes"
    THEN IF LatestVersion(seen) = Nil THEN status
         ELSE [status EXCEPT !.versions = seen, !.latest = LatestVersion(seen)]
    ELSE IF seen = <<>> THEN status
         ELSE [versions |-> seen, latest |-> seen[1], url |-> LatestURL(spec, seen[1])]

\* Mutant: the status is filled in as the loop goes.
NextRange_Early(seen) ==
    LET done == job.next >= Len(job.spec.ranges) IN
    /\ pc' = IF done THEN "patch" ELSE "policy"
    /\ job' = [job EXCEPT !.seen = seen, !.next = @ + 1,
                          !.status = StatusOf(job.spec, job.status, seen)]

NextRange(seen) ==
    LET done == job.next >= Len(job.spec.ranges) IN
    /\ pc' = IF done THEN "patch" ELSE "policy"
    /\ job' = [job EXCEPT !.seen = seen, !.next = @ + 1,
                          !.status = IF done THEN StatusOf(job.spec, @, seen) ELSE @]

\* CreateOrPatch works on what the cache has: it creates what is not there and
\* patches what differs.
EnsureRepository ==
    LET r == job.release IN
    /\ pc = "repository"
    /\ repositoryCache[r] # Nil \/ repositories[r] = Nil
    /\ repositories' = IF repositoryCache[r] = job.spec.type THEN repositories
                       ELSE [repositories EXCEPT ![r] = job.spec.type]
    /\ IF job.spec.ranges = <<>> THEN NextRange(<<>>) ELSE pc' = "policy" /\ job' = job
    /\ UNCHANGED <<releases, cacheVars, policies, published, queued, edits>>

\* The call fails: the object exists and the cache has not seen it yet, or the API
\* server is in trouble.
RepositoryFails ==
    /\ pc = "repository"
    /\ \/ "api" \in Faults
       \/ repositoryCache[job.release] = Nil /\ repositories[job.release] # Nil
    /\ Fail
    /\ UNCHANGED <<releases, cacheVars, fluxVars, published, queued, edits>>

CurrentRange == job.spec.ranges[job.next]

PolicyOf(r, spec, i) ==
    IF spec.type = "kubernetes" THEN <<r, spec.ranges[i]>> ELSE <<r>>

\* Mutant: a policy that exists is left as it is.
Ensured_CreateOnly(cached, current, range) ==
    IF cached = Nil THEN [range |-> range, ref |-> Nil] ELSE cached

\* The object CreateOrPatch leaves in its argument: as created, as answered to the
\* patch, with the choice made for the old range, or as cached.
Ensured(cached, current, range) ==
    IF cached = Nil THEN [range |-> range, ref |-> Nil]
    ELSE IF cached.range = range THEN cached
    ELSE [current EXCEPT !.range = range]

EnsurePolicy ==
    LET p   == PolicyOf(job.release, job.spec, job.next)
        new == Ensured(policyCache[p], policies[p], CurrentRange) IN
    /\ pc = "policy"
    /\ job.spec.type = "kubernetes" => CurrentRange \notin Unnameable
    /\ policyCache[p] # Nil \/ policies[p] = Nil
    /\ policies' = IF new = policyCache[p] THEN policies
                   ELSE [policies EXCEPT ![p] = new]
    /\ NextRange(IF new.ref = Nil THEN job.seen ELSE Append(job.seen, new.ref))
    /\ UNCHANGED <<releases, cacheVars, repositories, published, queued, edits>>

PolicyFails ==
    LET p == PolicyOf(job.release, job.spec, job.next) IN
    /\ pc = "policy"
    /\ \/ "api" \in Faults
       \/ job.spec.type = "kubernetes" /\ CurrentRange \in Unnameable
       \/ policyCache[p] = Nil /\ policies[p] # Nil
    /\ Fail
    /\ UNCHANGED <<releases, cacheVars, fluxVars, published, queued, edits>>

\* A merge patch of the fields that differ from what was read.
Merged(current, before, after) ==
    [f \in DOMAIN current |-> IF after[f] = before[f] THEN current[f] ELSE after[f]]

\* Reconcile returns; an error puts the Release back into the queue.
Done(err) ==
    /\ pc' = "idle"
    /\ job' = Nil
    /\ queued' = IF err THEN queued \cup {job.release} ELSE queued

PatchStatus ==
    LET r == job.release IN
    /\ pc = "patch"
    /\ releases[r] # Nil \/ job.status = job.before
    /\ releases' = IF releases[r] = Nil THEN releases
                   ELSE [releases EXCEPT ![r].status =
                            Merged(@, job.before, job.status)]
    /\ Done(job.failed)
    /\ UNCHANGED <<cacheVars, fluxVars, published, edits>>

PatchFails ==
    /\ pc = "patch"
    /\ job.status # job.before
    /\ "api" \in Faults \/ releases[job.release] = Nil
    /\ Done(TRUE)
    /\ UNCHANGED <<releases, cacheVars, fluxVars, published, edits>>

\* The controller dies and starts again with fresh caches and everything queued.
Crash ==
    /\ "crash" \in Faults
    /\ pc # "idle"
    /\ pc' = "idle"
    /\ job' = Nil
    /\ releaseCache' = releases
    /\ repositoryCache' = repositories
    /\ policyCache' = policies
    /\ queued' = Release
    /\ UNCHANGED <<releases, fluxVars, published, edits>>

-----------------------------------------------------------------------------
UserStep ==
    \E r \in Release : DeleteRelease(r) \/ \E spec \in Specs : WriteRelease(r, spec)

FluxStep ==
    \/ \E t \in Type, tag \in Tag : Publish(t, tag)
    \/ \E p \in PolicyID : FluxChooses(p)

WatchStep ==
    \/ \E r \in Release : SyncRelease(r) \/ SyncRepository(r) \/ Resync(r)
    \/ \E p \in PolicyID : SyncPolicy(p)

ReconcileStep ==
    \/ \E r \in Release : Reconcile(r)
    \/ EnsureRepository \/ RepositoryFails
    \/ EnsurePolicy \/ PolicyFails
    \/ PatchStatus \/ PatchFails

Next == UserStep \/ FluxStep \/ WatchStep \/ ReconcileStep \/ Crash

Spec == Init /\ [][Next]_vars

-----------------------------------------------------------------------------
(***************************************************************************)
(* Properties.                                                             *)
(***************************************************************************)

\* The deferred patch runs after errors as well, and the loop over the ranges may
\* fail half-way with versions already collected: a reconcile that failed changes
\* no status.
NoPartialStatus ==
    [][pc = "patch" /\ pc' = "idle" /\ job.failed => releases' = releases]_vars

(***************************************************************************)
(* Liveness: watches deliver, queued Releases are taken, Flux scans, and a *)
(* call that is repeated does not fail for ever.  controller-runtime       *)
(* resyncs its caches (every ten hours unless told otherwise).             *)
(***************************************************************************)
EnsurePolicyOf(p) ==
    /\ pc = "policy"
    /\ PolicyOf(job.release, job.spec, job.next) = p
    /\ EnsurePolicy

PatchWrites ==
    /\ pc = "patch"
    /\ job.status # job.before
    /\ PatchStatus

Fairness ==
    /\ \A r \in Release :
          /\ WF_vars(SyncRelease(r))
          /\ WF_vars(SyncRepository(r))
          /\ WF_vars(Resync(r))
          /\ SF_vars(Reconcile(r))
    /\ \A p \in PolicyID :
          /\ WF_vars(SyncPolicy(p))
          /\ WF_vars(FluxChooses(p))
          /\ SF_vars(EnsurePolicyOf(p))
    /\ WF_vars(ReconcileStep)
    /\ SF_vars(EnsureRepository)
    /\ SF_vars(PatchWrites)

FairSpec == Spec /\ Fairness

\* Tags published for the i-th range of spec.
Available(spec, i) ==
    {t \in InRange[spec.ranges[i]] : spec.type \in Type /\ t \in published[spec.type]}

\* The spec is one the controller can work with, there is something to discover for
\* every range, and at least one of it is a version.
Discoverable(spec) ==
    /\ spec.ranges # <<>>
    /\ spec.type = "installer" => Len(spec.ranges) = 1
    /\ \A i \in 1..Len(spec.ranges) :
          /\ spec.type = "kubernetes" => spec.ranges[i] \notin Unnameable
          /\ Available(spec, i) # {}
    /\ \E i \in 1..Len(spec.ranges) : \E t \in Available(spec, i) : Rank[t] > 0

\* The status lists the newest tag of each range, the newest of them all is the
\* latest version, and an installer's URL is for that version and the annotations.
Announces(spec, status) ==
    /\ Len(status.versions) = Len(spec.ranges)
    /\ \A i \in 1..Len(spec.ranges) : status.versions[i] \in Newest(Available(spec, i))
    /\ status.latest \in {status.versions[i] : i \in 1..Len(status.versions)}
    /\ \A i \in 1..Len(status.versions) : Rank[status.latest] >= Rank[status.versions[i]]
    /\ spec.type = "installer" => status.url = LatestURL(spec, status.latest)

\* "updates Release.status with discovered versions": once users leave a Release and
\* the registry alone, its status comes to name the newest published tags of its
\* present ranges and stays there: through failing calls, crashes, late caches,
\* tags that Flux had chosen for an earlier range of the Release, and patches
\* computed from an outdated status.
VersionsAnnounced ==
    \A r \in Release :
        <>[](releases[r] # Nil /\ Discoverable(releases[r].spec)) =>
        <>[](releases[r] # Nil /\ Announces(releases[r].spec, releases[r].status))

=============================================================================
