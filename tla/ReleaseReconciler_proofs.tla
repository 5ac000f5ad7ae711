----------------------- MODULE ReleaseReconciler_proofs -----------------------
(***************************************************************************)
(* Proofs about ReleaseReconciler, for any Releases, ranges, tags and      *)
(* faults.                                                                 *)
(***************************************************************************)
EXTENDS ReleaseReconciler, NaturalsLeast

(***************************************************************************)
(* What Reconcile knows where: it has a job unless it is idle, the loop    *)
(* counter is within the ranges, only handled types get beyond the first   *)
(* step, and the status is as it was read until the loop is through without*)
(* an error.                                                               *)
(***************************************************************************)
JobInv ==
    /\ pc # "idle" => job \in Job
    /\ pc \in {"repository", "policy"} =>
          job.spec.type \in Type /\ job.status = job.before /\ ~job.failed
    /\ pc = "repository" => job.next = 1
    /\ pc = "policy" => job.next \in 1..Len(job.spec.ranges)
    /\ pc = "patch" /\ job.failed => job.status = job.before

\* Image policies are never deleted, so one that is cached exists.
PolicyInv ==
    \A p \in PolicyID : policyCache[p] \in ImagePolicy => policies[p] \in ImagePolicy

ReconcilerInv == TypeOK /\ JobInv /\ PolicyInv

-----------------------------------------------------------------------------
(***************************************************************************)
(* The operators.                                                          *)
(***************************************************************************)

\* latestVersion: of the tags that are versions, the first with the greatest precedence.
LEMMA LatestVersionIsFirstGreatest ==
    ASSUME NEW tags \in Seq(Tag)
    PROVE  LET I == {i \in 1..Len(tags) : Rank[tags[i]] > 0} IN
           \/ I = {} /\ LatestVersion(tags) = Nil
           \/ \E i \in I :
                /\ LatestVersion(tags) = tags[i]
                /\ \A j \in I : \/ Rank[tags[i]] > Rank[tags[j]]
                                \/ Rank[tags[i]] = Rank[tags[j]] /\ i <= j
  <1> DEFINE I == {i \in 1..Len(tags) : Rank[tags[i]] > 0}
             f == [i \in 1..Len(tags) |-> Rank[tags[i]]]
             Best(i) == \A j \in I : \/ Rank[tags[i]] > Rank[tags[j]]
                                     \/ Rank[tags[i]] = Rank[tags[j]] /\ i <= j
  <1>1. CASE I = {}
    BY <1>1 DEF LatestVersion
  <1>2. CASE I # {}
    <2>1. Len(tags) \in Nat /\ \A i \in 1..Len(tags) : tags[i] \in Tag
      OBVIOUS
    <2>2. f \in [1..Len(tags) -> Nat]
      BY <2>1, ReleaseAssumption
    <2>3. I \in SUBSET (1..Len(tags))
      OBVIOUS
    <2>4. \A i \in I : f[i] = Rank[tags[i]]
      OBVIOUS
    <2>5. \E i \in I : \A j \in I : f[i] > f[j] \/ (f[i] = f[j] /\ i <= j)
      <3> HIDE DEF f, I
      <3> QED
        BY <1>2, <2>1, <2>2, <2>3, FirstGreatest
    <2>6. \E i \in I : Best(i)
      <3> HIDE DEF f, I
      <3> QED
        BY <2>4, <2>5
    <2>7. LatestVersion(tags) = tags[CHOOSE i \in I : Best(i)]
      BY <1>2 DEF LatestVersion
    <2>8. (CHOOSE i \in I : Best(i)) \in I /\ Best(CHOOSE i \in I : Best(i))
      <3> HIDE DEF Best, I
      <3> QED
        BY <2>6
    <2> QED
      BY <2>7, <2>8
  <1> QED
    BY <1>1, <1>2

LEMMA LatestVersionType ==
    ASSUME NEW tags \in Seq(Tag)
    PROVE  LatestVersion(tags) \in Tag \cup {Nil}
  <1>1. \A i \in 1..Len(tags) : tags[i] \in Tag
    OBVIOUS
  <1> QED
    BY <1>1, LatestVersionIsFirstGreatest

LEMMA LatestURLType ==
    ASSUME NEW spec \in ReleaseSpec, NEW tag \in Tag
    PROVE  LatestURL(spec, tag) \in URL \cup {Nil}
  BY DEF LatestURL, ReleaseSpec, URL

LEMMA StatusOfType ==
    ASSUME NEW spec \in ReleaseSpec, NEW status \in Status, NEW seen \in Seq(Tag)
    PROVE  StatusOf(spec, status, seen) \in Status
  <1>1. CASE spec.type = "kubernetes"
    BY <1>1, LatestVersionType DEF StatusOf, Status
  <1>2. CASE spec.type # "kubernetes" /\ seen # <<>>
    <2>1. seen[1] \in Tag
      BY <1>2
    <2> QED
      BY <1>2, <2>1, LatestURLType DEF StatusOf, Status
  <1>3. CASE spec.type # "kubernetes" /\ seen = <<>>
    BY <1>3 DEF StatusOf
  <1> QED
    BY <1>1, <1>2, <1>3

LEMMA MergedType ==
    ASSUME NEW current \in Status, NEW before \in Status, NEW after \in Status
    PROVE  Merged(current, before, after) \in Status
  <1>1. DOMAIN current = {"versions", "latest", "url"}
    BY DEF Status
  <1> QED
    BY <1>1 DEF Merged, Status

\* A patch without differences changes nothing.
LEMMA MergedSame ==
    ASSUME NEW current \in Status, NEW before \in Status
    PROVE  Merged(current, before, before) = current
  BY DEF Merged, Status

LEMMA EnsuredType ==
    ASSUME NEW cached \in ImagePolicy \cup {Nil}, NEW current, NEW range \in Range,
           cached \in ImagePolicy => current \in ImagePolicy
    PROVE  Ensured(cached, current, range) \in ImagePolicy
  BY DEF Ensured, ImagePolicy

LEMMA PolicyOfType ==
    ASSUME NEW r \in Release, NEW spec \in ReleaseSpec, NEW i \in 1..Len(spec.ranges)
    PROVE  PolicyOf(r, spec, i) \in PolicyID /\ spec.ranges[i] \in Range
  <1>1. spec.ranges[i] \in Range
    BY DEF ReleaseSpec
  <1> QED
    BY <1>1 DEF PolicyOf, PolicyID

-----------------------------------------------------------------------------
(***************************************************************************)
(* The inductive invariant.                                                *)
(***************************************************************************)
LEMMA InitReconciler == Init => ReconcilerInv
  <1> SUFFICES ASSUME Init PROVE ReconcilerInv
    OBVIOUS
  <1>1. TypeOK
    BY ReleaseAssumption DEF Init, TypeOK
  <1>2. JobInv
    BY DEF Init, JobInv
  <1>3. PolicyInv
    BY DEF Init, PolicyInv
  <1> QED
    BY <1>1, <1>2, <1>3 DEF ReconcilerInv

\* Steps of users, of Flux and of the caches, which leave Reconcile alone.
LEMMA EnvironmentStep ==
    ASSUME ReconcilerInv, UserStep \/ FluxStep \/ WatchStep
    PROVE  ReconcilerInv'
  <1> USE DEF ReconcilerInv, cacheVars, fluxVars
  <1>0. pc' = pc /\ job' = job
    BY DEF UserStep, FluxStep, WatchStep, DeleteRelease, WriteRelease, Publish, FluxChooses,
           SyncRelease, SyncRepository, Resync, SyncPolicy
  <1>1. JobInv'
    BY <1>0 DEF JobInv
  <1>2. ASSUME NEW r \in Release, NEW spec \in Specs, WriteRelease(r, spec)
        PROVE  TypeOK' /\ PolicyInv'
    <2>1. NoStatus \in Status
      BY DEF NoStatus, Status
    <2>2. releases' \in [Release -> [spec: Specs, status: Status] \cup {Nil}]
      BY <1>2, <2>1 DEF WriteRelease, TypeOK
    <2> QED
      BY <1>2, <2>2 DEF WriteRelease, Edit, TypeOK, PolicyInv
  <1>3. ASSUME NEW r \in Release, DeleteRelease(r) PROVE TypeOK' /\ PolicyInv'
    BY <1>3 DEF DeleteRelease, Edit, TypeOK, PolicyInv
  <1>4. ASSUME NEW t \in Type, NEW tag \in Tag, Publish(t, tag) PROVE TypeOK' /\ PolicyInv'
    BY <1>4 DEF Publish, Edit, TypeOK, PolicyInv
  <1>5. ASSUME NEW p \in PolicyID, FluxChooses(p) PROVE TypeOK' /\ PolicyInv'
    <2>1. policies[p] \in ImagePolicy /\ p[1] \in Release /\ repositories[p[1]] \in Type
      BY <1>5 DEF FluxChooses, TypeOK, PolicyID
    <2>2. Newest(Found(p)) \subseteq Tag
      BY <2>1 DEF Newest, Found, TypeOK
    <2>3. PICK ref \in Tag \cup {Nil} : policies' = [policies EXCEPT ![p].ref = ref]
      BY <1>5, <2>2 DEF FluxChooses
    <2>4. [policies[p] EXCEPT !.ref = ref] \in ImagePolicy
      BY <2>1 DEF ImagePolicy
    <2>5. /\ policies' \in [PolicyID -> ImagePolicy \cup {Nil}]
          /\ \A q \in PolicyID : policies[q] \in ImagePolicy => policies'[q] \in ImagePolicy
      BY <2>3, <2>4 DEF TypeOK
    <2>6. UNCHANGED <<releases, cacheVars, repositories, published, queued, pc, job, edits>>
      BY <1>5 DEF FluxChooses
    <2> QED
      BY <2>5, <2>6 DEF TypeOK, PolicyInv
  <1>6. ASSUME NEW r \in Release, SyncRelease(r) \/ SyncRepository(r) \/ Resync(r)
        PROVE  TypeOK' /\ PolicyInv'
    BY <1>6 DEF SyncRelease, SyncRepository, Resync, TypeOK, PolicyInv
  <1>7. ASSUME NEW p \in PolicyID, SyncPolicy(p) PROVE TypeOK' /\ PolicyInv'
    <2>1. p[1] \in Release
      BY DEF PolicyID
    <2> QED
      BY <1>7, <2>1 DEF SyncPolicy, ReleaseFromImagePolicy, TypeOK, PolicyInv
  <1> QED
    BY <1>1, <1>2, <1>3, <1>4, <1>5, <1>6, <1>7 DEF UserStep, FluxStep, WatchStep

\* The loop counter moves on; the status is filled in when the loop is through.
LEMMA NextRangeType ==
    ASSUME job \in Job, NEW seen \in Seq(Tag), NextRange(seen),
           job.spec.type \in Type, job.status = job.before
    PROVE  /\ pc' \in {"policy", "patch"}
           /\ job' \in Job
           /\ pc' = "policy" => /\ job'.spec.type \in Type /\ job'.status = job'.before
                                /\ job.next + 1 <= Len(job.spec.ranges)
                                /\ job'.next = job.next + 1 /\ job'.spec = job.spec
           /\ job'.failed = job.failed
  <1> DEFINE done == job.next >= Len(job.spec.ranges)
             st == StatusOf(job.spec, job.status, seen)
  <1>1. /\ job.spec \in ReleaseSpec /\ job.status \in Status /\ job.next \in Nat
        /\ Len(job.spec.ranges) \in Nat
    BY DEF Job, ReleaseSpec
  <1>1a. \A s \in Status :
           LET new == [job EXCEPT !.seen = seen, !.next = @ + 1, !.status = s] IN
           /\ new \in Job
           /\ new.spec = job.spec /\ new.next = job.next + 1 /\ new.status = s
           /\ new.before = job.before /\ new.failed = job.failed
    <2>1. job.next + 1 \in Nat
      BY <1>1
    <2> QED
      BY <2>1 DEF Job
  <1>2. st \in Status
    BY <1>1, StatusOfType
  <1>3. CASE done
    <2>1. pc' = "patch" /\ job' = [job EXCEPT !.seen = seen, !.next = @ + 1, !.status = st]
      BY <1>3 DEF NextRange
    <2> HIDE DEF st
    <2> QED
      BY <1>1a, <1>2, <2>1
  <1>4. CASE ~done
    <2>1. /\ pc' = "policy"
          /\ job' = [job EXCEPT !.seen = seen, !.next = @ + 1, !.status = job.status]
      BY <1>4 DEF NextRange
    <2>2. job.next + 1 <= Len(job.spec.ranges)
      BY <1>1, <1>4
    <2> QED
      BY <1>1, <1>1a, <2>1, <2>2
  <1> QED
    BY <1>3, <1>4

LEMMA ReconcileStarts ==
    ASSUME ReconcilerInv, NEW r \in Release, Reconcile(r)
    PROVE  ReconcilerInv'
  <1> USE DEF ReconcilerInv
  <1>1. UNCHANGED <<releases, cacheVars, fluxVars, published, edits>> /\ queued' \in SUBSET Release
    BY DEF Reconcile, TypeOK
  <1>2. CASE releaseCache[r] = Nil
    BY <1>1, <1>2 DEF Reconcile, TypeOK, JobInv, PolicyInv, cacheVars, fluxVars
  <1>3. CASE releaseCache[r] # Nil
    <2> DEFINE rel == releaseCache[r]
    <2>1. rel.spec \in ReleaseSpec /\ rel.status \in Status
      BY <1>3, ReleaseAssumption DEF TypeOK
    <2>2. job' = [release |-> r, spec |-> rel.spec, before |-> rel.status,
                  status |-> rel.status, seen |-> <<>>, next |-> 1, failed |-> FALSE]
      BY <1>3 DEF Reconcile
    <2>3. pc' = IF Handled(rel.spec) THEN "repository" ELSE "patch"
      BY <1>3 DEF Reconcile
    <2> HIDE DEF rel
    <2>4. job' \in Job
      BY <2>1, <2>2 DEF Job
    <2>5. JobInv'
      BY <2>1, <2>2, <2>3, <2>4 DEF JobInv, Handled, Type
    <2>6. TypeOK'
      BY <1>1, <2>3, <2>4 DEF TypeOK, cacheVars, fluxVars
    <2>7. PolicyInv'
      BY <1>1 DEF PolicyInv, cacheVars, fluxVars
    <2> QED
      BY <2>5, <2>6, <2>7
  <1> QED
    BY <1>2, <1>3

\* A failing call ends the job with the status as it was read.
LEMMA FailStep ==
    ASSUME ReconcilerInv, RepositoryFails \/ PolicyFails
    PROVE  ReconcilerInv'
  <1> USE DEF ReconcilerInv
  <1>1. /\ pc \in {"repository", "policy"}
        /\ pc' = "patch" /\ job' = [job EXCEPT !.failed = TRUE]
        /\ UNCHANGED <<releases, cacheVars, fluxVars, published, queued, edits>>
    BY DEF RepositoryFails, PolicyFails, Fail
  <1>2. job \in Job /\ job.status = job.before
    BY <1>1 DEF JobInv
  <1>3. job' \in Job /\ job'.status = job'.before
    BY <1>1, <1>2 DEF Job
  <1> QED
    BY <1>1, <1>3 DEF TypeOK, JobInv, PolicyInv, cacheVars, fluxVars

LEMMA RepositoryStep ==
    ASSUME ReconcilerInv, EnsureRepository
    PROVE  ReconcilerInv'
  <1> USE DEF ReconcilerInv
  <1>1. /\ pc = "repository" /\ job \in Job /\ job.spec.type \in Type
        /\ job.status = job.before /\ job.next = 1 /\ ~job.failed
        /\ job.release \in Release /\ job.spec \in ReleaseSpec
    BY DEF EnsureRepository, JobInv, Job
  <1>2. repositories' \in [Release -> Type \cup {Nil}]
    BY <1>1 DEF EnsureRepository, TypeOK
  <1>3. UNCHANGED <<releases, cacheVars, policies, published, queued, edits>>
    BY DEF EnsureRepository
  <1>4. PolicyInv'
    BY <1>3 DEF PolicyInv, cacheVars
  <1>5. CASE job.spec.ranges = <<>>
    <2>1. NextRange(<<>>) /\ <<>> \in Seq(Tag)
      BY <1>5 DEF EnsureRepository
    <2>2. Len(job.spec.ranges) = 0 /\ ~(1 + 1 <= 0)
      BY <1>5
    <2>3. job' \in Job /\ pc' = "patch" /\ job'.failed = job.failed
      BY <1>1, <2>1, <2>2, NextRangeType
    <2>4. JobInv'
      BY <1>1, <2>3 DEF JobInv
    <2> QED
      BY <1>2, <1>3, <1>4, <2>3, <2>4 DEF TypeOK, cacheVars
  <1>6. CASE job.spec.ranges # <<>>
    <2>1. pc' = "policy" /\ job' = job
      BY <1>6 DEF EnsureRepository
    <2>2. 1 \in 1..Len(job.spec.ranges)
      BY <1>1, <1>6 DEF ReleaseSpec
    <2>3. JobInv'
      BY <1>1, <2>1, <2>2 DEF JobInv
    <2> QED
      BY <1>2, <1>3, <1>4, <2>1, <2>3 DEF TypeOK, cacheVars
  <1> QED
    BY <1>5, <1>6

LEMMA PolicyStep ==
    ASSUME ReconcilerInv, EnsurePolicy
    PROVE  ReconcilerInv'
  <1> USE DEF ReconcilerInv
  <1> DEFINE p == PolicyOf(job.release, job.spec, job.next)
             new == Ensured(policyCache[p], policies[p], CurrentRange)
             seen == IF new.ref = Nil THEN job.seen ELSE Append(job.seen, new.ref)
  <1>1. /\ pc = "policy" /\ job \in Job /\ job.spec.type \in Type
        /\ job.status = job.before /\ ~job.failed
        /\ job.release \in Release /\ job.spec \in ReleaseSpec /\ job.seen \in Seq(Tag)
        /\ job.next \in Nat /\ job.next \in 1..Len(job.spec.ranges)
    BY DEF EnsurePolicy, JobInv, Job
  <1>2. p \in PolicyID /\ CurrentRange \in Range
    BY <1>1, PolicyOfType DEF CurrentRange
  <1>3. new \in ImagePolicy
    <2> HIDE DEF p
    <2>1. policyCache[p] \in ImagePolicy \cup {Nil}
      BY <1>2 DEF TypeOK
    <2>2. policyCache[p] \in ImagePolicy => policies[p] \in ImagePolicy
      BY <1>2 DEF PolicyInv
    <2> QED
      BY <1>2, <2>1, <2>2, EnsuredType
  <1>4. /\ policies' = IF new = policyCache[p] THEN policies ELSE [policies EXCEPT ![p] = new]
        /\ NextRange(seen)
        /\ UNCHANGED <<releases, cacheVars, repositories, published, queued, edits>>
    BY DEF EnsurePolicy
  <1> HIDE DEF p, new
  <1>5. seen \in Seq(Tag)
    BY <1>1, <1>3 DEF ImagePolicy
  <1> HIDE DEF seen
  <1>6. /\ policies' \in [PolicyID -> ImagePolicy \cup {Nil}]
        /\ \A q \in PolicyID : policies[q] \in ImagePolicy => policies'[q] \in ImagePolicy
    BY <1>2, <1>3, <1>4 DEF TypeOK
  <1>7. /\ pc' \in {"policy", "patch"} /\ job' \in Job /\ ~job'.failed
        /\ pc' = "policy" => /\ job'.spec.type \in Type /\ job'.status = job'.before
                             /\ job'.next \in 1..Len(job'.spec.ranges)
    <2>1. Len(job.spec.ranges) \in Nat
      BY <1>1 DEF ReleaseSpec
    <2>2. job.next + 1 <= Len(job.spec.ranges) => job.next + 1 \in 1..Len(job.spec.ranges)
      BY <1>1, <2>1
    <2> QED
      BY <1>1, <1>4, <1>5, <2>2, NextRangeType
  <1>8. JobInv'
    BY <1>7 DEF JobInv
  <1>9. PolicyInv'
    BY <1>4, <1>6 DEF PolicyInv, cacheVars
  <1> QED
    BY <1>4, <1>6, <1>7, <1>8, <1>9 DEF TypeOK, cacheVars

LEMMA PatchStep ==
    ASSUME ReconcilerInv, PatchStatus \/ PatchFails
    PROVE  ReconcilerInv'
  <1> USE DEF ReconcilerInv
  <1>1. /\ pc = "patch" /\ job \in Job /\ job.release \in Release
        /\ job.before \in Status /\ job.status \in Status
    BY DEF PatchStatus, PatchFails, JobInv, Job
  <1>2. /\ pc' = "idle" /\ job' = Nil /\ queued' \in SUBSET Release
        /\ UNCHANGED <<cacheVars, fluxVars, published, edits>>
    BY <1>1 DEF PatchStatus, PatchFails, Done, TypeOK
  <1>3. releases' \in [Release -> [spec: Specs, status: Status] \cup {Nil}]
    <2> DEFINE r == job.release
    <2>1. CASE releases' = releases
      BY <2>1 DEF TypeOK
    <2>2. CASE /\ releases[r] # Nil
               /\ releases' = [releases EXCEPT ![r].status =
                                  Merged(@, job.before, job.status)]
      <3>1. releases[r] \in [spec: Specs, status: Status]
        BY <1>1, <2>2 DEF TypeOK
      <3>2. Merged(releases[r].status, job.before, job.status) \in Status
        BY <1>1, <3>1, MergedType
      <3> QED
        BY <1>1, <2>2, <3>1, <3>2 DEF TypeOK
    <2> QED
      BY <2>1, <2>2 DEF PatchStatus, PatchFails
  <1> QED
    BY <1>2, <1>3 DEF TypeOK, JobInv, PolicyInv, cacheVars, fluxVars

LEMMA CrashStep ==
    ASSUME ReconcilerInv, Crash
    PROVE  ReconcilerInv'
  BY DEF ReconcilerInv, TypeOK, JobInv, PolicyInv, Crash, fluxVars

LEMMA NextReconciler == ReconcilerInv /\ [Next]_vars => ReconcilerInv'
  <1> SUFFICES ASSUME ReconcilerInv, [Next]_vars PROVE ReconcilerInv'
    OBVIOUS
  <1>1. CASE UNCHANGED vars
    BY <1>1 DEF ReconcilerInv, TypeOK, JobInv, PolicyInv, vars
  <1>2. CASE ReconcileStep
    BY <1>2, ReconcileStarts, FailStep, RepositoryStep, PolicyStep, PatchStep DEF ReconcileStep
  <1> QED
    BY <1>1, <1>2, EnvironmentStep, CrashStep DEF Next

\* Whatever ranges users write, whichever calls fail and wherever the controller dies, every
\* object and every local of Reconcile is well-formed; in particular the loop over the
\* ranges never runs past the last one and the latest version is a tag that was found.
THEOREM TypeCorrect == Spec => []TypeOK
  <1>1. ReconcilerInv => TypeOK
    BY DEF ReconcilerInv
  <1> QED
    BY <1>1, InitReconciler, NextReconciler, PTL DEF Spec

\* A reconcile that failed changes no status, although the deferred patch runs after errors
\* as well and versions may have been collected by then.
THEOREM FailureKeepsStatus == Spec => NoPartialStatus
  <1> DEFINE Keeps == pc = "patch" /\ pc' = "idle" /\ job.failed => releases' = releases
  <1>1. ReconcilerInv /\ [Next]_vars => [Keeps]_vars
    <2> SUFFICES ASSUME ReconcilerInv, Next, pc = "patch", pc' = "idle", job.failed
                 PROVE  releases' = releases
      OBVIOUS
    <2>1. PatchStatus \/ PatchFails \/ Crash
      BY DEF Next, UserStep, FluxStep, WatchStep, ReconcileStep, DeleteRelease, WriteRelease,
             Publish, FluxChooses, SyncRelease, SyncRepository, Resync, SyncPolicy, Reconcile,
             EnsureRepository, RepositoryFails, EnsurePolicy, PolicyFails
    <2>2. CASE PatchFails \/ Crash
      BY <2>2 DEF PatchFails, Crash
    <2>3. CASE PatchStatus
      <3> DEFINE r == job.release
      <3>1. /\ job \in Job /\ job.status = job.before /\ job.before \in Status /\ r \in Release
        BY DEF ReconcilerInv, JobInv, Job
      <3>2. CASE releases[r] = Nil
        BY <2>3, <3>2 DEF PatchStatus
      <3>3. CASE releases[r] # Nil
        <4>1. releases[r] \in [spec: Specs, status: Status]
          BY <3>1, <3>3 DEF ReconcilerInv, TypeOK
        <4>2. Merged(releases[r].status, job.before, job.status) = releases[r].status
          BY <3>1, <4>1, MergedSame
        <4>3. releases' = [releases EXCEPT ![r].status = releases[r].status]
          BY <2>3, <3>3, <4>2 DEF PatchStatus
        <4> QED
          BY <3>1, <4>1, <4>3 DEF ReconcilerInv, TypeOK
      <3> QED
        BY <3>2, <3>3
    <2> QED
      BY <2>1, <2>2, <2>3
  <1>2. Spec => [][Keeps]_vars
    <2> HIDE DEF Keeps
    <2> QED
      BY <1>1, InitReconciler, NextReconciler, PTL DEF Spec
  <1> QED
    BY <1>2 DEF NoPartialStatus

=============================================================================
