-------------------------- MODULE AlgorithmsProofs --------------------------
(***************************************************************************)
(* Proofs about parts that share no state: the release script, Detours'    *)
(* search for a region and its trampoline, and the small patches; for any  *)
(* numbers, commits and runs, code and address spaces, hooked functions,   *)
(* angles, morph targets, components and windows.                          *)
(***************************************************************************)
EXTENDS ReleasePublisher, TrampolineRegion, SmallPatches, DetourAttach, FiniteSetTheorems,
  SequenceTheorems, WellFoundedInduction, TLAPS

-----------------------------------------------------------------------------
(***************************************************************************)
(* The release script: what a run publishes is what it built, whichever of *)
(* several releases of one tag gh finds.                                   *)
(*                                                                         *)
(* The script never holds its release by a name of its own.  It asks gh    *)
(* for a tag, and the answer may be a draft that an earlier run left.  The *)
(* argument is that the answer cannot change between the checks and the    *)
(* publication, so what was checked is what is published.                  *)
(***************************************************************************)
Steps == {"none", "list", "view", "reftag", "create", "resolve", "state", "asset", "publish",
          "tagged", "published", "verified"}
BeforeDraft == {"list", "view", "reftag", "create"}
Checking == {"state", "asset", "publish"}
AfterPublish == {"tagged", "published", "verified"}

Releases == [id : Nat, number : ReleaseNumbers, target : GitCommits, asset : Nat,
             draft : BOOLEAN, prerelease : BOOLEAN]

Jobs == [step : Steps, request : ReleaseNumbers \cup {NextRelease}, number : ReleaseNumbers \cup {0},
         commit : GitCommits \cup {NoCommit}, prerelease : BOOLEAN, found : Nat]

PublisherTypeOK ==
  /\ releases \subseteq Releases
  /\ tags \in [ReleaseNumbers -> GitCommits \cup {NoCommit}]
  /\ job \in Jobs
  /\ builds \in Nat /\ preferred \in {"oldest", "newest"}

\* A run makes one draft, which is known by the run's number and has its DLL.
OneDraftPerRun ==
  /\ \A r \in releases : r.id \in 1 .. builds /\ r.asset \in {r.id, NoAsset}
  /\ \A q, r \in releases : q.id = r.id => q = r
  /\ job.step \in BeforeDraft => \A r \in releases : r.id # builds

\* A run is for a commit, and knows its number once it has listed the releases.
JobInOrder ==
  /\ job.step # "none" => builds # 0 /\ job.commit \in GitCommits
  /\ job.step \notin {"none", "list"} => job.number \in ReleaseNumbers

\* What has been checked of the release gh finds is true of it.
CheckedInv ==
  /\ JobAt("resolve") => Named(job.number) # {}
  /\ job.step \in Checking =>
       \E r \in releases :
         /\ r.id = job.found /\ r.number = job.number /\ FoundByTag(job.number) = r.id
         /\ r.target = job.commit
         /\ ~JobAt("state") => r.draft /\ r.prerelease = job.prerelease
         /\ JobAt("publish") => r.asset = builds

\* What is published stays so while the run verifies it.
PublishedInv ==
  /\ job.step \in AfterPublish =>
       \E r \in releases : r.number = job.number /\ ~r.draft /\ r.asset = builds
  /\ job.step \in {"published", "verified"} => tags[job.number] = job.commit

ShippedInv ==
  \A s \in shipped :
    /\ s.release.asset = s.dll /\ s.release.target = s.commit
    /\ s.release.draft /\ s.release.prerelease = s.prerelease

PublisherInv ==
  PublisherTypeOK /\ OneDraftPerRun /\ JobInOrder /\ CheckedInv /\ PublishedInv /\ ShippedInv

USE PublisherConstants

-----------------------------------------------------------------------------
(***************************************************************************)
(* What gh finds.                                                          *)
(***************************************************************************)
\* A set of natural numbers that is not empty has a least one.
LEMMA LeastOf ==
  ASSUME NEW S \in SUBSET Nat, S # {}
  PROVE  \E n \in S : \A m \in S : n <= m
<1>1. PICK n \in S : \A m \in S : <<m, n>> \notin OpToRel(<, Nat)
  BY WFMin, NatLessThanWellFounded, Zenon
<1>2. \A m \in S : ~(m < n)
  BY <1>1, Zenon DEF OpToRel
<1>3. QED
  BY <1>2, SMT

\* A set of integers between two bounds has its least and its greatest element.
LEMMA BoundedExtremes ==
  ASSUME NEW S, NEW a \in Int, NEW b \in Int, \A x \in S : x \in Int /\ a <= x /\ x <= b,
         S # {}
  PROVE  Min(S) \in S /\ Max(S) \in S
<1>1. \E x \in S : \A y \in S : x <= y
  <2> DEFINE T == {x - a : x \in S}
  <2>1. T \in SUBSET Nat /\ T # {}
    OBVIOUS
  <2>2. PICK n \in T : \A m \in T : n <= m
    BY <2>1, LeastOf
  <2>3. PICK x \in S : n = x - a
    OBVIOUS
  <2>4. ASSUME NEW y \in S PROVE x <= y
    <3>1. n <= y - a
      BY <2>2
    <3>2. QED
      BY <2>3, <3>1
  <2>5. QED
    BY <2>4
<1>2. \E x \in S : \A y \in S : x >= y
  <2> DEFINE T == {b - x : x \in S}
  <2>1. T \in SUBSET Nat /\ T # {}
    OBVIOUS
  <2>2. PICK n \in T : \A m \in T : n <= m
    BY <2>1, LeastOf
  <2>3. PICK x \in S : n = b - x
    OBVIOUS
  <2>4. ASSUME NEW y \in S PROVE x >= y
    <3>1. n <= b - y
      BY <2>2
    <3>2. QED
      BY <2>3, <3>1
  <2>5. QED
    BY <2>4
<1>3. QED
  BY <1>1, <1>2, Zenon DEF Min, Max

\* For a tag that some release carries, gh finds one that carries it.
LEMMA FoundCarriesTag ==
  ASSUME PublisherTypeOK, OneDraftPerRun, NEW number, Named(number) # {}
  PROVE  \E r \in releases : r.id = FoundByTag(number) /\ r.number = number
<1>1. builds \in Int
  BY DEF PublisherTypeOK
<1>2. \A x \in Named(number) : x \in Int /\ 1 <= x /\ x <= builds
  BY <1>1 DEF Named, OneDraftPerRun
<1>3. Min(Named(number)) \in Named(number) /\ Max(Named(number)) \in Named(number)
  BY <1>1, <1>2, BoundedExtremes
<1>4. FoundByTag(number) \in Named(number)
  BY <1>3 DEF FoundByTag
<1>5. QED
  BY <1>4 DEF Named

\* A release is known by its id.
LEMMA NumberedByItsId ==
  ASSUME OneDraftPerRun, NEW r \in releases
  PROVE  Numbered(r.id) = r
<1>1. \A q \in releases : q.id = r.id <=> q = r
  BY DEF OneDraftPerRun
<1>2. QED
  BY <1>1 DEF Numbered

\* The numbers found by listing leave a next one within the limit.
LEMMA NextNumberIsValid ==
  ASSUME PublisherTypeOK,
         Max({MinimumRelease - 1} \cup {r.number : r \in releases}) < ReleaseLimit
  PROVE  Max({MinimumRelease - 1} \cup {r.number : r \in releases}) + 1 \in ReleaseNumbers
<1> DEFINE S == {MinimumRelease - 1} \cup {r.number : r \in releases}
<1>1. CASE MinimumRelease - 1 <= ReleaseLimit
  <2>1. \A x \in S : x \in Int /\ MinimumRelease - 1 <= x /\ x <= ReleaseLimit
    <3>1. \A r \in releases : r.number \in MinimumRelease .. ReleaseLimit
      BY DEF PublisherTypeOK, Releases, ReleaseNumbers
    <3>2. QED
      BY <1>1, <3>1
  <2>2. S # {} /\ MinimumRelease - 1 \in Int /\ ReleaseLimit \in Int
    OBVIOUS
  <2> HIDE DEF S
  <2>3. Max(S) \in S
    BY <2>1, <2>2, BoundedExtremes
  <2>4. Max(S) \in MinimumRelease - 1 .. ReleaseLimit
    BY <2>1, <2>2, <2>3
  <2>5. QED
    BY <2>4 DEF ReleaseNumbers, S
<1>2. CASE MinimumRelease - 1 > ReleaseLimit
  <2>1. ReleaseNumbers = {}
    BY <1>2 DEF ReleaseNumbers
  <2>2. releases = {}
    BY <2>1 DEF PublisherTypeOK, Releases
  <2>3. S = {MinimumRelease - 1}
    BY <2>2
  <2> HIDE DEF S
  <2>4. /\ S # {} /\ MinimumRelease - 1 \in Int
        /\ \A x \in S : x \in Int /\ MinimumRelease - 1 <= x /\ x <= MinimumRelease - 1
    BY <2>3
  <2>5. Max(S) \in S
    BY <2>4, BoundedExtremes
  <2>6. Max(S) = MinimumRelease - 1
    BY <2>3, <2>5
  <2>7. QED
    BY <1>2, <2>6 DEF S
<1>3. QED
  BY <1>1, <1>2

-----------------------------------------------------------------------------
(***************************************************************************)
(* Steps of the script.                                                    *)
(***************************************************************************)
\* A run that goes on without touching GitHub keeps the invariant if what it
\* now relies on is true.
LEMMA JobMoves ==
  ASSUME PublisherInv, UNCHANGED <<releases, tags, preferred, builds, shipped>>,
         job' \in Jobs, JobInOrder', CheckedInv', PublishedInv',
         job'.step \in BeforeDraft => job.step \in BeforeDraft
  PROVE  PublisherInv'
<1>1. PublisherTypeOK'
  BY DEF PublisherInv, PublisherTypeOK
<1>2. OneDraftPerRun'
  BY DEF PublisherInv, OneDraftPerRun
<1>3. ShippedInv'
  BY DEF PublisherInv, ShippedInv
<1>4. QED
  BY <1>1, <1>2, <1>3 DEF PublisherInv

\* The run at another step.
LEMMA JobSteps ==
  ASSUME job \in Jobs, NEW next \in Steps, JobGoto(next)
  PROVE  /\ job' \in Jobs /\ job'.step = next /\ job'.number = job.number
         /\ job'.commit = job.commit /\ job'.prerelease = job.prerelease /\ job'.found = job.found
         /\ job'.request = job.request
BY DEF JobGoto, Jobs

\* No run.
LEMMA NoJobIsIdle ==
  NoJob \in Jobs /\ NoJob.step = "none"
BY DEF NoJob, Jobs, Steps, NextRelease

\* A run that ends relies on nothing.
LEMMA RunEnds ==
  ASSUME job' = NoJob
  PROVE  JobInOrder' /\ CheckedInv' /\ PublishedInv'
BY NoJobIsIdle DEF JobInOrder, CheckedInv, PublishedInv, JobAt, Checking, AfterPublish

\* Names do not change with the run.
LEMMA SameFound ==
  ASSUME UNCHANGED <<releases, preferred>>
  PROVE  \A n : Named(n)' = Named(n) /\ FoundByTag(n)' = FoundByTag(n)
BY DEF Named, FoundByTag

\* A dispatch: a new number for its draft.
LEMMA DispatchStep ==
  ASSUME PublisherInv, NEW request \in ReleaseNumbers \cup {NextRelease}, NEW commit \in GitCommits,
         NEW prerelease \in BOOLEAN, Dispatch(request, commit, prerelease)
  PROVE  PublisherInv'
<1>1. /\ builds' = builds + 1 /\ UNCHANGED <<releases, tags, preferred, shipped>>
      /\ job' = [NoJob EXCEPT !.step = "list", !.request = request, !.commit = commit,
                              !.prerelease = prerelease]
  BY DEF Dispatch
<1>2. job' = [step |-> "list", request |-> request, number |-> 0, commit |-> commit,
              prerelease |-> prerelease, found |-> 0]
  BY <1>1 DEF NoJob
<1>3. job' \in Jobs /\ job'.step = "list" /\ job'.commit = commit
  BY <1>2 DEF Jobs, Steps
<1>4. PublisherTypeOK'
  BY <1>1, <1>3 DEF PublisherInv, PublisherTypeOK
<1>5. builds \in Nat /\ \A r \in releases : r.id \in 1 .. builds /\ r.asset \in {r.id, NoAsset}
  BY DEF PublisherInv, PublisherTypeOK, OneDraftPerRun
<1>6. \A r \in releases : r.id \in 1 .. builds' /\ r.id # builds'
  BY <1>1, <1>5
<1>7. OneDraftPerRun'
  BY <1>1, <1>6 DEF PublisherInv, OneDraftPerRun
<1>8. JobInOrder' /\ CheckedInv' /\ PublishedInv'
  BY <1>1, <1>3, <1>5 DEF JobInOrder, CheckedInv, PublishedInv, JobAt, Checking, AfterPublish
<1>9. ShippedInv'
  BY <1>1 DEF PublisherInv, ShippedInv
<1>10. QED
  BY <1>4, <1>7, <1>8, <1>9 DEF PublisherInv

\* A run that fails or is stopped.
LEMMA StopStep ==
  ASSUME PublisherInv, StopRun
  PROVE  PublisherInv'
<1>1. job' = NoJob /\ UNCHANGED <<releases, tags, preferred, builds, shipped>>
  BY DEF StopRun
<1>2. job' \in Jobs /\ job'.step \notin BeforeDraft
  BY <1>1, NoJobIsIdle DEF BeforeDraft
<1>3. QED
  BY <1>1, <1>2, RunEnds, JobMoves

\* The number, and the two looks whether it is free: nothing is relied on yet.
LEMMA NumberStep ==
  ASSUME PublisherInv, ListReleases \/ CheckFree
  PROVE  PublisherInv'
<1>1. job \in Jobs /\ JobInOrder
  BY DEF PublisherInv, PublisherTypeOK
<1>2. UNCHANGED <<releases, tags, preferred, builds, shipped>>
  BY DEF ListReleases, CheckFree
<1>3. /\ job' \in Jobs /\ job.step \in BeforeDraft /\ job'.step \in {"view", "reftag", "create"}
      /\ job'.number \in ReleaseNumbers /\ job'.commit = job.commit
  <2>1. CASE CheckFree
    <3>1. PICK next \in {"reftag", "create"} : JobGoto(next)
      BY <2>1 DEF CheckFree
    <3>2. job.step \in {"view", "reftag"}
      BY <2>1 DEF CheckFree, JobAt
    <3>3. job'.step = next /\ job' \in Jobs /\ job'.number = job.number /\ job'.commit = job.commit
      BY <1>1, <3>1, JobSteps DEF Steps
    <3>4. QED
      BY <1>1, <3>2, <3>3 DEF BeforeDraft, JobInOrder
  <2>2. ASSUME NEW n \in ReleaseNumbers, job' = [job EXCEPT !.step = "view", !.number = n], JobAt("list")
        PROVE  /\ job' \in Jobs /\ job.step \in BeforeDraft /\ job'.step \in {"view", "reftag", "create"}
               /\ job'.number \in ReleaseNumbers /\ job'.commit = job.commit
    <3>1. PICK listed : listed = [job EXCEPT !.step = "view"]
      OBVIOUS
    <3>2. listed \in Jobs /\ listed.step = "view" /\ listed.commit = job.commit
      BY <1>1, <3>1 DEF Jobs, Steps
    <3>3. job' = [listed EXCEPT !.number = n]
      BY <2>2, <3>1
    <3>4. job' \in Jobs /\ job'.step = "view" /\ job'.number = n /\ job'.commit = job.commit
      BY <3>2, <3>3 DEF Jobs
    <3>5. QED
      BY <2>2, <3>4 DEF JobAt, BeforeDraft
  <2>3. CASE ListReleases
    <3> DEFINE max_release == Max({MinimumRelease - 1} \cup {r.number : r \in releases})
    <3>1. /\ JobAt("list")
          /\ \/ job.request # NextRelease /\ job' = [job EXCEPT !.step = "view", !.number = job.request]
             \/ /\ max_release < ReleaseLimit
                /\ job' = [job EXCEPT !.step = "view", !.number = max_release + 1]
      BY <2>3 DEF ListReleases
    <3>2. max_release < ReleaseLimit => max_release + 1 \in ReleaseNumbers
      BY NextNumberIsValid DEF PublisherInv
    <3>3. job.request # NextRelease => job.request \in ReleaseNumbers
      BY <1>1 DEF Jobs
    <3> HIDE DEF max_release
    <3>4. PICK n \in ReleaseNumbers : job' = [job EXCEPT !.step = "view", !.number = n]
      BY <3>1, <3>2, <3>3
    <3>5. QED
      BY <2>2, <3>1, <3>4
  <2>4. QED
    BY <2>1, <2>3
<1>4. builds # 0 /\ job'.commit \in GitCommits
  BY <1>1, <1>3 DEF JobInOrder, BeforeDraft
<1>5. JobInOrder' /\ CheckedInv' /\ PublishedInv'
  BY <1>2, <1>3, <1>4 DEF JobInOrder, CheckedInv, PublishedInv, JobAt, Checking, AfterPublish
<1>6. QED
  BY <1>2, <1>3, <1>5, JobMoves

\* The draft is made, with its file or without.
LEMMA CreateStep ==
  ASSUME PublisherInv, CreateDraft
  PROVE  PublisherInv'
<1>1. /\ PublisherTypeOK /\ OneDraftPerRun /\ JobInOrder /\ job \in Jobs /\ job.step = "create"
      /\ UNCHANGED <<tags, preferred, builds, shipped>>
  BY DEF PublisherInv, PublisherTypeOK, CreateDraft, JobAt
<1>2. builds \in Nat /\ builds # 0 /\ job.commit \in GitCommits /\ job.number \in ReleaseNumbers
      /\ job.prerelease \in BOOLEAN
  BY <1>1 DEF JobInOrder, PublisherTypeOK, Jobs
<1>3. PICK asset \in {builds, NoAsset} :
        releases' = releases \cup {[id |-> builds, number |-> job.number, target |-> job.commit,
                                    asset |-> asset, draft |-> TRUE, prerelease |-> job.prerelease]}
  BY DEF CreateDraft
<1> DEFINE made == [id |-> builds, number |-> job.number, target |-> job.commit,
                    asset |-> asset, draft |-> TRUE, prerelease |-> job.prerelease]
<1>4. made \in Releases /\ made.id = builds /\ made.asset \in {builds, NoAsset} /\ made.number = job.number
  BY <1>2 DEF Releases, NoAsset
<1>5. releases' = releases \cup {made}
  BY <1>3
<1> HIDE DEF made
<1>6. job' \in Jobs /\ job'.step \in {"none", "resolve"} /\ job'.step \notin BeforeDraft
      /\ (job'.step = "resolve" => job'.number = job.number /\ job'.commit = job.commit)
  <2>1. CASE job' = NoJob
    BY <2>1, NoJobIsIdle DEF BeforeDraft
  <2>2. CASE JobGoto("resolve")
    BY <1>1, <2>2, JobSteps DEF BeforeDraft, Steps
  <2>3. QED
    BY <2>1, <2>2 DEF CreateDraft
<1>7. PublisherTypeOK'
  BY <1>1, <1>4, <1>5, <1>6 DEF PublisherTypeOK
<1>8. \A r \in releases : r.id \in 1 .. builds /\ r.id # builds /\ r.asset \in {r.id, NoAsset}
  BY <1>1 DEF OneDraftPerRun, BeforeDraft
<1>9. OneDraftPerRun'
  <2>1. \A r \in releases' : r.id \in 1 .. builds' /\ r.asset \in {r.id, NoAsset}
    BY <1>1, <1>2, <1>4, <1>5, <1>8
  <2>2. \A q, r \in releases' : q.id = r.id => q = r
    BY <1>1, <1>4, <1>5, <1>8 DEF OneDraftPerRun
  <2>3. QED
    BY <1>6, <2>1, <2>2 DEF OneDraftPerRun
<1>10. JobInOrder' /\ PublishedInv'
  BY <1>1, <1>2, <1>6 DEF JobInOrder, PublishedInv, AfterPublish
<1>11. CheckedInv'
  <2>1. job'.step = "resolve" => Named(job.number)' # {}
    BY <1>4, <1>5, <1>6 DEF Named
  <2>2. job'.step \notin Checking
    BY <1>6 DEF Checking
  <2>3. QED
    BY <2>1, <2>2 DEF CheckedInv, JobAt
<1>12. ShippedInv'
  BY <1>1 DEF PublisherInv, ShippedInv
<1>13. QED
  BY <1>7, <1>9, <1>10, <1>11, <1>12 DEF PublisherInv

\* gh's answer for the tag is a release that carries it, for the built commit.
LEMMA ResolveStep ==
  ASSUME PublisherInv, ResolveDraft
  PROVE  PublisherInv'
<1> DEFINE id == FoundByTag(job.number)
<1>1. /\ PublisherTypeOK /\ OneDraftPerRun /\ JobInOrder /\ CheckedInv /\ job \in Jobs
      /\ job.step = "resolve" /\ UNCHANGED <<releases, tags, preferred, builds, shipped>>
  BY DEF PublisherInv, PublisherTypeOK, ResolveDraft, JobAt
<1>2. PICK r \in releases : r.id = id /\ r.number = job.number
  BY <1>1, FoundCarriesTag DEF CheckedInv, JobAt
<1>3. r.target = job.commit
  BY <1>1, <1>2, NumberedByItsId DEF ResolveDraft
<1>4. id \in Nat
  BY <1>1, <1>2 DEF PublisherTypeOK, Releases
<1>5. job' = [job EXCEPT !.step = "state", !.found = id]
  BY DEF ResolveDraft
<1>6. PICK stepped : stepped = [job EXCEPT !.step = "state"]
  OBVIOUS
<1>7. stepped \in Jobs /\ stepped.step = "state" /\ stepped.number = job.number /\ stepped.commit = job.commit
  BY <1>1, <1>6 DEF Jobs, Steps
<1>8. job' = [stepped EXCEPT !.found = id]
  BY <1>5, <1>6
<1> HIDE DEF id
<1>9. /\ job' \in Jobs /\ job'.step = "state" /\ job'.number = job.number /\ job'.commit = job.commit
      /\ job'.found = id
  BY <1>4, <1>7, <1>8 DEF Jobs
<1>10. PICK n : n = job.number
  OBVIOUS
<1>11. FoundByTag(n)' = id
  BY <1>1, <1>10, SameFound DEF id
<1>12. FoundByTag(job.number)' = id
  BY <1>9, <1>10, <1>11 DEF FoundByTag, Named
<1>13. CheckedInv'
  BY <1>1, <1>2, <1>3, <1>9, <1>12 DEF CheckedInv, JobAt, Checking
<1>14. JobInOrder' /\ PublishedInv'
  BY <1>1, <1>9 DEF JobInOrder, PublishedInv, AfterPublish
<1>15. QED
  BY <1>1, <1>9, <1>13, <1>14, JobMoves DEF BeforeDraft

\* A check of the draft holds of the release gh will find again.
LEMMA InspectStep ==
  ASSUME PublisherInv, InspectDraft
  PROVE  PublisherInv'
<1>1. /\ PublisherTypeOK /\ OneDraftPerRun /\ JobInOrder /\ CheckedInv /\ job \in Jobs
      /\ job.step \in {"state", "asset"} /\ UNCHANGED <<releases, tags, preferred, builds, shipped>>
  BY DEF PublisherInv, PublisherTypeOK, InspectDraft, JobAt
<1>2. PICK r \in releases :
        /\ r.id = job.found /\ r.number = job.number /\ FoundByTag(job.number) = r.id
        /\ r.target = job.commit
        /\ ~JobAt("state") => r.draft /\ r.prerelease = job.prerelease
  BY <1>1 DEF CheckedInv, Checking
<1>3. Numbered(job.found) = r
  BY <1>1, <1>2, NumberedByItsId
<1>4. PICK next \in {"asset", "publish"} :
        /\ JobGoto(next) /\ r.draft /\ r.prerelease = job.prerelease
        /\ next = "publish" => r.asset = builds
  <2>1. CASE JobAt("state")
    BY <1>3, <2>1 DEF InspectDraft, JobAt
  <2>2. CASE JobAt("asset")
    <3>1. ~JobAt("state")
      BY <2>2 DEF JobAt
    <3>2. QED
      BY <1>2, <1>3, <2>2, <3>1 DEF InspectDraft
  <2>3. QED
    BY <1>1, <2>1, <2>2 DEF JobAt
<1>5. /\ job' \in Jobs /\ job'.step = next /\ job'.number = job.number /\ job'.commit = job.commit
      /\ job'.prerelease = job.prerelease /\ job'.found = job.found
  BY <1>1, <1>4, JobSteps DEF Steps
<1>6. PICK n : n = job.number
  OBVIOUS
<1>7. FoundByTag(n)' = r.id
  BY <1>1, <1>2, <1>6, SameFound
<1>8. FoundByTag(job.number)' = r.id
  BY <1>5, <1>6, <1>7 DEF FoundByTag, Named
<1>9. CheckedInv'
  BY <1>1, <1>2, <1>4, <1>5, <1>8 DEF CheckedInv, JobAt, Checking
<1>10. JobInOrder' /\ PublishedInv'
  BY <1>1, <1>5 DEF JobInOrder, PublishedInv, AfterPublish
<1>11. QED
  BY <1>1, <1>5, <1>9, <1>10, JobMoves DEF BeforeDraft

\* The release that is published is the one that was checked.
LEMMA PublishStep ==
  ASSUME PublisherInv, PublishDraft
  PROVE  PublisherInv'
<1> DEFINE id == FoundByTag(job.number)
<1>1. /\ PublisherTypeOK /\ OneDraftPerRun /\ JobInOrder /\ CheckedInv /\ ShippedInv /\ job \in Jobs
      /\ job.step = "publish" /\ UNCHANGED <<preferred, builds>>
  BY DEF PublisherInv, PublisherTypeOK, PublishDraft, JobAt
<1>2. PICK r \in releases :
        /\ id = r.id /\ r.number = job.number /\ r.target = job.commit
        /\ r.draft /\ r.prerelease = job.prerelease /\ r.asset = builds
  BY <1>1 DEF CheckedInv, Checking, JobAt
<1>3. Numbered(id) = r
  BY <1>1, <1>2, NumberedByItsId
<1> DEFINE Done(q) == [q EXCEPT !.draft = q.draft /\ q.id # id]
<1>4. /\ releases' = {Done(q) : q \in releases}
      /\ tags' = [tags EXCEPT ![job.number] =
                    IF tags[job.number] = NoCommit THEN Numbered(id).target ELSE tags[job.number]]
      /\ shipped' = shipped \cup {[release |-> Numbered(id), dll |-> builds, commit |-> job.commit,
                                   prerelease |-> job.prerelease]}
  BY DEF PublishDraft
<1>5. ASSUME NEW q \in releases
      PROVE  /\ Done(q) \in Releases /\ Done(q).id = q.id /\ Done(q).number = q.number
             /\ Done(q).asset = q.asset /\ (q.id = id => ~Done(q).draft)
  <2>1. q \in Releases
    BY <1>1 DEF PublisherTypeOK
  <2>2. PICK open \in BOOLEAN : open = (q.draft /\ q.id # id)
    BY <2>1 DEF Releases
  <2>3. Done(q) = [q EXCEPT !.draft = open]
    BY <2>2
  <2> HIDE DEF Done, id
  <2>4. QED
    BY <2>1, <2>2, <2>3 DEF Releases
<1> HIDE DEF Done
<1>6. job' \in Jobs /\ job'.step \in {"none", "tagged"}
      /\ (job'.step = "tagged" => job'.number = job.number /\ job'.commit = job.commit)
  <2>1. CASE job' = NoJob
    BY <2>1, NoJobIsIdle
  <2>2. CASE JobGoto("tagged")
    BY <1>1, <2>2, JobSteps DEF Steps
  <2>3. QED
    BY <2>1, <2>2 DEF PublishDraft
<1>7. releases' \subseteq Releases
  BY <1>4, <1>5
<1>8. tags' \in [ReleaseNumbers -> GitCommits \cup {NoCommit}]
  <2>1. r.target \in GitCommits /\ job.number \in ReleaseNumbers
    BY <1>1, <1>2 DEF PublisherTypeOK, Releases, JobInOrder
  <2> HIDE DEF id
  <2>2. QED
    BY <1>1, <1>3, <1>4, <2>1 DEF PublisherTypeOK
<1>9. PublisherTypeOK'
  BY <1>1, <1>6, <1>7, <1>8 DEF PublisherTypeOK
<1>10. OneDraftPerRun'
  <2>1. \A q \in releases' : q.id \in 1 .. builds' /\ q.asset \in {q.id, NoAsset}
    BY <1>1, <1>4, <1>5 DEF OneDraftPerRun
  <2>2. \A p, q \in releases' : p.id = q.id => p = q
    <3> SUFFICES ASSUME NEW p \in releases, NEW q \in releases, Done(p).id = Done(q).id
                 PROVE  Done(p) = Done(q)
      BY <1>4
    <3>1. p.id = q.id
      BY <1>5
    <3>2. QED
      BY <1>1, <3>1 DEF OneDraftPerRun
  <2>3. job'.step \notin BeforeDraft
    BY <1>6 DEF BeforeDraft
  <2>4. QED
    BY <2>1, <2>2, <2>3 DEF OneDraftPerRun
<1>11. JobInOrder' /\ CheckedInv'
  BY <1>1, <1>6 DEF JobInOrder, CheckedInv, JobAt, Checking
<1>12. PublishedInv'
  <2>1. Done(r) \in releases' /\ Done(r).number = job.number /\ ~Done(r).draft /\ Done(r).asset = builds
    BY <1>2, <1>4, <1>5
  <2>2. QED
    BY <1>1, <1>6, <2>1 DEF PublishedInv, AfterPublish
<1>13. ShippedInv'
  <2> DEFINE new == [release |-> r, dll |-> builds, commit |-> job.commit, prerelease |-> job.prerelease]
  <2>1. shipped' = shipped \cup {new}
    BY <1>3, <1>4
  <2>2. /\ new.release.asset = new.dll /\ new.release.target = new.commit
        /\ new.release.draft /\ new.release.prerelease = new.prerelease
    BY <1>2
  <2> HIDE DEF new
  <2>3. QED
    BY <1>1, <2>1, <2>2 DEF ShippedInv
<1>14. QED
  BY <1>9, <1>10, <1>11, <1>12, <1>13 DEF PublisherInv

\* The two checks afterwards.
LEMMA VerifyStep ==
  ASSUME PublisherInv, VerifyPublished
  PROVE  PublisherInv'
<1>1. /\ JobInOrder /\ PublishedInv /\ job \in Jobs /\ job.step \in {"tagged", "published"}
      /\ UNCHANGED <<releases, tags, preferred, builds, shipped>>
  BY DEF PublisherInv, PublisherTypeOK, VerifyPublished, JobAt
<1>2. PICK next \in {"published", "verified"} : JobGoto(next)
  BY DEF VerifyPublished
<1>3. tags[job.number] = job.commit
  BY <1>1 DEF VerifyPublished, JobAt, PublishedInv
<1>4. /\ job' \in Jobs /\ job'.step = next /\ job'.number = job.number /\ job'.commit = job.commit
  BY <1>1, <1>2, JobSteps DEF Steps
<1>5. JobInOrder' /\ CheckedInv'
  BY <1>1, <1>4 DEF JobInOrder, CheckedInv, JobAt, Checking
<1>6. PublishedInv'
  BY <1>1, <1>3, <1>4 DEF PublishedInv, AfterPublish
<1>7. QED
  BY <1>1, <1>4, <1>5, <1>6, JobMoves DEF BeforeDraft

-----------------------------------------------------------------------------
(***************************************************************************)
(* Maintainers, and the theorems.                                          *)
(***************************************************************************)
\* A tag that is pushed was none, so not the one a run has verified.
LEMMA PushStep ==
  ASSUME PublisherInv, NEW number \in ReleaseNumbers, NEW commit \in GitCommits, PushTag(number, commit)
  PROVE  PublisherInv'
<1>1. /\ PublisherTypeOK /\ OneDraftPerRun /\ JobInOrder /\ CheckedInv /\ PublishedInv /\ ShippedInv
      /\ tags[number] = NoCommit /\ tags' = [tags EXCEPT ![number] = commit]
      /\ UNCHANGED <<releases, preferred, job, builds, shipped>>
  BY DEF PublisherInv, PushTag
<1>2. PublisherTypeOK'
  BY <1>1 DEF PublisherTypeOK
<1>3. OneDraftPerRun' /\ JobInOrder' /\ ShippedInv'
  BY <1>1 DEF OneDraftPerRun, JobInOrder, ShippedInv
<1>4. CheckedInv'
  BY <1>1 DEF CheckedInv, JobAt, Named, FoundByTag
<1>5. PublishedInv'
  <2>1. ASSUME job.step \in {"published", "verified"} PROVE tags'[job.number] = job.commit
    <3>1. tags[job.number] = job.commit /\ job.commit # NoCommit /\ job.number \in ReleaseNumbers
      BY <1>1, <2>1 DEF PublishedInv, JobInOrder
    <3>2. job.number # number
      BY <1>1, <3>1
    <3>3. QED
      BY <1>1, <3>1, <3>2 DEF PublisherTypeOK
  <2>2. QED
    BY <1>1, <2>1 DEF PublishedInv
<1>6. QED
  BY <1>2, <1>3, <1>4, <1>5 DEF PublisherInv

\* Between runs a release may go, or a draft that stayed be published.
LEMMA TidyStep ==
  ASSUME PublisherInv, NEW r \in releases, TidyUp(r)
  PROVE  PublisherInv'
<1>1. /\ PublisherTypeOK /\ OneDraftPerRun /\ ShippedInv /\ job.step = "none"
      /\ UNCHANGED <<preferred, job, builds, shipped>>
  BY DEF PublisherInv, TidyUp, JobAt
<1>2. r \in Releases
  BY <1>1 DEF PublisherTypeOK
<1> DEFINE public == [r EXCEPT !.draft = FALSE]
<1>3. public \in Releases /\ public.id = r.id /\ public.asset = r.asset
  BY <1>2 DEF Releases
<1>4. \/ releases' = releases \ {r}
      \/ releases' = (releases \ {r}) \cup {public}
  BY DEF TidyUp
<1>5. tags' \in [ReleaseNumbers -> GitCommits \cup {NoCommit}]
  <2>1. \/ tags' = tags
        \/ tags' = [tags EXCEPT ![r.number] = IF tags[r.number] = NoCommit THEN r.target ELSE tags[r.number]]
    BY DEF TidyUp
  <2>2. r.number \in ReleaseNumbers /\ r.target \in GitCommits
    BY <1>2 DEF Releases
  <2>3. QED
    BY <1>1, <2>1, <2>2 DEF PublisherTypeOK
<1> HIDE DEF public
<1>6. PublisherTypeOK'
  BY <1>1, <1>3, <1>4, <1>5 DEF PublisherTypeOK
<1>7. OneDraftPerRun'
  <2>1. \A q \in releases' : q.id \in 1 .. builds' /\ q.asset \in {q.id, NoAsset}
    BY <1>1, <1>3, <1>4 DEF OneDraftPerRun
  <2>2. \A p, q \in releases' : p.id = q.id => p = q
    BY <1>1, <1>3, <1>4 DEF OneDraftPerRun
  <2>3. QED
    BY <1>1, <2>1, <2>2 DEF OneDraftPerRun, BeforeDraft
<1>8. JobInOrder' /\ CheckedInv' /\ PublishedInv' /\ ShippedInv'
  BY <1>1 DEF JobInOrder, CheckedInv, PublishedInv, ShippedInv, JobAt, Checking, AfterPublish
<1>9. QED
  BY <1>6, <1>7, <1>8 DEF PublisherInv

\* Before the first run.
LEMMA PublisherStart ==
  ASSUME PublisherInit
  PROVE  PublisherInv
<1>1. PublisherTypeOK
  BY NoJobIsIdle DEF PublisherInit, PublisherTypeOK
<1>2. job.step = "none"
  BY NoJobIsIdle DEF PublisherInit
<1>3. OneDraftPerRun /\ ShippedInv
  BY <1>2 DEF PublisherInit, OneDraftPerRun, ShippedInv, BeforeDraft
<1>4. JobInOrder /\ CheckedInv /\ PublishedInv
  BY <1>2 DEF JobInOrder, CheckedInv, PublishedInv, JobAt, Checking, AfterPublish
<1>5. QED
  BY <1>1, <1>3, <1>4 DEF PublisherInv

\* Every step keeps the invariant.
LEMMA PublisherStep ==
  ASSUME PublisherInv, [PublisherNext]_publisherVars
  PROVE  PublisherInv'
<1>1. CASE UNCHANGED publisherVars
  BY <1>1 DEF publisherVars, PublisherInv, PublisherTypeOK, OneDraftPerRun, JobInOrder, CheckedInv,
    PublishedInv, ShippedInv, JobAt, Named, FoundByTag
<1>2. ASSUME NEW request \in ReleaseNumbers \cup {NextRelease}, NEW commit \in GitCommits,
             NEW prerelease \in BOOLEAN, Dispatch(request, commit, prerelease)
      PROVE  PublisherInv'
  BY <1>2, DispatchStep
<1>3. ASSUME NEW number \in ReleaseNumbers, NEW commit \in GitCommits, PushTag(number, commit)
      PROVE  PublisherInv'
  BY <1>3, PushStep
<1>4. ASSUME NEW r \in releases, TidyUp(r) PROVE PublisherInv'
  BY <1>4, TidyStep
<1>5. QED
  BY <1>1, <1>2, <1>3, <1>4, StopStep, NumberStep, CreateStep, ResolveStep, InspectStep, PublishStep,
    VerifyStep DEF PublisherNext

\* The inductive invariant, whatever earlier runs left on GitHub.
THEOREM PublisherInvariant == PublisherSpec => []PublisherInv
<1>1. PublisherInit => PublisherInv
  BY PublisherStart
<1>2. PublisherInv /\ [PublisherNext]_publisherVars => PublisherInv'
  BY PublisherStep
<1>3. QED
  BY <1>1, <1>2, PTL DEF PublisherSpec

\* A run publishes the file it built, for the commit and of the kind asked
\* for, and says "verified" only of a public release under a tag of that commit.
THEOREM PublishedWasVerified == PublisherSpec => []PublishedIsVerified
<1>1. PublisherInv => PublishedIsVerified
  BY DEF PublisherInv, PublishedIsVerified, ShippedInv, PublishedInv, JobAt, AfterPublish
<1>2. QED
  BY <1>1, PublisherInvariant, PTL

-----------------------------------------------------------------------------
(***************************************************************************)
(* The search for a region.  What the search has passed is dealt with:     *)
(* every free region there was refused, lies beside the system's own, or   *)
(* is out of bounds.                                                       *)
(***************************************************************************)
Even(a) == a % RegionSize = 0
Start == RoundDown(search.target)

Searches == [step : {"down", "turn", "up", "ended"}, target : Code, lo : Int, hi : Int,
             try : Int, result : Int, refused : SUBSET Int]

\* A free region that the search need not look at again.
Done(f) == PassedWithSystem(f) \/ f \in search.refused \/ f <= search.lo \/ f >= search.hi

IdleInv ==
  /\ code \in [Code -> [kind : Kinds, to : Code]] /\ asked \in Code

\* The bounds are those of the target, and the code there is still known.
BoundsInv ==
  /\ search \in Searches /\ code[search.target] \in [kind : Kinds, to : Code]
  /\ search.lo = FindJmpBounds(search.target).lo /\ search.hi = FindJmpBounds(search.target).hi
  /\ free \subseteq {at \in 0 .. Top : Even(at)}

DownInv ==
  /\ Even(search.try) /\ search.try < Start /\ search.result = -1
  /\ \A f \in free : search.try < f /\ f < Start => Done(f)

TurnInv ==
  /\ search.result = -1
  /\ \A f \in free : f < Start => Done(f)

UpInv ==
  /\ Even(search.try) /\ Start <= search.try /\ search.result = -1
  /\ \A f \in free : f < search.try => Done(f)

\* What was taken is free, within the part that was searched.
EndedInv ==
  IF search.result = -1 THEN \A f \in free : Done(f)
  ELSE /\ search.result \in free /\ ~InSystemRegion(search.result)
       /\ \/ search.lo < search.result /\ search.result < Start
          \/ Start <= search.result /\ search.result < search.hi

RegionInv ==
  IF search.step = "idle" THEN IdleInv
  ELSE /\ BoundsInv
       /\ search.step = "down" => DownInv
       /\ search.step = "turn" => TurnInv
       /\ search.step = "up" => UpInv
       /\ search.step = "ended" => EndedInv

-----------------------------------------------------------------------------
\* Regions begin at even units.
LEMMA Rounded ==
  ASSUME NEW a \in Int
  PROVE  /\ RoundDown(a) \in Int /\ Even(RoundDown(a)) /\ RoundDown(a) <= a /\ a < RoundDown(a) + 2
         /\ RoundUp(a) \in Int /\ Even(RoundUp(a)) /\ a <= RoundUp(a) /\ RoundUp(a) < a + 2
<1>1. \A x \in Int : x % 2 \in {0, 1} /\ (x - (x % 2)) % 2 = 0
  BY SMT
<1>2. \A x \in Int : /\ RoundDown(x) \in Int /\ Even(RoundDown(x))
                     /\ RoundDown(x) <= x /\ x < RoundDown(x) + 2
  BY <1>1, SMT DEF RoundDown, Even, RegionSize
<1>3. a + 1 \in Int
  OBVIOUS
<1>4. RoundUp(a) = RoundDown(a + 1)
  BY DEF RoundUp, RegionSize
<1>5. QED
  BY <1>2, <1>3, <1>4

LEMMA RoundedEven ==
  ASSUME NEW a \in Int, Even(a)
  PROVE  RoundDown(a) = a /\ RoundUp(a) = a /\ Even(a + 2) /\ Even(a - 2) /\ Even(a + 4) /\ Even(a - 4)
  BY SMT DEF Even, RoundDown, RoundUp, RegionSize

LEMMA NextEven ==
  ASSUME NEW a \in Int, NEW b \in Int, Even(a), Even(b), a < b
  PROVE  a + 2 <= b
  BY SMT DEF Even, RegionSize

LEMMA Typed ==
  ASSUME BoundsInv
  PROVE  /\ search.try \in Int /\ search.lo \in Int /\ search.hi \in Int /\ search.result \in Int
         /\ search.refused \subseteq Int /\ search.target \in Code /\ search.target \in Int
         /\ search.step \in {"down", "turn", "up", "ended"}
         /\ Start \in Int /\ Even(Start) /\ Start <= search.target /\ search.target < Start + 2
         /\ \A f \in free : f \in Int /\ Even(f)
         /\ Half \in Int
<1>1. search \in Searches /\ Half \in Int /\ Code \subseteq Int
  BY RegionAssumption DEF BoundsInv, Top, Margin, RegionSize
<1>2. search.target \in Int
  BY <1>1 DEF Searches
<1>3. Start \in Int /\ Even(Start) /\ Start <= search.target /\ search.target < Start + 2
  BY <1>2, Rounded DEF Start
<1>4. QED
  BY <1>1, <1>2, <1>3 DEF Searches, BoundsInv, Top

LEMMA BoundsTyped ==
  ASSUME NEW at \in Code, code[at].to \in Code
  PROVE  FindJmpBounds(at).lo \in Int /\ FindJmpBounds(at).hi \in Int
<1>1. at \in Int /\ code[at].to \in Int /\ Half \in Int
  BY RegionAssumption DEF Top, Margin, RegionSize
<1>2. \A x \in Int : TwoGbBelow(x) \in Int /\ TwoGbAbove(x) \in Int
  BY <1>1 DEF TwoGbBelow, TwoGbAbove, Reach, Margin, Top
<1>3. QED
  BY <1>1, <1>2 DEF FindJmpBounds

LEMMA Skipped3 ==
  ASSUME IdleInv
  PROVE  SkipJmp(asked) \in Code /\ SkipJmp(asked) \in Run(asked)
<1>1. \A at \in Code : code[at].to \in Code /\ code[at].kind \in Kinds
  BY DEF IdleInv
<1>2. PICK first : first = Through("import", asked)
  OBVIOUS
<1>3. PICK short : short = code[first].to
  OBVIOUS
<1>4. first \in Code /\ short \in Code /\ code[short].to \in Code
  BY <1>1, <1>2, <1>3 DEF Through, IdleInv
<1>5. SkipJmp(asked) \in {first, short, code[short].to}
  BY <1>2, <1>3, <1>4 DEF SkipJmp, AfterLong
<1>6. SkipJmp(asked) = first \/ code[first].kind # "plain"
  BY <1>2, <1>3 DEF SkipJmp
<1>7. SkipJmp(asked) = first \/ SkipJmp(asked) = short \/ code[short].kind # "plain"
  BY <1>2, <1>3 DEF SkipJmp, AfterLong
<1>8. first = asked \/ (code[asked].kind # "plain" /\ first = code[asked].to)
  BY <1>2 DEF Through
<1>9. QED
  <2> DEFINE next(a) == IF code[a].kind = "plain" THEN a ELSE code[a].to
  <2>1. Run(asked) = {asked, next(asked), next(next(asked)), next(next(next(asked)))}
    BY DEF Run
  <2>2. first = asked \/ first = next(asked)
    BY <1>8
  <2>3. SkipJmp(asked) \in {first, next(first), next(next(first))}
    BY <1>3, <1>5, <1>6, <1>7
  <2>4. QED
    BY <1>4, <1>5, <2>1, <2>2, <2>3

\* A step that goes on, with a place to look at and more places refused.
LEMMA SearchMoves ==
  ASSUME BoundsInv, NEW next \in {"down", "turn", "up", "ended"}, NEW try \in Int,
         NEW result \in Int, NEW refused \in SUBSET Int, search.refused \subseteq refused,
         search'.step = next, search'.target = search.target,
         search'.lo = search.lo, search'.hi = search.hi, search'.try = try,
         search'.result = result, search'.refused = refused, search' \in Searches,
         code' = code, free' = free
  PROVE  BoundsInv' /\ Start' = Start /\ \A f \in Int : Done(f) => Done(f)'
<1>1. Start' = Start
  BY DEF Start, RoundDown
<1>2. FindJmpBounds(search.target)' = FindJmpBounds(search.target)
  BY DEF FindJmpBounds
<1>3. BoundsInv'
  BY <1>2 DEF BoundsInv
<1>4. \A f \in Int : Done(f) => Done(f)'
  BY DEF Done
<1>5. QED
  BY <1>1, <1>3, <1>4

\* The search with what its steps change.
Changed(next, try, result, refused) ==
  [step |-> next, target |-> search.target, lo |-> search.lo, hi |-> search.hi,
   try |-> try, result |-> result, refused |-> refused]

LEMMA ChangedTyped ==
  ASSUME BoundsInv, NEW next \in {"down", "turn", "up", "ended"}, NEW try \in Int,
         NEW result \in Int, NEW refused \in SUBSET Int
  PROVE  Changed(next, try, result, refused) \in Searches
<1>1. search.target \in Code /\ search.lo \in Int /\ search.hi \in Int
  BY DEF BoundsInv, Searches
<1>2. QED
  BY <1>1 DEF Changed, Searches

LEMMA SearchChanged ==
  ASSUME BoundsInv, NEW st, NEW t, NEW res, NEW r
  PROVE  /\ [search EXCEPT !.try = t] = Changed(search.step, t, search.result, search.refused)
         /\ [search EXCEPT !.try = t, !.refused = r] = Changed(search.step, t, search.result, r)
         /\ [search EXCEPT !.step = st, !.refused = r] = Changed(st, search.try, search.result, r)
         /\ [search EXCEPT !.step = st, !.result = res] =
              Changed(st, search.try, res, search.refused)
         /\ [search EXCEPT !.step = st, !.try = t] = Changed(st, t, search.result, search.refused)
         /\ [search EXCEPT !.step = st] = Changed(st, search.try, search.result, search.refused)
<1>1. PICK next, place, lo, hi, try, result, refused :
        /\ search = [step |-> next, target |-> place, lo |-> lo, hi |-> hi, try |-> try,
                     result |-> result, refused |-> refused]
        /\ next \in {"down", "turn", "up", "ended"} /\ place \in Code /\ lo \in Int /\ hi \in Int
        /\ try \in Int /\ result \in Int /\ refused \in SUBSET Int
  BY DEF BoundsInv, Searches
<1> DEFINE made(s, p, e, f) == [step |-> s, target |-> place, lo |-> lo, hi |-> hi,
                                try |-> p, result |-> e, refused |-> f]
<1>2. /\ search.step = next /\ search.target = place /\ search.lo = lo /\ search.hi = hi
      /\ search.try = try /\ search.result = result /\ search.refused = refused
  BY <1>1
<1>3. \A s, p, e, f : Changed(s, p, e, f) = made(s, p, e, f)
  BY <1>2 DEF Changed
<1>4. [search EXCEPT !.try = t] = made(next, t, result, refused)
  BY <1>1
<1>5. [search EXCEPT !.step = st] = made(st, try, result, refused)
  BY <1>1
<1>6. [search EXCEPT !.try = t, !.refused = r] = made(next, t, result, r)
  <2>1. PICK mid : mid = [search EXCEPT !.try = t]
    OBVIOUS
  <2>2. mid = made(next, t, result, refused)
    BY <1>4, <2>1
  <2>3. [mid EXCEPT !.refused = r] = made(next, t, result, r)
    BY <2>2
  <2>4. QED
    BY <2>1, <2>3
<1>7. [search EXCEPT !.step = st, !.refused = r] = made(st, try, result, r)
  <2>1. PICK mid : mid = [search EXCEPT !.step = st]
    OBVIOUS
  <2>2. mid = made(st, try, result, refused)
    BY <1>5, <2>1
  <2>3. [mid EXCEPT !.refused = r] = made(st, try, result, r)
    BY <2>2
  <2>4. QED
    BY <2>1, <2>3
<1>8. [search EXCEPT !.step = st, !.result = res] = made(st, try, res, refused)
  <2>1. PICK mid : mid = [search EXCEPT !.step = st]
    OBVIOUS
  <2>2. mid = made(st, try, result, refused)
    BY <1>5, <2>1
  <2>3. [mid EXCEPT !.result = res] = made(st, try, res, refused)
    BY <2>2
  <2>4. QED
    BY <2>1, <2>3
<1>9. [search EXCEPT !.step = st, !.try = t] = made(st, t, result, refused)
  <2>1. PICK mid : mid = [search EXCEPT !.step = st]
    OBVIOUS
  <2>2. mid = made(st, try, result, refused)
    BY <1>5, <2>1
  <2>3. [mid EXCEPT !.try = t] = made(st, t, result, refused)
    BY <2>2
  <2>4. QED
    BY <2>1, <2>3
<1> HIDE DEF made
<1>10. QED
  BY <1>2, <1>3, <1>4, <1>5, <1>6, <1>7, <1>8, <1>9

LEMMA BeginKeeps == RegionInv /\ Begin => RegionInv'
<1> SUFFICES ASSUME RegionInv, Begin PROVE RegionInv'
  OBVIOUS
<1>1. search.step = "idle" /\ IdleInv
  BY DEF RegionInv, Begin
<1>2. PICK place : place = SkipJmp(asked) /\ place \in Code
  BY <1>1, Skipped3
<1>3. PICK lo, hi : lo = FindJmpBounds(place).lo /\ hi = FindJmpBounds(place).hi
  OBVIOUS
<1>4. code[place] \in [kind : Kinds, to : Code]
  BY <1>1, <1>2 DEF IdleInv
<1>5. lo \in Int /\ hi \in Int
  BY <1>2, <1>3, <1>4, BoundsTyped
<1>6. place \in Int
  BY <1>2, RegionAssumption DEF Top, Margin, RegionSize
<1>7. PICK start \in Int : start = RoundDown(place) /\ Even(start)
  BY <1>6, Rounded
<1>8. RoundDown(start - RegionSize) = start - 2 /\ Even(start - 2)
  <2>1. Even(start - 2) /\ start - 2 \in Int
    BY <1>7, RoundedEven
  <2>2. QED
    BY <2>1, RoundedEven DEF RegionSize
<1>9. search' = [step |-> "down", target |-> place, lo |-> lo, hi |-> hi, try |-> start - 2,
                 result |-> -1, refused |-> {}]
  BY <1>2, <1>3, <1>7, <1>8 DEF Begin
<1>10. search' \in Searches
  BY <1>2, <1>5, <1>9 DEF Searches
<1>11. code'[place] = code[place] /\ free' \in Layouts
  BY <1>2 DEF Begin
<1>12. FindJmpBounds(place)' = FindJmpBounds(place)
  BY <1>11 DEF FindJmpBounds
<1>13. free' \subseteq {at \in 0 .. Top : Even(at)}
  BY <1>11, RegionAssumption DEF Even
<1>14. BoundsInv'
  <2>1. search'.target = place
    BY <1>9
  <2>2. FindJmpBounds(search.target)' = FindJmpBounds(place)
    BY <1>11, <2>1 DEF FindJmpBounds
  <2>3. QED
    BY <1>3, <1>4, <1>9, <1>10, <1>11, <1>13, <2>1, <2>2 DEF BoundsInv
<1>15. Start' = start
  BY <1>7, <1>9 DEF Start, RoundDown
<1>16. DownInv'
  <2>1. \A f \in free' : f \in Int /\ Even(f)
    BY <1>13, RegionAssumption DEF Top, RegionSize
  <2>2. \A f \in free' : ~(start - 2 < f /\ f < start)
    <3> SUFFICES ASSUME NEW f \in free', start - 2 < f PROVE start <= f
      BY <1>7, <2>1
    <3>1. start - 2 \in Int
      OBVIOUS
    <3>2. QED
      BY <1>7, <1>8, <2>1, <3>1, NextEven
  <2>3. search'.try = start - 2 /\ search'.result = -1
    BY <1>9
  <2>4. Even(search.try)'
    BY <1>8, <2>3 DEF Even
  <2>5. QED
    BY <1>7, <1>15, <2>2, <2>3, <2>4 DEF DownInv
<1>17. QED
  BY <1>9, <1>14, <1>16 DEF RegionInv

\* A place that is passed downwards: what is free between is dealt with.
LEMMA MovesDown ==
  ASSUME BoundsInv, DownInv, search.step = "down", NEW try \in Int, Even(try), try < search.try,
         NEW refused \in SUBSET Int, search.refused \subseteq refused,
         search' = [search EXCEPT !.try = try, !.refused = refused],
         \A f \in free : try < f /\ f <= search.try => Done(f) \/ f \in refused,
         code' = code, free' = free
  PROVE  RegionInv'
<1>0. search.step \in {"down", "turn", "up", "ended"} /\ search.result \in Int
  BY Typed
<1>1. search' \in Searches /\ search' = Changed(search.step, try, search.result, refused)
  <2>1. Changed(search.step, try, search.result, refused) \in Searches
    BY <1>0, ChangedTyped
  <2>2. [search EXCEPT !.try = try, !.refused = refused] =
          Changed(search.step, try, search.result, refused)
    BY SearchChanged, Zenon
  <2>3. QED
    BY <2>1, <2>2, Zenon
<1>2. /\ search'.step = "down" /\ search'.target = search.target /\ search'.lo = search.lo
      /\ search'.hi = search.hi /\ search'.try = try /\ search'.result = search.result
      /\ search'.refused = refused
  BY <1>1 DEF Changed
<1>3. search.result \in Int /\ Start \in Int /\ search.try \in Int /\ \A f \in free : f \in Int
  BY Typed
<1>4. BoundsInv' /\ Start' = Start /\ \A f \in Int : Done(f) => Done(f)'
  BY <1>1, <1>2, <1>3, SearchMoves
<1>5. \A f \in free' : search'.try < f /\ f < Start' => Done(f)'
  <2> SUFFICES ASSUME NEW f \in free, try < f, f < Start PROVE Done(f)'
    BY <1>2, <1>4
  <2>1. CASE f <= search.try
    <3>1. Done(f) \/ f \in refused
      BY <2>1
    <3>2. f \in refused => Done(f)'
      BY <1>2 DEF Done
    <3>3. QED
      BY <1>3, <1>4, <3>1, <3>2
  <2>2. CASE search.try < f
    <3>1. Done(f)
      BY <2>2 DEF DownInv
    <3>2. QED
      BY <1>3, <1>4, <3>1
  <2>3. QED
    BY <1>3, <2>1, <2>2
<1>6. Even(search.try)' /\ search'.try < Start' /\ search'.result = -1
  BY <1>2, <1>3, <1>4 DEF DownInv, Even
<1>7. DownInv'
  BY <1>5, <1>6 DEF DownInv
<1>8. QED
  BY <1>2, <1>4, <1>7 DEF RegionInv

\* And upwards.
LEMMA MovesUp ==
  ASSUME BoundsInv, UpInv, search.step = "up", NEW try \in Int, Even(try), search.try <= try,
         NEW refused \in SUBSET Int, search.refused \subseteq refused,
         search' = [search EXCEPT !.try = try, !.refused = refused],
         \A f \in free : search.try <= f /\ f < try => Done(f) \/ f \in refused,
         code' = code, free' = free
  PROVE  RegionInv'
<1>0. search.step \in {"down", "turn", "up", "ended"} /\ search.result \in Int
  BY Typed
<1>1. search' \in Searches /\ search' = Changed(search.step, try, search.result, refused)
  <2>1. Changed(search.step, try, search.result, refused) \in Searches
    BY <1>0, ChangedTyped
  <2>2. [search EXCEPT !.try = try, !.refused = refused] =
          Changed(search.step, try, search.result, refused)
    BY SearchChanged, Zenon
  <2>3. QED
    BY <2>1, <2>2, Zenon
<1>2. /\ search'.step = "up" /\ search'.target = search.target /\ search'.lo = search.lo
      /\ search'.hi = search.hi /\ search'.try = try /\ search'.result = search.result
      /\ search'.refused = refused
  BY <1>1 DEF Changed
<1>3. search.result \in Int /\ Start \in Int /\ search.try \in Int /\ \A f \in free : f \in Int
  BY Typed
<1>4. BoundsInv' /\ Start' = Start /\ \A f \in Int : Done(f) => Done(f)'
  BY <1>1, <1>2, <1>3, SearchMoves
<1>5. \A f \in free' : f < search'.try => Done(f)'
  <2> SUFFICES ASSUME NEW f \in free, f < try PROVE Done(f)'
    BY <1>2
  <2>1. CASE search.try <= f
    <3>1. Done(f) \/ f \in refused
      BY <2>1
    <3>2. f \in refused => Done(f)'
      BY <1>2 DEF Done
    <3>3. QED
      BY <1>3, <1>4, <3>1, <3>2
  <2>2. CASE f < search.try
    <3>1. Done(f)
      BY <2>2 DEF UpInv
    <3>2. QED
      BY <1>3, <1>4, <3>1
  <2>3. QED
    BY <1>3, <2>1, <2>2
<1>6. Even(search.try)' /\ Start' <= search'.try /\ search'.result = -1
  BY <1>2, <1>3, <1>4 DEF UpInv, Even
<1>7. UpInv'
  BY <1>5, <1>6, Zenon DEF UpInv
<1>8. QED
  BY <1>2, <1>4, <1>7 DEF RegionInv

\* One place left out of the search is the same with nothing more refused.
LEMMA GoneTo ==
  ASSUME BoundsInv, NEW try \in Int, GoTo(try)
  PROVE  search' = [search EXCEPT !.try = try, !.refused = search.refused]
<1>1. search.refused \in SUBSET Int
  BY Typed
<1>2. search' = [search EXCEPT !.try = try]
  BY DEF GoTo
<1>3. QED
  BY <1>1, <1>2, SearchChanged

LEMMA SkipKeeps == RegionInv /\ SkipSystemRegion => RegionInv'
<1> SUFFICES ASSUME RegionInv, SkipSystemRegion PROVE RegionInv'
  OBVIOUS
<1>0. PICK try : try = search.try
  OBVIOUS
<1>1. CASE search.step = "down"
  <2>1. /\ BoundsInv /\ DownInv /\ InSystemRegion(try) /\ GoTo(try - 4)
        /\ code' = code /\ free' = free
    BY <1>0, <1>1 DEF RegionInv, SkipSystemRegion, Searching, SystemStep
  <2>2. try \in Int /\ search.refused \in SUBSET Int /\ Half \in Int /\ \A f \in free : f \in Int
    BY <1>0, <2>1, Typed
  <2>3. try - 4 \in Int /\ Even(try - 4) /\ try - 4 < try
    BY <1>0, <2>1, <2>2, RoundedEven DEF DownInv
  <2>4. search' = [search EXCEPT !.try = try - 4, !.refused = search.refused]
    BY <2>1, <2>3, GoneTo
  <2>5. \A f \in free : try - 4 < f /\ f <= try => Done(f) \/ f \in search.refused
    BY <2>1, <2>2
    DEF InSystemRegion, Done, PassedWithSystem, SystemLower, SystemUpper, SystemStep
  <2>6. QED
    BY <1>0, <1>1, <2>1, <2>2, <2>3, <2>4, <2>5, MovesDown
<1>2. CASE search.step = "up"
  <2>1. /\ BoundsInv /\ UpInv /\ InSystemRegion(try) /\ GoTo(try + 4)
        /\ code' = code /\ free' = free
    BY <1>0, <1>2 DEF RegionInv, SkipSystemRegion, Searching, SystemStep
  <2>2. try \in Int /\ search.refused \in SUBSET Int /\ Half \in Int /\ \A f \in free : f \in Int
    BY <1>0, <2>1, Typed
  <2>3. try + 4 \in Int /\ Even(try + 4) /\ try <= try + 4
    BY <1>0, <2>1, <2>2, RoundedEven DEF UpInv
  <2>4. search' = [search EXCEPT !.try = try + 4, !.refused = search.refused]
    BY <2>1, <2>3, GoneTo
  <2>5. \A f \in free : try <= f /\ f < try + 4 => Done(f) \/ f \in search.refused
    BY <2>1, <2>2
    DEF InSystemRegion, Done, PassedWithSystem, SystemLower, SystemUpper, SystemStep
  <2>6. QED
    BY <1>0, <1>2, <2>1, <2>2, <2>3, <2>4, <2>5, MovesUp
<1>3. QED
  BY <1>1, <1>2 DEF SkipSystemRegion, Searching

LEMMA RefusedKeeps == RegionInv /\ Refused => RegionInv'
<1> SUFFICES ASSUME RegionInv, Refused PROVE RegionInv'
  OBVIOUS
<1>0. PICK try, refused : try = search.try /\ refused = search.refused \cup {try}
  OBVIOUS
<1>1. CASE search.step = "down"
  <2>1. /\ BoundsInv /\ DownInv /\ code' = code /\ free' = free
        /\ search' = [search EXCEPT !.try = try - 2, !.refused = refused]
    BY <1>0, <1>1 DEF RegionInv, Refused, RegionSize
  <2>2. /\ try \in Int /\ search.refused \in SUBSET Int
        /\ \A f \in free : f \in Int /\ Even(f)
    BY <1>0, <2>1, Typed
  <2>3. try - 2 \in Int /\ Even(try - 2) /\ try - 2 < try /\ Even(try)
    BY <1>0, <2>1, <2>2, RoundedEven DEF DownInv
  <2>4. refused \in SUBSET Int /\ search.refused \subseteq refused
    BY <1>0, <2>2
  <2>5. ASSUME NEW f \in free, try - 2 < f, f <= try PROVE f \in refused
    <3>1. f \in Int /\ Even(f)
      BY <2>2
    <3>2. f < try => f + 2 <= try
      BY <2>2, <2>3, <3>1, NextEven
    <3>3. f = try
      BY <2>2, <2>5, <3>1, <3>2
    <3>4. QED
      BY <1>0, <3>3
  <2>6. QED
    BY <1>0, <1>1, <2>1, <2>3, <2>4, <2>5, MovesDown
<1>2. CASE search.step = "up"
  <2>1. /\ BoundsInv /\ UpInv /\ code' = code /\ free' = free
        /\ search' = [search EXCEPT !.try = try + 2, !.refused = refused]
    BY <1>0, <1>2 DEF RegionInv, Refused, RegionSize
  <2>2. /\ try \in Int /\ search.refused \in SUBSET Int
        /\ \A f \in free : f \in Int /\ Even(f)
    BY <1>0, <2>1, Typed
  <2>3. try + 2 \in Int /\ Even(try + 2) /\ try <= try + 2 /\ Even(try)
    BY <1>0, <2>1, <2>2, RoundedEven DEF UpInv
  <2>4. refused \in SUBSET Int /\ search.refused \subseteq refused
    BY <1>0, <2>2
  <2>5. ASSUME NEW f \in free, try <= f, f < try + 2 PROVE f \in refused
    <3>1. f \in Int /\ Even(f)
      BY <2>2
    <3>2. try < f => try + 2 <= f
      BY <2>2, <2>3, <3>1, NextEven
    <3>3. f = try
      BY <2>2, <2>5, <3>1, <3>2
    <3>4. QED
      BY <1>0, <3>3
  <2>6. QED
    BY <1>0, <1>2, <2>1, <2>3, <2>4, <2>5, MovesUp
<1>3. QED
  BY <1>1, <1>2 DEF Refused

LEMMA PassKeeps == RegionInv /\ PassRange => RegionInv'
<1> SUFFICES ASSUME RegionInv, PassRange PROVE RegionInv'
  OBVIOUS
<1>0. PICK try : try = search.try
  OBVIOUS
<1>1. CASE search.step = "down"
  <2>1. /\ BoundsInv /\ DownInv /\ code' = code /\ free' = free
        /\ \E base \in 0..try :
              /\ base \in {0, try} \/ base - RegionSize \in free
              /\ \A f \in free : f < base \/ f > try
              /\ GoTo(RoundDown(base - RegionSize))
    BY <1>0, <1>1 DEF RegionInv, PassRange
  <2>2. /\ try \in Int /\ search.refused \in SUBSET Int /\ Even(try)
        /\ \A f \in free : f \in Int /\ Even(f)
    BY <1>0, <2>1, Typed DEF DownInv
  <2>3. PICK base \in 0..try :
              /\ base \in {0, try} \/ base - 2 \in free
              /\ \A f \in free : f < base \/ f > try
              /\ GoTo(RoundDown(base - 2))
    BY <2>1 DEF RegionSize
  <2>4. base \in Int /\ base <= try /\ Even(base)
    <3>1. base \in Int /\ base <= try
      BY <2>2
    <3>2. Even(0)
      BY SMT DEF Even, RegionSize
    <3>3. base - 2 \in free => Even(base)
      <4> SUFFICES ASSUME base - 2 \in free PROVE Even(base)
        OBVIOUS
      <4>1. base - 2 \in Int /\ Even(base - 2)
        BY <2>2
      <4>2. Even((base - 2) + 2)
        BY <4>1, RoundedEven
      <4>3. (base - 2) + 2 = base
        BY <3>1
      <4>4. QED
        BY <4>2, <4>3
    <3>4. QED
      BY <2>2, <2>3, <3>1, <3>2, <3>3
  <2>5. base - 2 \in Int /\ Even(base - 2) /\ base - 2 < try
    BY <2>2, <2>4, RoundedEven
  <2>6. RoundDown(base - 2) = base - 2
    BY <2>5, RoundedEven
  <2>7. search' = [search EXCEPT !.try = base - 2, !.refused = search.refused]
    BY <2>1, <2>3, <2>5, <2>6, GoneTo
  <2>8. ASSUME NEW f \in free, base - 2 < f, f <= try PROVE Done(f)
    <3>1. f \in Int /\ Even(f)
      BY <2>2
    <3>2. (base - 2) + 2 <= f
      BY <2>5, <2>8, <3>1, NextEven
    <3>3. f < base \/ f > try
      BY <2>3
    <3>4. QED
      BY <2>2, <2>4, <2>8, <3>1, <3>2, <3>3
  <2>9. QED
    BY <1>0, <1>1, <2>1, <2>2, <2>5, <2>7, <2>8, MovesDown
<1>2. CASE search.step = "up"
  <2>1. /\ BoundsInv /\ UpInv /\ code' = code /\ free' = free
        /\ \E end \in try + 1..Top :
              /\ \A f \in free : f < try \/ f >= RoundUp(end)
              /\ GoTo(RoundUp(end))
    BY <1>0, <1>2 DEF RegionInv, PassRange
  <2>2. /\ try \in Int /\ search.refused \in SUBSET Int /\ Half \in Int
        /\ \A f \in free : f \in Int /\ Even(f)
    BY <1>0, <2>1, Typed
  <2>3. PICK end \in try + 1..Top :
              /\ \A f \in free : f < try \/ f >= RoundUp(end)
              /\ GoTo(RoundUp(end))
    BY <2>1
  <2>4. end \in Int /\ try < end
    BY <2>2 DEF Top
  <2>5. RoundUp(end) \in Int /\ Even(RoundUp(end)) /\ end <= RoundUp(end)
    BY <2>4, Rounded
  <2>6. PICK next \in Int : next = RoundUp(end) /\ Even(next) /\ try <= next
    BY <2>2, <2>4, <2>5
  <2>7. search' = [search EXCEPT !.try = next, !.refused = search.refused]
    BY <2>1, <2>3, <2>6, GoneTo
  <2>8. ASSUME NEW f \in free, try <= f, f < next PROVE Done(f)
    BY <2>2, <2>3, <2>6, <2>8
  <2>9. QED
    BY <1>0, <1>2, <2>1, <2>2, <2>6, <2>7, <2>8, MovesUp
<1>3. QED
  BY <1>1, <1>2 DEF PassRange

LEMMA BlockedKeeps == RegionInv /\ Blocked => RegionInv'
<1> SUFFICES ASSUME RegionInv, Blocked PROVE RegionInv'
  OBVIOUS
<1>1. PICK st : st = (IF search.step = "down" THEN "turn" ELSE "ended") /\ st \in {"turn", "ended"}
  OBVIOUS
<1>2. /\ BoundsInv /\ search.result = -1 /\ code' = code /\ free' = free
      /\ search' = [search EXCEPT !.step = st, !.refused = free]
  <2>1. /\ search.step \in {"down", "up"} /\ code' = code /\ free' = free
        /\ search' = [search EXCEPT !.step = st, !.refused = free]
    BY <1>1 DEF Blocked
  <2>2. BoundsInv /\ search.result = -1
    BY <2>1 DEF RegionInv, DownInv, UpInv
  <2>3. QED
    BY <2>1, <2>2
<1>3. search' = Changed(st, search.try, search.result, free)
  BY <1>2, SearchChanged
<1>4. search.try \in Int /\ search.result \in Int /\ free \in SUBSET Int
  BY <1>2, Typed
<1>5. search' \in Searches
  BY <1>1, <1>2, <1>3, <1>4, ChangedTyped
<1>6. search.refused \in SUBSET Int
  BY <1>2, Typed
<1>7. /\ search'.step = st /\ search'.target = search.target /\ search'.lo = search.lo
      /\ search'.hi = search.hi /\ search'.result = -1 /\ search'.refused = free
  BY <1>2, <1>3 DEF Changed
<1>8. BoundsInv'
  <2>1. FindJmpBounds(search.target)' = FindJmpBounds(search.target)
    BY <1>2, <1>7 DEF FindJmpBounds
  <2>2. QED
    BY <1>2, <1>5, <1>7, <2>1 DEF BoundsInv
<1>9. \A f \in free' : Done(f)'
  BY <1>2, <1>7 DEF Done
<1>10. QED
  BY <1>1, <1>7, <1>8, <1>9 DEF RegionInv, TurnInv, EndedInv

LEMMA AllocatedKeeps == RegionInv /\ Allocated => RegionInv'
<1> SUFFICES ASSUME RegionInv, Allocated PROVE RegionInv'
  OBVIOUS
<1>1. PICK found : found = search.try
  OBVIOUS
<1>2. /\ BoundsInv /\ search.step \in {"down", "up"} /\ code' = code /\ free' = free
      /\ found \in free /\ ~InSystemRegion(found)
      /\ search' = [search EXCEPT !.step = "ended", !.result = found]
  <2>1. /\ search.step \in {"down", "up"} /\ code' = code /\ free' = free
        /\ found \in free /\ ~InSystemRegion(found)
        /\ search' = [search EXCEPT !.step = "ended", !.result = found]
    BY <1>1 DEF Allocated, InUse
  <2>2. BoundsInv
    BY <2>1 DEF RegionInv
  <2>3. QED
    BY <2>1, <2>2
<1>3. search' = Changed("ended", search.try, found, search.refused)
  BY <1>2, SearchChanged
<1>4. found \in Int /\ search.refused \in SUBSET Int /\ search.try \in Int
      /\ 0 <= found
  <2>1. found \in 0 .. Top
    BY <1>2 DEF BoundsInv
  <2>2. QED
    BY <1>1, <1>2, <2>1, Typed DEF Top
<1>5. search' \in Searches
  BY <1>2, <1>3, <1>4, ChangedTyped
<1>6. /\ search'.step = "ended" /\ search'.target = search.target /\ search'.lo = search.lo
      /\ search'.hi = search.hi /\ search'.try = search.try /\ search'.result = found
      /\ search'.refused = search.refused
  BY <1>3 DEF Changed
<1>7. BoundsInv' /\ Start' = Start
  BY <1>2, <1>4, <1>5, <1>6, SearchMoves
<1>8. \/ search.lo < found /\ found < Start
      \/ Start <= found /\ found < search.hi
  <2>1. CASE search.step = "down"
    BY <1>1, <2>1 DEF RegionInv, DownInv, Allocated, Searching
  <2>2. CASE search.step = "up"
    BY <1>1, <2>2 DEF RegionInv, UpInv, Allocated, Searching
  <2>3. QED
    BY <1>2, <2>1, <2>2
<1>9. EndedInv'
  BY <1>2, <1>4, <1>6, <1>7, <1>8 DEF EndedInv, InSystemRegion
<1>10. QED
  BY <1>6, <1>7, <1>9 DEF RegionInv

LEMMA TurnKeeps == RegionInv /\ TurnUp => RegionInv'
<1> SUFFICES ASSUME RegionInv, TurnUp PROVE RegionInv'
  OBVIOUS
<1>1. BoundsInv
  BY DEF RegionInv, TurnUp
<1>2. /\ search.try \in Int /\ search.lo \in Int /\ search.refused \in SUBSET Int
      /\ Start \in Int /\ Even(Start) /\ search.result \in Int /\ \A f \in free : f \in Int
  BY <1>1, Typed
<1>3. RoundUp(RoundDown(search.target)) = Start
  BY <1>2, RoundedEven DEF Start
<1>4. /\ code' = code /\ free' = free
      /\ search' = Changed("up", Start, search.result, search.refused)
  <2>1. search' = [search EXCEPT !.step = "up", !.try = Start] /\ code' = code /\ free' = free
    BY <1>3 DEF TurnUp
  <2>2. [search EXCEPT !.step = "up", !.try = Start] =
          Changed("up", Start, search.result, search.refused)
    BY <1>1, SearchChanged, Zenon
  <2>3. QED
    BY <2>1, <2>2
<1>5. search' \in Searches
  BY <1>1, <1>2, <1>4, ChangedTyped
<1>6. /\ search'.step = "up" /\ search'.target = search.target /\ search'.lo = search.lo
      /\ search'.hi = search.hi /\ search'.try = Start /\ search'.result = search.result
      /\ search'.refused = search.refused
  BY <1>4 DEF Changed
<1>7. BoundsInv' /\ Start' = Start /\ \A f \in Int : Done(f) => Done(f)'
  BY <1>1, <1>2, <1>4, <1>5, <1>6, SearchMoves
<1>8. search.result = -1 /\ \A f \in free : f < Start => Done(f)
  <2>1. CASE search.step = "turn"
    BY <2>1 DEF RegionInv, TurnInv
  <2>2. CASE search.step = "down" /\ ~Searching("down")
    <3>1. DownInv /\ search.try <= search.lo
      BY <1>2, <2>2 DEF RegionInv, Searching
    <3>2. QED
      BY <1>2, <3>1 DEF DownInv, Done
  <2>3. QED
    BY <2>1, <2>2 DEF TurnUp
<1>9. Even(search.try)'
  BY <1>2, <1>6 DEF Even
<1>10. \A f \in free : f < Start => Done(f)'
  BY <1>2, <1>7, <1>8
<1>11. UpInv'
  BY <1>2, <1>4, <1>6, <1>7, <1>8, <1>9, <1>10 DEF UpInv
<1>12. QED
  BY <1>6, <1>7, <1>11 DEF RegionInv

LEMMA NothingKeeps == RegionInv /\ NothingAbove => RegionInv'
<1> SUFFICES ASSUME RegionInv, NothingAbove PROVE RegionInv'
  OBVIOUS
<1>1. BoundsInv /\ UpInv
  BY DEF RegionInv, NothingAbove
<1>2. /\ search.try \in Int /\ search.hi \in Int /\ search.refused \in SUBSET Int
      /\ search.result \in Int /\ \A f \in free : f \in Int
  BY <1>1, Typed
<1>3. search.try >= search.hi
  BY <1>2 DEF NothingAbove, Searching
<1>4. /\ code' = code /\ free' = free
      /\ search' = Changed("ended", search.try, search.result, search.refused)
  <2>1. search' = [search EXCEPT !.step = "ended"] /\ code' = code /\ free' = free
    BY DEF NothingAbove
  <2>2. [search EXCEPT !.step = "ended"] =
          Changed("ended", search.try, search.result, search.refused)
    BY <1>1, SearchChanged, Zenon
  <2>3. QED
    BY <2>1, <2>2
<1>5. search' \in Searches
  BY <1>1, <1>2, <1>4, ChangedTyped
<1>6. /\ search'.step = "ended" /\ search'.target = search.target /\ search'.lo = search.lo
      /\ search'.hi = search.hi /\ search'.try = search.try /\ search'.result = search.result
      /\ search'.refused = search.refused
  BY <1>4 DEF Changed
<1>7. BoundsInv' /\ Start' = Start /\ \A f \in Int : Done(f) => Done(f)'
  BY <1>1, <1>2, <1>4, <1>5, <1>6, SearchMoves
<1>8. \A f \in free : Done(f)
  <2> SUFFICES ASSUME NEW f \in free PROVE Done(f)
    OBVIOUS
  <2>1. CASE f < search.try
    BY <1>1, <2>1 DEF UpInv
  <2>2. CASE search.try <= f
    <3>1. f >= search.hi
      BY <1>2, <1>3, <2>2
    <3>2. QED
      BY <3>1 DEF Done
  <2>3. QED
    BY <1>2, <2>1, <2>2
<1>9. EndedInv'
  BY <1>1, <1>2, <1>4, <1>6, <1>7, <1>8 DEF EndedInv, UpInv
<1>10. QED
  BY <1>6, <1>7, <1>9 DEF RegionInv

LEMMA RegionInitial == RegionInit => RegionInv
  BY DEF RegionInit, RegionInv, IdleInv

LEMMA RegionStep == RegionInv /\ [RegionNext]_regionVars => RegionInv'
<1> SUFFICES ASSUME RegionInv, [RegionNext]_regionVars PROVE RegionInv'
  OBVIOUS
<1>1. CASE UNCHANGED regionVars
  BY <1>1 DEF regionVars, RegionInv, IdleInv, BoundsInv, DownInv, TurnInv, UpInv, EndedInv, Start,
     RoundDown, Done, FindJmpBounds
<1>2. QED
  BY <1>1, BeginKeeps, SkipKeeps, RefusedKeeps, BlockedKeeps, AllocatedKeeps, PassKeeps, TurnKeeps,
     NothingKeeps
  DEF RegionNext

LEMMA CodePlaced ==
  ASSUME NEW at \in Code
  PROVE  /\ at \in Int /\ at >= 6 /\ at <= 2 * Half - 4
         /\ Half \in Int /\ Half > 6
<1>1. Half \in Int /\ Half > 6
  BY RegionAssumption DEF Margin, RegionSize
<1>2. at \in 6 .. 2 * Half - 4
  BY RegionAssumption DEF Top, Margin, RegionSize
<1>3. QED
  BY <1>1, <1>2

\* Bounds of a search that found something keep it in reach of both ends.
LEMMA BoundsReach ==
  ASSUME BoundsInv, NEW e \in Ends, NEW at \in Int, search.lo <= at, at <= search.hi
  PROVE  Distance(at, e) <= Half /\ Distance(at + RegionSize, e) <= Half
<1> DEFINE t == search.target
           to == code[t].to
<1>1. /\ t \in Int /\ to \in Int /\ Half \in Int
      /\ t >= 6 /\ to >= 6 /\ t <= 2 * Half - 4 /\ to <= 2 * Half - 4 /\ Half > 6
  <2>1. t \in Code /\ to \in Code
    BY DEF BoundsInv, Searches
  <2>2. QED
    BY <2>1, CodePlaced
<1>2. /\ search.lo = FindJmpBounds(t).lo /\ search.hi = FindJmpBounds(t).hi
      /\ e = t \/ (code[t].kind = "long" /\ e = to)
  BY DEF BoundsInv, Ends
<1> HIDE DEF t, to
<1>3. CASE code[t].kind # "long"
  BY <1>1, <1>2, <1>3
  DEF FindJmpBounds, TwoGbBelow, TwoGbAbove, Reach, Margin, Top, Distance, RegionSize
<1>4. CASE code[t].kind = "long" /\ to < t
  <2>1. search.lo = TwoGbBelow(t) /\ search.hi = TwoGbAbove(to)
    BY <1>2, <1>4 DEF FindJmpBounds, to
  <2>2. QED
    BY <1>1, <1>2, <1>4, <2>1
    DEF TwoGbBelow, TwoGbAbove, Reach, Margin, Top, Distance, RegionSize
<1>5. CASE code[t].kind = "long" /\ ~(to < t)
  <2>1. search.lo = TwoGbBelow(to) /\ search.hi = TwoGbAbove(t)
    BY <1>2, <1>5 DEF FindJmpBounds, to
  <2>2. QED
    BY <1>1, <1>2, <1>5, <2>1
    DEF TwoGbBelow, TwoGbAbove, Reach, Margin, Top, Distance, RegionSize
<1>6. QED
  BY <1>3, <1>4, <1>5

\* A region of code that does not jump too far lies within the bounds.
LEMMA StartWithin ==
  ASSUME BoundsInv, \A e \in Ends : Distance(search.target, e) <= Reach - RegionSize
  PROVE  search.lo <= Start /\ Start <= search.hi
<1> DEFINE t == search.target
           to == code[t].to
<1>1. /\ t \in Int /\ to \in Int /\ Half \in Int
      /\ t >= 6 /\ to >= 6 /\ t <= 2 * Half - 4 /\ to <= 2 * Half - 4 /\ Half > 6
  <2>1. t \in Code /\ to \in Code
    BY DEF BoundsInv, Searches
  <2>2. QED
    BY <2>1, CodePlaced
<1>2. /\ search.lo = FindJmpBounds(t).lo /\ search.hi = FindJmpBounds(t).hi
      /\ code[t].kind = "long" => Distance(t, to) <= Half - 6
  <2>1. code[t].kind = "long" => to \in Ends
    BY DEF Ends
  <2>2. Reach - RegionSize = Half - 6
    BY <1>1 DEF Reach, RegionSize, Margin
  <2>3. QED
    BY <2>1, <2>2 DEF BoundsInv
<1>3. Start \in Int /\ Start <= t /\ t < Start + 2
  BY Typed
<1> HIDE DEF t, to, Start
<1>4. CASE code[t].kind # "long"
  BY <1>1, <1>2, <1>3, <1>4
  DEF FindJmpBounds, TwoGbBelow, TwoGbAbove, Reach, Margin, Top
<1>5. CASE code[t].kind = "long" /\ to < t
  <2>1. search.lo = TwoGbBelow(t) /\ search.hi = TwoGbAbove(to)
    BY <1>2, <1>5 DEF FindJmpBounds, to
  <2>2. QED
    BY <1>1, <1>2, <1>3, <1>5, <2>1 DEF TwoGbBelow, TwoGbAbove, Reach, Margin, Top, Distance
<1>6. CASE code[t].kind = "long" /\ ~(to < t)
  <2>1. search.lo = TwoGbBelow(to) /\ search.hi = TwoGbAbove(t)
    BY <1>2, <1>6 DEF FindJmpBounds, to
  <2>2. QED
    BY <1>1, <1>2, <1>3, <1>6, <2>1 DEF TwoGbBelow, TwoGbAbove, Reach, Margin, Top, Distance
<1>7. QED
  BY <1>4, <1>5, <1>6

LEMMA RegionConclusion == RegionInv => RegionFound
<1> SUFFICES ASSUME RegionInv PROVE RegionFound
  OBVIOUS
<1>1. CASE search.step = "idle"
  BY <1>1, Skipped3 DEF RegionInv, RegionFound
<1>2. CASE search.step # "idle"
  <2>1. BoundsInv
    BY <1>2 DEF RegionInv
  <2>2. /\ search.lo \in Int /\ search.hi \in Int /\ search.result \in Int /\ Start \in Int
        /\ search.step \in {"down", "turn", "up", "ended"}
    BY <2>1, Typed
  <2>3. search.result # -1 => search.step = "ended"
    BY <1>2, <2>2 DEF RegionInv, DownInv, TurnInv, UpInv
  <2>4. search.step = "ended" => EndedInv
    BY <1>2 DEF RegionInv
  <2>5. ASSUME Usable
        PROVE  /\ search.result \in free /\ ~InSystemRegion(search.result)
               /\ \A e \in Ends : /\ Distance(search.result, e) <= Half
                                  /\ Distance(search.result + RegionSize, e) <= Half
    BY <2>1, <2>2, <2>3, <2>4, <2>5, BoundsReach DEF Usable, EndedInv
  <2>6. ASSUME search.step = "ended", ~Usable,
               \A e \in Ends : Distance(search.target, e) <= Reach - RegionSize
        PROVE  \A f \in free :
                 (f > search.lo /\ f < search.hi /\ ~PassedWithSystem(f)) => f \in search.refused
    <3>1. search.lo <= Start /\ Start <= search.hi
      BY <2>1, <2>6, StartWithin
    <3>2. search.result = -1
      <4> SUFFICES ASSUME search.result # -1 PROVE FALSE
        OBVIOUS
      <4>1. \/ search.lo < search.result /\ search.result < Start
            \/ Start <= search.result /\ search.result < search.hi
        BY <2>4, <2>6 DEF EndedInv
      <4>2. search.lo <= search.result /\ search.result <= search.hi
        BY <2>2, <3>1, <4>1
      <4>3. QED
        BY <2>6, <4>2 DEF Usable
    <3>3. \A f \in free : Done(f)
      BY <2>4, <2>6, <3>2 DEF EndedInv
    <3>4. \A f \in free : f \in Int
      BY <2>1, Typed
    <3>5. QED
      BY <2>2, <3>3, <3>4 DEF Done
  <2>7. QED
    BY <1>2, <2>5, <2>6 DEF RegionFound
<1>3. QED
  BY <1>1, <1>2

\* A region that is used was free, and all of it is in reach of the hooked code
\* and of where its jump leads; none is used only if every free region within
\* the bounds was refused or lies beside the system's: for any code, free
\* regions and size of the address space.
THEOREM RegionsFound == RegionSpec => []RegionFound
  BY RegionInitial, RegionStep, RegionConclusion, PTL DEF RegionSpec

-----------------------------------------------------------------------------
(***************************************************************************)
(* The small patches.                                                      *)
(***************************************************************************)
\* A sum is brought into the range of the engine's rotators, by whole turns.
LEMMA SumWraps ==
  ASSUME NEW a \in Int, NEW b \in Int
  PROVE  Same(AddRotatorComponents(a, b), a + b) /\ Normal(AddRotatorComponents(a, b))
<1>1. PICK sum \in Int : sum = a + b
  OBVIOUS
<1>2. PICK wrapped \in Int : wrapped = sum % Turn /\ 0 <= wrapped /\ wrapped < Turn
  BY SMT DEF Turn
<1>3. AddRotatorComponents(a, b) = IF wrapped > 32767 THEN wrapped - Turn ELSE wrapped
  BY <1>1, <1>2 DEF AddRotatorComponents, Turn
<1>4. (wrapped - sum) % Turn = 0 /\ ((wrapped - Turn) - sum) % Turn = 0
  BY <1>2, SMT DEF Turn
<1>5. QED
  BY <1>1, <1>2, <1>3, <1>4 DEF Same, Normal, Turn

WholeAngles(r) == r.pitch \in Int /\ r.yaw \in Int

AimInv == WholeAngles(rotation) /\ WholeAngles(shake) /\ AimAligned

LEMMA AimInitial == AimInit => AimInv
  BY DEF AimInit, AimInv, WholeAngles, AimAligned

LEMMA AimStep == AimInv /\ [AimNext]_aimVars => AimInv'
<1> SUFFICES ASSUME AimInv, [AimNext]_aimVars PROVE AimInv'
  OBVIOUS
<1>1. CASE GetViewPoint
  <2>1. /\ rotation' = rotation /\ shake' = shake
        /\ \E retail : view' = [by |-> IF jetting THEN "corrected" ELSE "retail", retail |-> retail,
                                rotation |-> IF jetting THEN CorrectedViewRotation ELSE retail]
    BY <1>1 DEF GetViewPoint
  <2>2. PICK retail : view' = [by |-> IF jetting THEN "corrected" ELSE "retail", retail |-> retail,
                               rotation |-> IF jetting THEN CorrectedViewRotation ELSE retail]
    BY <2>1
  <2>3. WholeAngles(rotation) /\ WholeAngles(shake)
    BY DEF AimInv
  <2>4. CASE jetting
    <3>1. view'.by = "corrected" /\ view'.rotation = CorrectedViewRotation
      BY <2>2, <2>4
    <3>2. /\ view'.rotation.pitch = AddRotatorComponents(rotation.pitch, shake.pitch)
          /\ view'.rotation.yaw = AddRotatorComponents(rotation.yaw, shake.yaw)
          /\ view'.rotation.roll = 0
      BY <3>1 DEF CorrectedViewRotation
    <3>3. /\ Same(view'.rotation.pitch, rotation.pitch + shake.pitch) /\ Normal(view'.rotation.pitch)
          /\ Same(view'.rotation.yaw, rotation.yaw + shake.yaw) /\ Normal(view'.rotation.yaw)
      BY <2>3, <3>2, SumWraps DEF WholeAngles
    <3>4. AimAligned'
      BY <2>1, <3>1, <3>2, <3>3 DEF AimAligned, Same, Normal
    <3>5. QED
      BY <2>1, <2>3, <3>4 DEF AimInv, WholeAngles
  <2>5. CASE ~jetting
    <3>1. view'.by = "retail" /\ view'.rotation = view'.retail
      BY <2>2, <2>5
    <3>2. QED
      BY <2>1, <2>3, <3>1 DEF AimInv, WholeAngles, AimAligned
  <2>6. QED
    BY <2>4, <2>5
<1>2. CASE Turned
  <2>1. view'.by = "none"
    BY <1>2 DEF Turned
  <2>2. WholeAngles(rotation)' /\ WholeAngles(shake)'
    BY <1>2, AimAssumption DEF Turned, Rotator, AimInv, WholeAngles
  <2>3. QED
    BY <2>1, <2>2 DEF AimInv, AimAligned
<1>3. CASE UNCHANGED aimVars
  BY <1>3 DEF aimVars, AimInv, AimAligned, WholeAngles, Same, Normal
<1>4. QED
  BY <1>1, <1>2, <1>3 DEF AimNext

\* A corrected view points where the controller does, shake included, within
\* the range of a rotator and without roll, for any 32-bit angles.
THEOREM AimFollowsController == AimSpec => []AimAligned
<1>1. AimInv => AimAligned
  BY DEF AimInv
<1>2. QED
  BY <1>1, AimInitial, AimStep, PTL DEF AimSpec

Requests == [by : {"nobody", "body", "device", "other"}, hide : BOOLEAN]

ScopeInv ==
  /\ hidden \in [Meshes -> BOOLEAN] /\ last \in [Meshes -> Requests]
  /\ ZoomKept

LEMMA ScopeStep == ScopeInv /\ [ScopeNext]_scopeVars => ScopeInv'
<1> SUFFICES ASSUME ScopeInv, [ScopeNext]_scopeVars PROVE ScopeInv'
  OBVIOUS
<1>1. /\ hidden \in [Meshes -> BOOLEAN] /\ last \in [Meshes -> Requests]
      /\ reattached = {}
  BY DEF ScopeInv, ZoomKept
<1>2. ASSUME NEW caller \in {"body", "device", "other"}, NEW mesh \in Meshes,
             NEW newHidden \in BOOLEAN, SetHidden(caller, mesh, newHidden)
      PROVE  ScopeInv'
  <2> DEFINE suppressed == BodyTryingToOverrideZoom(caller, mesh, newHidden)
             latest == [by |-> caller, hide |-> newHidden]
  <2>1. /\ hidden' = IF suppressed THEN hidden ELSE [hidden EXCEPT ![mesh] = newHidden]
        /\ last' = [last EXCEPT ![mesh] = latest]
        /\ UNCHANGED <<pawn, zoomed>>
    BY <1>2 DEF SetHidden
  <2>2. suppressed <=> zoomed /\ mesh \in CurrentInHandForm /\ caller = "body" /\ ~newHidden
    BY DEF BodyTryingToOverrideZoom
  <2>3. latest \in Requests /\ latest.by = caller /\ latest.hide = newHidden
    BY <1>2 DEF Requests
  <2>4. CurrentInHandForm' = CurrentInHandForm
    BY <2>1 DEF CurrentInHandForm, LocalCharacterOwner
  <2> HIDE DEF suppressed, latest
  <2>5. /\ hidden' \in [Meshes -> BOOLEAN] /\ last' \in [Meshes -> Requests]
        /\ last'[mesh] = latest /\ hidden'[mesh] = (IF suppressed THEN hidden[mesh] ELSE newHidden)
        /\ \A m \in Meshes : m # mesh => last'[m] = last[m] /\ hidden'[m] = hidden[m]
    BY <1>1, <2>1, <2>3
  \* Only the mesh asked about changes, and a call of the body helper that would
  \* show it in the scope is the one that is dropped.
  <2>6. reattached' = {}
    <3>1. reattached' = {m \in CurrentInHandForm : zoomed /\ caller = "body" /\ hidden[m] /\ ~hidden'[m]}
      BY <1>1, <1>2 DEF SetHidden
    <3>2. ASSUME NEW m \in CurrentInHandForm, zoomed, caller = "body", hidden[m], ~hidden'[m]
          PROVE  FALSE
      <4>1. CASE suppressed
        BY <2>1, <3>2, <4>1
      <4>2. CASE ~suppressed
        <5>1. CASE m = mesh
          BY <2>2, <2>5, <3>2, <4>2, <5>1
        <5>2. CASE m # mesh
          BY <1>1, <2>1, <3>2, <4>2, <5>2
        <5>3. QED
          BY <5>1, <5>2
      <4>3. QED
        BY <4>1, <4>2
    <3>3. QED
      BY <3>1, <3>2
  <2>7. ASSUME NEW m \in Meshes
        PROVE  \/ last'[m].by = "nobody"
               \/ hidden'[m] = last'[m].hide
               \/ zoomed' /\ m \in CurrentInHandForm' /\ last'[m].by = "body" /\ ~last'[m].hide
    <3>1. CASE m = mesh
      BY <2>1, <2>2, <2>3, <2>4, <2>5, <3>1
    <3>2. CASE m # mesh
      BY <2>1, <2>4, <2>5, <3>2 DEF ScopeInv, ZoomKept
    <3>3. QED
      BY <3>1, <3>2
  <2>8. QED
    BY <2>5, <2>6, <2>7 DEF ScopeInv, ZoomKept
<1>3. ASSUME last' = Unasked, UNCHANGED <<hidden, reattached>> PROVE ScopeInv'
  <2>1. last' \in [Meshes -> Requests] /\ \A m \in Meshes : last'[m].by = "nobody"
    BY <1>3 DEF Unasked, Requests
  <2>2. QED
    BY <1>1, <1>3, <2>1 DEF ScopeInv, ZoomKept
<1>4. CASE UNCHANGED scopeVars
  BY <1>4 DEF scopeVars, ScopeInv, ZoomKept, CurrentInHandForm, LocalCharacterOwner
<1>5. QED
  BY <1>2, <1>3, <1>4 DEF ScopeNext, Zoom, Equip

LEMMA ScopeStart == ScopeInit => ScopeInv
<1> SUFFICES ASSUME ScopeInit PROVE ScopeInv
  OBVIOUS
<1>1. hidden = [m \in Meshes |-> FALSE] /\ last = Unasked /\ reattached = {}
  BY Zenon DEF ScopeInit
<1>2. last \in [Meshes -> Requests] /\ \A m \in Meshes : last[m].by = "nobody"
  BY <1>1 DEF Unasked, Requests
<1>3. QED
  BY <1>1, <1>2 DEF ScopeInv, ZoomKept

\* The scope keeps what it hides hidden from the body helper, and costs nobody
\* else a request, nor the body helper one once the scope is left, for any
\* components, slots and forms.
THEOREM OthersNotOverruled == ScopeSpec => []ZoomKept
<1>1. ScopeInv => ZoomKept
  BY DEF ScopeInv
<1>2. QED
  BY <1>1, ScopeStart, ScopeStep, PTL DEF ScopeSpec

WindowInv ==
  /\ DOMAIN windows \subseteq Handles /\ \A h \in DOMAIN windows : windows[h] \in Window
  /\ SizeIsOwn

LEMMA WindowStep == WindowInv /\ [WindowNext]_windowVars => WindowInv'
<1> SUFFICES ASSUME WindowInv, [WindowNext]_windowVars PROVE WindowInv'
  OBVIOUS
<1>1. DOMAIN windows \subseteq Handles /\ \A h \in DOMAIN windows : windows[h].area \in Nat
  BY WindowAssumption DEF WindowInv, Window
<1>2. CASE CurrentClientSize
  <2> DEFINE found == {h \in DOMAIN windows : windows[h].own /\ windows[h].visible /\ windows[h].area > 0}
  <2>1. windows' = windows
        /\ answer' = [handle |-> gameWindow', area |-> ClientSizeFor(gameWindow')]
    BY <1>2 DEF CurrentClientSize
  <2>2. \/ /\ gameWindow' \in DOMAIN windows /\ windows[gameWindow'].own
           /\ windows[gameWindow'].area > 0
        \/ gameWindow' = NoWindow /\ found = {}
    <3>1. CASE IsCurrentProcessWindow(gameWindow) /\ ClientSizeFor(gameWindow) > 0
      BY <1>2, <3>1 DEF CurrentClientSize, IsCurrentProcessWindow, ClientSizeFor
    <3>2. CASE ~(IsCurrentProcessWindow(gameWindow) /\ ClientSizeFor(gameWindow) > 0)
      <4>1. gameWindow' \in LargestProcessWindows
        BY <1>2, <3>2 DEF CurrentClientSize
      <4>2. QED
        BY <4>1 DEF LargestProcessWindows
    <3>3. QED
      BY <3>1, <3>2
  <2>3. CASE gameWindow' \in DOMAIN windows /\ windows[gameWindow'].own /\ windows[gameWindow'].area > 0
    <3>1. answer'.area = windows[gameWindow'].area
      BY <2>1, <2>3 DEF ClientSizeFor
    <3>2. QED
      BY <1>1, <2>1, <2>3, <3>1 DEF WindowInv, SizeIsOwn
  <2>4. CASE gameWindow' = NoWindow /\ found = {}
    <3>1. NoWindow \notin DOMAIN windows
      BY <1>1, WindowAssumption
    <3>2. answer'.area = 0
      BY <2>1, <2>4, <3>1 DEF ClientSizeFor
    <3>3. \A h \in DOMAIN windows : (windows[h].own /\ windows[h].visible) => windows[h].area = 0
      BY <1>1, <2>4
    <3>4. QED
      BY <2>1, <3>2, <3>3 DEF WindowInv, SizeIsOwn
  <2>5. QED
    BY <2>2, <2>3, <2>4
<1>3. CASE WindowsChange
  <2>1. answer'.area = -1
    BY <1>3 DEF WindowsChange
  <2>2. DOMAIN windows' \subseteq Handles /\ \A h \in DOMAIN windows' : windows'[h] \in Window
    BY <1>3 DEF WindowsChange, WindowInv
  <2>3. QED
    BY <2>1, <2>2 DEF WindowInv, SizeIsOwn
<1>4. CASE UNCHANGED windowVars
  BY <1>4 DEF windowVars, WindowInv, SizeIsOwn
<1>5. QED
  BY <1>2, <1>3, <1>4 DEF WindowNext

\* A size that is returned is that of a window this process has at that time,
\* for any windows, handles that come back, and order in which they are found.
THEOREM WindowSizeIsOwn == WindowSpec => []SizeIsOwn
<1>1. WindowInit => WindowInv
  BY DEF WindowInit, WindowInv, SizeIsOwn
<1>2. WindowInv => SizeIsOwn
  BY DEF WindowInv
<1>3. QED
  BY <1>1, <1>2, WindowStep, PTL DEF WindowSpec

-----------------------------------------------------------------------------
(***************************************************************************)
(* Morph compaction: the loop writes behind itself, so that no target it   *)
(* has yet to read is overwritten, and what it has kept of the ones it has *)
(* read is in the places of the contributing ones.                         *)
(***************************************************************************)
\* What the loop has read is compacted, what it has not read is untouched, and
\* it writes no further than it reads.
MorphInv ==
  /\ incoming = [data |-> incoming.data, count |-> incoming.count, weighted |-> incoming.weighted]
  /\ compaction = [step |-> compaction.step, read |-> compaction.read, write |-> compaction.write]
  /\ compaction.step # "original" =>
       /\ incoming.count \in Nat /\ DOMAIN sent = 1 .. incoming.count
       /\ DOMAIN incoming.data = DOMAIN sent
  /\ compaction.step = "called" => incoming.data = sent
  /\ compaction.step = "loop" =>
       /\ compaction.read \in 0 .. incoming.count /\ compaction.write = Place(compaction.read)
       /\ \A i \in DOMAIN sent : i > compaction.read => incoming.data[i] = sent[i]
       /\ \A i \in Contributing : i <= compaction.read => incoming.data[Place(i)] = sent[i]
  /\ MorphsKept

LEMMA ContributingBelow ==
  ASSUME NEW size \in Nat, DOMAIN sent = 1 .. size, NEW r \in 0 .. size
  PROVE  /\ IsFiniteSet({j \in Contributing : j <= r})
         /\ Place(r) \in Nat /\ Place(r) <= r
<1> DEFINE S == {j \in Contributing : j <= r}
<1>1. S \subseteq 1 .. r
  BY DEF Contributing
<1>2. IsFiniteSet(1 .. r) /\ Cardinality(1 .. r) = r
  <2>1. r \in Int /\ 1 \in Int /\ 1 <= r + 1
    OBVIOUS
  <2>2. QED
    BY <2>1, FS_Interval
<1>3. IsFiniteSet(S) /\ Cardinality(S) <= Cardinality(1 .. r)
  BY <1>1, <1>2, FS_Subset
<1>4. Cardinality(S) \in Nat
  BY <1>3, FS_CardinalityType
<1>5. QED
  BY <1>2, <1>3, <1>4 DEF Place

LEMMA PlaceGrows ==
  ASSUME NEW size \in Nat, DOMAIN sent = 1 .. size, NEW r \in 0 .. size, NEW i \in 0 .. r
  PROVE  Place(i) <= Place(r)
<1>1. {j \in Contributing : j <= i} \subseteq {j \in Contributing : j <= r}
  BY DEF Contributing
<1>2. QED
  BY <1>1, ContributingBelow, FS_Subset DEF Place

LEMMA PlaceStep ==
  ASSUME NEW size \in Nat, DOMAIN sent = 1 .. size, NEW r \in 0 .. size, r < size
  PROVE  Place(r + 1) = IF r + 1 \in Contributing THEN Place(r) + 1 ELSE Place(r)
<1> DEFINE S == {j \in Contributing : j <= r}
<1>1. IsFiniteSet(S)
  BY ContributingBelow
<1>2. r + 1 \notin S
  OBVIOUS
<1>3. CASE r + 1 \in Contributing
  <2>1. {j \in Contributing : j <= r + 1} = S \cup {r + 1}
    BY <1>3 DEF Contributing
  <2>2. QED
    BY <1>1, <1>2, <1>3, <2>1, FS_AddElement DEF Place
<1>4. CASE r + 1 \notin Contributing
  <2>1. {j \in Contributing : j <= r + 1} = S
    BY <1>4 DEF Contributing
  <2>2. QED
    BY <1>4, <2>1 DEF Place
<1>5. QED
  BY <1>3, <1>4

LEMMA MorphInitial == MorphInit => MorphInv
<1> SUFFICES ASSUME MorphInit PROVE MorphInv
  OBVIOUS
<1>1. PICK n \in 0 .. MaxMorphs : \E data \in [1 .. n -> Morphs] :
        incoming = [data |-> data, count |-> n, weighted |-> -1] /\ sent = data
  BY DEF MorphInit
<1>2. PICK data \in [1 .. n -> Morphs] :
        incoming = [data |-> data, count |-> n, weighted |-> -1] /\ sent = data
  BY <1>1
<1>3. compaction = [step |-> "called", read |-> 0, write |-> 0]
  BY DEF MorphInit
<1>4. n \in Nat
  OBVIOUS
<1>5. QED
  BY <1>2, <1>3, <1>4 DEF MorphInv, MorphsKept

LEMMA MorphStep == MorphInv /\ [MorphNext]_morphVars => MorphInv'
<1> SUFFICES ASSUME MorphInv, [MorphNext]_morphVars PROVE MorphInv'
  OBVIOUS
<1>1. CASE NothingToCompact
  <2>1. /\ incoming'.count = incoming.count /\ incoming'.weighted = 0
        /\ incoming' = [data |-> incoming'.data, count |-> incoming'.count, weighted |-> incoming'.weighted]
        /\ compaction'.step = "original" /\ sent' = sent
        /\ compaction' = [step |-> "original", read |-> compaction'.read, write |-> compaction'.write]
    BY <1>1 DEF NothingToCompact, MorphInv
  <2>2. incoming.count = 0 /\ DOMAIN sent = {}
    <3>1. incoming.count \in Nat /\ DOMAIN incoming.data = 1 .. incoming.count
          /\ DOMAIN sent = 1 .. incoming.count
      BY <1>1 DEF NothingToCompact, MorphInv
    <3>2. incoming.data = <<>> => DOMAIN incoming.data = {}
      OBVIOUS
    <3>3. incoming.count = 0
      BY <1>1, <3>1, <3>2 DEF NothingToCompact
    <3>4. QED
      BY <3>1, <3>3
  <2>3. Contributing = {} /\ Contributing' = {}
    BY <2>1, <2>2 DEF Contributing
  <2>4. Cardinality(Contributing') = 0
    BY <2>3, FS_EmptySet
  <2>5. MorphsKept'
    BY <2>1, <2>2, <2>3, <2>4 DEF MorphsKept
  <2>6. QED
    BY <2>1, <2>5 DEF MorphInv
<1>2. CASE BeginLoop
  <2>1. /\ incoming' = incoming /\ sent' = sent /\ compaction.step = "called"
        /\ compaction' = [step |-> "loop", read |-> 0, write |-> 0]
    BY <1>2 DEF BeginLoop
  <2>2. /\ incoming.count \in Nat /\ DOMAIN sent = 1 .. incoming.count /\ incoming.data = sent
    BY <2>1 DEF MorphInv
  <2>3. Place(0) = 0
    <3>1. PICK size \in Nat : DOMAIN sent = 1 .. size
      BY <2>2
    <3>2. \A r \in 0 .. size : Place(r) \in Nat /\ Place(r) <= r
      BY <3>1, ContributingBelow
    <3>3. QED
      BY <3>2
  <2>4. \A i \in Contributing : i > 0
    BY <2>2 DEF Contributing
  <2>5. Contributing' = Contributing /\ \A i : Place(i)' = Place(i)
    BY <2>1 DEF Contributing, Place
  <2>6. QED
    <3>1. compaction'.read \in 0 .. incoming'.count /\ compaction'.write = Place(compaction.read)'
      BY <2>1, <2>2, <2>3, <2>5 DEF Place
    <3>2. \A i \in Contributing' : ~(i <= compaction'.read)
      BY <2>1, <2>2, <2>4, <2>5 DEF Contributing
    <3>3. QED
      BY <2>1, <2>2, <2>5, <3>1, <3>2 DEF MorphInv, MorphsKept
<1>3. ASSUME Reading PROVE
        /\ incoming.count \in Nat /\ DOMAIN sent = 1 .. incoming.count
        /\ DOMAIN incoming.data = DOMAIN sent
        /\ compaction.read \in 0 .. incoming.count /\ compaction.write = Place(compaction.read)
        /\ compaction.read < incoming.count
        /\ Place(compaction.read) \in Nat /\ Place(compaction.read) <= compaction.read
        /\ compaction.read + 1 \in DOMAIN sent
        /\ \A i \in DOMAIN sent : i > compaction.read => incoming.data[i] = sent[i]
        /\ \A i \in Contributing : i <= compaction.read => incoming.data[Place(i)] = sent[i]
        /\ incoming.data[compaction.read + 1] = sent[compaction.read + 1]
  <2>1. /\ incoming.count \in Nat /\ DOMAIN sent = 1 .. incoming.count
        /\ DOMAIN incoming.data = DOMAIN sent
        /\ compaction.read \in 0 .. incoming.count /\ compaction.write = Place(compaction.read)
        /\ compaction.read < incoming.count
        /\ \A i \in DOMAIN sent : i > compaction.read => incoming.data[i] = sent[i]
        /\ \A i \in Contributing : i <= compaction.read => incoming.data[Place(i)] = sent[i]
    BY <1>3 DEF Reading, MorphInv
  <2>2. Place(compaction.read) \in Nat /\ Place(compaction.read) <= compaction.read
    BY <2>1, ContributingBelow
  <2>3. compaction.read + 1 \in DOMAIN sent /\ compaction.read + 1 > compaction.read
    BY <2>1
  <2>4. QED
    BY <2>1, <2>2, <2>3
<1>4. CASE SkipMorph
  <2>1. Reading /\ ~Kept(incoming.data[compaction.read + 1])
    BY <1>4 DEF SkipMorph
  <2>2. PICK r \in Int : r = compaction.read
    BY <1>3, <2>1
  <2>3. /\ incoming' = incoming /\ sent' = sent
        /\ compaction' = [step |-> "loop", read |-> r + 1, write |-> compaction.write]
    BY <1>4, <2>1, <2>2 DEF SkipMorph, Reading, MorphInv
  <2>4. r + 1 \notin Contributing
    BY <1>3, <2>1, <2>2 DEF Contributing, Kept
  <2>5. Place(r + 1) = Place(r)
    BY <1>3, <2>1, <2>2, <2>4, PlaceStep
  <2>6. Contributing' = Contributing /\ \A i : Place(i)' = Place(i)
    BY <2>3 DEF Contributing, Place
  <2>7. \A i \in Contributing : i <= r + 1 => i <= r
    BY <1>3, <2>1, <2>2, <2>4 DEF Contributing
  <2>8. /\ compaction'.read \in 0 .. incoming'.count
        /\ compaction'.write = Place(compaction.read)'
    BY <1>3, <2>1, <2>2, <2>3, <2>5, <2>6 DEF Place
  <2>9. \A i \in DOMAIN sent' : i > compaction'.read => incoming'.data[i] = sent'[i]
    BY <1>3, <2>1, <2>2, <2>3
  <2>10. \A i \in Contributing' : i <= compaction'.read => incoming'.data[Place(i)'] = sent'[i]
    BY <1>3, <2>1, <2>2, <2>3, <2>6, <2>7
  <2>11. QED
    BY <1>3, <2>1, <2>3, <2>8, <2>9, <2>10 DEF MorphInv, MorphsKept
<1>5. CASE KeepMorph
  <2>1. Reading /\ Kept(incoming.data[compaction.read + 1])
    BY <1>5 DEF KeepMorph
  <2>2. PICK r \in Int : r = compaction.read
    BY <1>3, <2>1
  <2>3. PICK w \in Nat : w = compaction.write /\ w = Place(r) /\ w <= r
    BY <1>3, <2>1, <2>2
  <2>4. PICK data : data = [incoming.data EXCEPT ![w + 1] = sent[r + 1]]
    OBVIOUS
  <2>5. /\ incoming' = [data |-> data, count |-> incoming.count, weighted |-> incoming.weighted]
        /\ sent' = sent /\ compaction' = [step |-> "loop", read |-> r + 1, write |-> w + 1]
    BY <1>3, <1>5, <2>1, <2>2, <2>3, <2>4 DEF KeepMorph, MorphInv
  <2>6. r + 1 \in Contributing
    BY <1>3, <2>1, <2>2 DEF Contributing, Kept
  <2>7. Place(r + 1) = w + 1
    BY <1>3, <2>1, <2>2, <2>3, <2>6, PlaceStep
  <2>8. Contributing' = Contributing /\ \A i : Place(i)' = Place(i)
    BY <2>5 DEF Contributing, Place
  <2>9. DOMAIN data = DOMAIN sent /\ w + 1 \in DOMAIN data
    BY <1>3, <2>1, <2>2, <2>3, <2>4
  <2>10. \A i \in DOMAIN sent : i > r + 1 => data[i] = sent[i]
    BY <1>3, <2>1, <2>2, <2>3, <2>4, <2>9
  <2>11. \A i \in Contributing : i <= r + 1 => data[Place(i)] = sent[i]
    <3> SUFFICES ASSUME NEW i \in Contributing, i <= r + 1 PROVE data[Place(i)] = sent[i]
      OBVIOUS
    <3>1. CASE i = r + 1
      BY <2>4, <2>7, <2>9, <3>1
    <3>2. CASE i # r + 1
      <4>1. i \in 0 .. r
        BY <1>3, <2>1, <2>2, <3>2 DEF Contributing
      <4>2. Place(i) \in Nat /\ Place(i) <= w
        <5>1. PICK size \in Nat : size = incoming.count /\ DOMAIN sent = 1 .. size
          BY <1>3, <2>1
        <5>2. r \in 0 .. size /\ i \in 0 .. size
          BY <1>3, <2>1, <2>2, <4>1, <5>1
        <5>3. Place(i) \in Nat
          BY <5>1, <5>2, ContributingBelow
        <5>4. Place(i) <= Place(r)
          BY <4>1, <5>1, <5>2, PlaceGrows
        <5>5. QED
          BY <2>3, <5>3, <5>4
      <4>3. incoming.data[Place(i)] = sent[i]
        BY <1>3, <2>1, <2>2, <4>1
      <4>4. Place(i) \in DOMAIN incoming.data
        <5>1. i \in {j \in Contributing : j <= i} /\ IsFiniteSet({j \in Contributing : j <= i})
          BY <1>3, <2>1, <2>2, <4>1, ContributingBelow
        <5>2. Place(i) # 0
          BY <5>1, FS_EmptySet DEF Place
        <5>3. QED
          BY <1>3, <2>1, <2>2, <2>3, <4>2, <5>2
      <4>5. QED
        BY <2>4, <4>2, <4>3, <4>4
    <3>3. QED
      BY <3>1, <3>2
  <2>12. /\ compaction'.read \in 0 .. incoming'.count
         /\ compaction'.write = Place(compaction.read)'
    BY <1>3, <2>1, <2>2, <2>5, <2>7, <2>8 DEF Place
  <2>13. \A i \in DOMAIN sent' : i > compaction'.read => incoming'.data[i] = sent'[i]
    BY <2>5, <2>10
  <2>14. \A i \in Contributing' : i <= compaction'.read => incoming'.data[Place(i)'] = sent'[i]
    BY <2>5, <2>8, <2>11
  <2>15. QED
    BY <1>3, <2>1, <2>5, <2>9, <2>12, <2>13, <2>14 DEF MorphInv, MorphsKept
<1>6. CASE EndLoop
  <2>1. PICK w : w = compaction.write
    OBVIOUS
  <2>2. /\ incoming' = [data |-> incoming.data, count |-> w, weighted |-> w] /\ sent' = sent
        /\ compaction' = [step |-> "original", read |-> compaction.read, write |-> w]
        /\ compaction.step = "loop" /\ compaction.read >= incoming.count
    BY <1>6, <2>1 DEF EndLoop, MorphInv
  <2>3. /\ incoming.count \in Nat /\ DOMAIN sent = 1 .. incoming.count
        /\ compaction.read \in 0 .. incoming.count /\ w = Place(compaction.read)
        /\ \A i \in Contributing : i <= compaction.read => incoming.data[Place(i)] = sent[i]
    BY <2>1, <2>2 DEF MorphInv
  <2>4. compaction.read = incoming.count
    BY <2>2, <2>3
  <2>5. Contributing = {j \in Contributing : j <= incoming.count}
    BY <2>3 DEF Contributing
  <2>6. w = Cardinality(Contributing) /\ \A i \in Contributing : incoming.data[Place(i)] = sent[i]
    <3>1. w = Cardinality({j \in Contributing : j <= incoming.count})
      BY <2>3, <2>4 DEF Place
    <3>2. \A i \in Contributing : i <= incoming.count
      BY <2>3 DEF Contributing
    <3>3. QED
      BY <2>3, <2>4, <2>5, <3>1, <3>2
  <2>7. Contributing' = Contributing /\ \A i : Place(i)' = Place(i)
    BY <2>2 DEF Contributing, Place
  <2>8. QED
    BY <2>2, <2>6, <2>7 DEF MorphInv, MorphsKept
<1>7. CASE UNCHANGED morphVars
  BY <1>7 DEF morphVars, MorphInv, MorphsKept, Contributing, Place
<1>8. QED
  BY <1>1, <1>2, <1>4, <1>5, <1>6, <1>7 DEF MorphNext

\* What reaches the render thread is the contributing targets in the order the
\* game configured them, for meshes of any number of targets and any weights.
THEOREM MorphsCompacted == MorphSpec => []MorphsKept
<1>1. MorphInv => MorphsKept
  BY DEF MorphInv
<1>2. QED
  BY <1>1, MorphInitial, MorphStep, PTL DEF MorphSpec

-----------------------------------------------------------------------------
\* The patches next to each other: none takes a step that another sees.
LEMMA PatchesStart == PatchesInit => AimInv /\ MorphInv /\ ScopeInv /\ WindowInv
<1>1. WindowInit => WindowInv
  BY DEF WindowInit, WindowInv, SizeIsOwn
<1>2. QED
  BY <1>1, AimInitial, MorphInitial, ScopeStart DEF PatchesInit

LEMMA PatchesStep ==
  AimInv /\ MorphInv /\ ScopeInv /\ WindowInv /\ [PatchesNext]_patchesVars
    => AimInv' /\ MorphInv' /\ ScopeInv' /\ WindowInv'
<1> SUFFICES ASSUME AimInv, MorphInv, ScopeInv, WindowInv, [PatchesNext]_patchesVars
             PROVE  AimInv' /\ MorphInv' /\ ScopeInv' /\ WindowInv'
  OBVIOUS
<1>1. /\ [AimNext]_aimVars /\ [MorphNext]_morphVars
      /\ [ScopeNext]_scopeVars /\ [WindowNext]_windowVars
  BY DEF PatchesNext, StepOf, patchesVars
<1>2. QED
  BY <1>1, AimStep, MorphStep, ScopeStep, WindowStep

\* In any interleaving of the small patches, for any angles, targets,
\* components and windows, each does what it is for and nothing else.
THEOREM SmallPatchesAreRight == PatchesSpec => []SmallPatchesRight
<1>1. AimInv /\ MorphInv /\ ScopeInv /\ WindowInv => SmallPatchesRight
  BY DEF AimInv, MorphInv, ScopeInv, WindowInv, SmallPatchesRight
<1>2. QED
  BY <1>1, PatchesStart, PatchesStep, PTL DEF PatchesSpec

-----------------------------------------------------------------------------
(***************************************************************************)
(* Detours' trampoline: what is moved into it fits.                        *)
(*                                                                         *)
(* How many bytes a copy takes, and how many it writes at most, depends on *)
(* the code and not on where it lies: every entry of the opcode tables is  *)
(* followed through its handler.  The argument about the trampoline is     *)
(* then one of counting.                                                   *)
(***************************************************************************)
\* What an entry gives the handler that copies by it.
CopyingEntry(e) ==
  e.by = "CopyBytes" =>
    /\ e.size \in 1 .. 9 /\ e.size16 \in 1 .. 9 /\ e.mod \in Nat
    /\ e.rel = 0 \/ e = CopyBytes3Or5Target

LEMMA EntriesCopy ==
  /\ CopyingEntry(CopyBytes1) /\ CopyingEntry(CopyBytes1Address) /\ CopyingEntry(CopyBytes1Dynamic)
  /\ CopyingEntry(CopyBytes2) /\ CopyingEntry(CopyBytes2Jump) /\ CopyingEntry(CopyBytes2Dynamic)
  /\ CopyingEntry(CopyBytes3) /\ CopyingEntry(CopyBytes3Dynamic) /\ CopyingEntry(CopyBytes3Or5)
  /\ CopyingEntry(CopyBytes3Or5Dynamic) /\ CopyingEntry(CopyBytes3Or5Target)
  /\ CopyingEntry(CopyBytes4) /\ CopyingEntry(CopyBytes5Or7Dynamic)
  /\ CopyingEntry(CopyBytes2Mod) /\ CopyingEntry(CopyBytes2ModDynamic)
  /\ CopyingEntry(CopyBytes2Mod1) /\ CopyingEntry(CopyBytes2ModOperand)
  /\ CopyingEntry(CopyBytes3Mod) /\ CopyingEntry(CopyBytes3Mod1)
  /\ CopyingEntry(CopyBytesXop) /\ CopyingEntry(CopyBytesXop1) /\ CopyingEntry(CopyBytesXop4)
BY DEF CopyingEntry, CopyBytesEntry, By, CopyBytes1, CopyBytes1Address, CopyBytes1Dynamic,
   CopyBytes2, CopyBytes2Jump, CopyBytes2Dynamic, CopyBytes3, CopyBytes3Dynamic, CopyBytes3Or5,
   CopyBytes3Or5Dynamic, CopyBytes3Or5Target, CopyBytes4, CopyBytes5Or7Dynamic, CopyBytes2Mod,
   CopyBytes2ModDynamic, CopyBytes2Mod1, CopyBytes2ModOperand, CopyBytes3Mod, CopyBytes3Mod1,
   CopyBytesXop, CopyBytesXop1, CopyBytesXop4

LEMMA HandlersDoNot ==
  /\ CopyingEntry(By("Copy0F")) /\ CopyingEntry(By("CopyBytesSegment")) /\ CopyingEntry(By("CopyEvex"))
  /\ CopyingEntry(By("Copy66")) /\ CopyingEntry(By("Copy67")) /\ CopyingEntry(By("CopyXop"))
  /\ CopyingEntry(By("CopyVex3")) /\ CopyingEntry(By("CopyVex2")) /\ CopyingEntry(By("Invalid"))
  /\ CopyingEntry(By("CopyBytesPrefix")) /\ CopyingEntry(By("CopyF2")) /\ CopyingEntry(By("CopyF3"))
  /\ CopyingEntry(By("CopyF6")) /\ CopyingEntry(By("CopyF7")) /\ CopyingEntry(By("CopyFF"))
  /\ CopyingEntry(By("Copy0F00")) /\ CopyingEntry(By("Copy0F78")) /\ CopyingEntry(By("Copy0FB8"))
BY DEF CopyingEntry, By

LEMMA ArithmeticCopies == \A b \in 0 .. 63 : CopyingEntry(Arithmetic[b])
<1> TAKE b \in 0 .. 63
<1>1. Arithmetic[b] \in
        {By("Copy0F"), By("CopyBytesSegment"), CopyBytes1, CopyBytes2, CopyBytes2Mod, CopyBytes3Or5}
  BY DEF Arithmetic
<1>2. QED
  BY <1>1, EntriesCopy, HandlersDoNot

LEMMA StackAndMovesCopies == \A b \in 64 .. 191 : CopyingEntry(StackAndMoves[b])
<1> TAKE b \in 64 .. 191
<1>1. StackAndMoves[b] \in
        {By("CopyEvex"), By("CopyBytesSegment"), By("Copy66"), By("Copy67"), By("CopyXop"),
         CopyBytes1, CopyBytes1Address, CopyBytes2, CopyBytes2Jump, CopyBytes2Mod, CopyBytes2Mod1,
         CopyBytes2ModOperand, CopyBytes3Or5, CopyBytes5Or7Dynamic}
  BY DEF StackAndMoves
<1>2. QED
  BY <1>1, EntriesCopy, HandlersDoNot

LEMMA ControlCopies == \A b \in 192 .. 255 : b \notin 224 .. 227 => CopyingEntry(Control[b])
<1> SUFFICES ASSUME NEW b \in 192 .. 255, b \notin 224 .. 227 PROVE CopyingEntry(Control[b])
  OBVIOUS
<1>1. Control[b] \in
        {By("CopyVex3"), By("CopyVex2"), By("Invalid"), By("CopyBytesPrefix"), By("CopyF2"),
         By("CopyF3"), By("CopyF6"), By("CopyF7"), By("CopyFF"), CopyBytes1, CopyBytes1Dynamic,
         CopyBytes2, CopyBytes2Dynamic, CopyBytes2Jump, CopyBytes2Mod, CopyBytes2Mod1,
         CopyBytes2ModOperand, CopyBytes3, CopyBytes3Dynamic, CopyBytes3Or5Target, CopyBytes4,
         CopyBytes5Or7Dynamic}
  BY DEF Control
<1>2. QED
  BY <1>1, EntriesCopy, HandlersDoNot

LEMMA SystemAndMovesCopies == \A b \in 0 .. 127 : CopyingEntry(SystemAndMoves[b])
<1> TAKE b \in 0 .. 127
<1>1. SystemAndMoves[b] \in
        {By("Copy0F00"), By("Copy0F78"), By("Invalid"), CopyBytes1, CopyBytes2Mod, CopyBytes2Mod1,
         CopyBytes3Mod, CopyBytes3Mod1}
  BY DEF SystemAndMoves
<1>2. QED
  BY <1>1, EntriesCopy, HandlersDoNot

LEMMA JumpsAndVectorsCopies == \A b \in 128 .. 255 : CopyingEntry(JumpsAndVectors[b])
<1> TAKE b \in 128 .. 255
<1>1. JumpsAndVectors[b] \in
        {By("Copy0FB8"), By("Invalid"), CopyBytes1, CopyBytes2Mod, CopyBytes2Mod1,
         CopyBytes3Or5Target}
  BY SMTT(30) DEF JumpsAndVectors
<1>2. QED
  BY <1>1, EntriesCopy, HandlersDoNot

\* All but LOOP, LOOPE, LOOPNE and JECXZ.
MovableOpcodes == 0 .. 255 \ 224 .. 227

LEMMA OneByteCopies == ASSUME NEW b \in MovableOpcodes PROVE CopyingEntry(OneByte[b])
<1>0. b \in 0 .. 255 /\ b \notin 224 .. 227
  BY DEF MovableOpcodes
<1>1. OneByte[b] = IF b < 64 THEN Arithmetic[b] ELSE IF b < 192 THEN StackAndMoves[b] ELSE Control[b]
  BY <1>0 DEF OneByte
<1>2. QED
  BY <1>0, <1>1, ArithmeticCopies, StackAndMovesCopies, ControlCopies

LEMMA After0FCopies == ASSUME NEW b \in 0 .. 255 PROVE CopyingEntry(After0F[b])
<1>1. After0F[b] = IF b < 128 THEN SystemAndMoves[b] ELSE JumpsAndVectors[b]
  BY DEF After0F
<1>2. QED
  BY <1>1, SystemAndMovesCopies, JumpsAndVectorsCopies

\* The decoder as far as the length of a copy depends on it.
IsDecoder(d) ==
  d = [out |-> d.out, at |-> d.at, shift |-> d.shift, operand |-> d.operand, address |-> d.address,
       F2 |-> d.F2, F3 |-> d.F3, segment |-> d.segment]

SameDecoder(d, d0) ==
  /\ IsDecoder(d) /\ IsDecoder(d0)
  /\ d.out \in Seq(Int) /\ d0.out = d.out /\ d.shift \in Int /\ d0.shift \in Int
  /\ d0.operand = d.operand /\ d0.address = d.address /\ d0.F2 = d.F2 /\ d0.F3 = d.F3

\* A copy that takes n bytes of src behind those the decoder has copied.
Takes(copy, n, src, d) ==
  /\ copy.used = Len(d.out) + n
  /\ copy.extra \in 0 .. 4 /\ (copy.extra > 0 => n \in 2 .. 3)
  /\ n <= Len(src) => copy.out \in Seq(Int) /\ Len(copy.out) <= copy.used + copy.extra

SameLength(copy, copy0, src, d, d0) ==
  \E n \in 1 .. 14 : Takes(copy, n, src, d) /\ Takes(copy0, n, src, d0)

LEMMA HeadOf ==
  ASSUME NEW src \in Seq(Int), NEW n \in 0 .. Len(src)
  PROVE  SubSeq(src, 1, n) \in Seq(Int) /\ Len(SubSeq(src, 1, n)) = n
OBVIOUS

LEMMA ModRmSizes ==
  ASSUME NEW src, NEW i PROVE ModRmBytes(src, i) \in {0, 1, 2, 4, 5}
BY DEF ModRmBytes

LEMMA BothOut ==
  ASSUME NEW a \in Seq(Int), NEW b \in Seq(Int)
  PROVE  a \o b \in Seq(Int) /\ Len(a \o b) = Len(a) + Len(b)
OBVIOUS

LEMMA OffsetsAreInts ==
  ASSUME NEW n \in Int
  PROVE  /\ OffsetBytes(n, 4) \in Seq(Int) /\ Len(OffsetBytes(n, 4)) = 4
         /\ OffsetBytes(n, 2) \in Seq(Int) /\ Len(OffsetBytes(n, 2)) = 2
<1> DEFINE bytes == <<n % 256, (n \div 256) % 256, (n \div 65536) % 256, (n \div 16777216) % 256>>
<1>1. bytes \in Seq(Int) /\ Len(bytes) = 4
  OBVIOUS
<1> HIDE DEF bytes
<1>2. \A k \in 0 .. Len(bytes) : SubSeq(bytes, 1, k) \in Seq(Int) /\ Len(SubSeq(bytes, 1, k)) = k
  BY <1>1, HeadOf
<1>3. 4 \in 0 .. Len(bytes) /\ 2 \in 0 .. Len(bytes)
  BY <1>1
<1>4. QED
  BY <1>2, <1>3 DEF OffsetBytes, bytes

LEMMA OffsetIsInt ==
  ASSUME NEW src \in Seq(Int), NEW n \in {3, 5}, n <= Len(src)
  PROVE  Offset(SubSeq(src, 2, n)) \in Int
<1> DEFINE bytes == SubSeq(src, 2, n)
<1>1. bytes \in Seq(Int) /\ Len(bytes) = n - 1
  OBVIOUS
<1> HIDE DEF bytes
<1>2. bytes[1] \in Int /\ bytes[2] \in Int /\ (n = 5 => bytes[3] \in Int /\ bytes[4] \in Int)
  BY <1>1
<1>3. \A b \in Int : SignedByte(b) \in Int
  BY DEF SignedByte
<1>4. CASE n = 3
  <2>1. Offset(bytes) = bytes[1] + 256 * SignedByte(bytes[2])
    BY <1>1, <1>4 DEF Offset
  <2>2. PICK b1 \in Int, b2 \in Int : b1 = bytes[1] /\ b2 = SignedByte(bytes[2])
    BY <1>2, <1>3
  <2>3. Offset(bytes) = b1 + 256 * b2
    BY <2>1, <2>2
  <2>4. QED
    BY <2>3 DEF bytes
<1>5. CASE n = 5
  <2>1. Offset(bytes) = bytes[1] + 256 * bytes[2] + 65536 * bytes[3] + 16777216 * SignedByte(bytes[4])
    BY <1>1, <1>5 DEF Offset
  <2>2. PICK b1 \in Int, b2 \in Int, b3 \in Int, b4 \in Int :
          /\ b1 = bytes[1] /\ b2 = bytes[2] /\ b3 = bytes[3] /\ b4 = SignedByte(bytes[4])
    BY <1>2, <1>3, <1>5
  <2>3. Offset(bytes) = b1 + 256 * b2 + 65536 * b3 + 16777216 * b4
    BY <2>1, <2>2
  <2>4. QED
    BY <2>3 DEF bytes
<1>6. QED
  BY <1>4, <1>5

LEMMA EntryAndOperand ==
  ASSUME NEW fixed \in 1 .. 9, NEW modRm \in {0, 1, 2, 4, 5} PROVE fixed + modRm \in 1 .. 14
OBVIOUS

\* An entry without an offset is copied as it is.
LEMMA PlainCopy ==
  ASSUME NEW e, e.by = "CopyBytes", CopyingEntry(e), e.rel = 0, NEW src \in Seq(Int),
         NEW d, d.out \in Seq(Int), NEW n,
         n = (IF IF "ADDRESS" \in e.flags THEN d.address ELSE d.operand THEN e.size16 ELSE e.size)
               + IF e.mod = 0 THEN 0 ELSE ModRmBytes(src, e.mod + 1)
  PROVE  n \in 1 .. 14 /\ Takes(CopyBytes(e, src, d), n, src, d)
<1> DEFINE t == {IF "DYNAMIC" \in e.flags THEN Dynamic ELSE NoTarget}
<1>1. n \in 1 .. 14
  <2>1. PICK modRm \in {0, 1, 2, 4, 5} :
          modRm = IF e.mod = 0 THEN 0 ELSE ModRmBytes(src, e.mod + 1)
    BY ModRmSizes
  <2>2. PICK fixed \in 1 .. 9 :
          fixed = IF IF "ADDRESS" \in e.flags THEN d.address ELSE d.operand THEN e.size16 ELSE e.size
    BY DEF CopyingEntry
  <2>3. n = fixed + modRm
    BY <2>1, <2>2
  <2>4. fixed + modRm \in 1 .. 14
    BY EntryAndOperand
  <2>5. QED
    BY <2>3, <2>4
<1>2. CopyBytes(e, src, d) = Copied(d, SubSeq(src, 1, n), n, 0, t)
  BY DEF CopyBytes
<1>3. n <= Len(src) => /\ d.out \o SubSeq(src, 1, n) \in Seq(Int)
                       /\ Len(d.out \o SubSeq(src, 1, n)) = Len(d.out) + n
  BY <1>1, HeadOf, BothOut
<1> HIDE DEF t
<1>4. QED
  BY <1>1, <1>2, <1>3 DEF Copied, Takes

LEMMA PlainLength ==
  ASSUME NEW e, e.by = "CopyBytes", CopyingEntry(e), e.rel = 0, NEW src \in Seq(Int),
         NEW d, NEW d0, SameDecoder(d, d0)
  PROVE  SameLength(CopyBytes(e, src, d), CopyBytes(e, src, d0), src, d, d0)
<1> DEFINE n == (IF IF "ADDRESS" \in e.flags THEN d.address ELSE d.operand THEN e.size16 ELSE e.size)
                  + IF e.mod = 0 THEN 0 ELSE ModRmBytes(src, e.mod + 1)
<1>1. n = (IF IF "ADDRESS" \in e.flags THEN d0.address ELSE d0.operand THEN e.size16 ELSE e.size)
            + IF e.mod = 0 THEN 0 ELSE ModRmBytes(src, e.mod + 1)
  BY DEF SameDecoder
<1>2. n \in 1 .. 14 /\ Takes(CopyBytes(e, src, d), n, src, d)
  BY PlainCopy DEF SameDecoder
<1>3. Takes(CopyBytes(e, src, d0), n, src, d0)
  BY <1>1, PlainCopy DEF SameDecoder
<1>4. QED
  BY <1>2, <1>3 DEF SameLength

\* A call or a long jump keeps its size; where its offset has two bytes and
\* does not fit, the copy is said to be longer than it is.
LEMMA TargetCopy ==
  ASSUME NEW src \in Seq(Int), NEW d, d.out \in Seq(Int), d.shift \in Int,
         NEW n \in {3, 5}, d.operand => n = 3, ~d.operand => n = 5
  PROVE  Takes(CopyBytes(CopyBytes3Or5Target, src, d), n, src, d)
<1> DEFINE old == Offset(SubSeq(src, 2, n))
           new == old - d.shift
           extra == IF OffsetFits(new, n - 1) THEN 0 ELSE 4 - (n - 1)
           bytes == SubSeq(src, 1, 1) \o OffsetBytes(new, n - 1)
           copy == CopyBytes(CopyBytes3Or5Target, src, d)
<1>1. n \in {3, 5}
  OBVIOUS
<1>9. n = IF d.operand THEN 3 ELSE 5
  OBVIOUS
<1>2. copy = Copied(d, bytes, n, extra, {At(d.at + n + old)})
  BY <1>9 DEF CopyBytes, CopyBytes3Or5Target, CopyBytesEntry
<1>3. extra \in {0, 2} /\ (extra > 0 => n = 3)
  <2>1. CASE n = 3
    <3>1. extra = IF OffsetFits(new, 2) THEN 0 ELSE 2
      BY <2>1
    <3>2. QED
      BY <2>1, <3>1
  <2>2. CASE n = 5
    <3>1. OffsetFits(new, 4)
      BY DEF OffsetFits
    <3>2. QED
      BY <2>2, <3>1
  <2>3. QED
    BY <1>1, <2>1, <2>2
<1>4. n <= Len(src) => d.out \o bytes \in Seq(Int) /\ Len(d.out \o bytes) = Len(d.out) + n
  <2> SUFFICES ASSUME n <= Len(src)
               PROVE  d.out \o bytes \in Seq(Int) /\ Len(d.out \o bytes) = Len(d.out) + n
    OBVIOUS
  <2>1. new \in Int
    BY <1>1, OffsetIsInt
  <2> HIDE DEF new
  <2>2. OffsetBytes(new, n - 1) \in Seq(Int) /\ Len(OffsetBytes(new, n - 1)) = n - 1
    <3>1. OffsetBytes(new, 4) \in Seq(Int) /\ Len(OffsetBytes(new, 4)) = 4
          /\ OffsetBytes(new, 2) \in Seq(Int) /\ Len(OffsetBytes(new, 2)) = 2
      BY <2>1, OffsetsAreInts
    <3>2. CASE n = 3
      <4>1. n - 1 = 2
        BY <3>2
      <4>2. QED
        BY <3>1, <4>1
    <3>3. CASE n = 5
      <4>1. n - 1 = 4
        BY <3>3
      <4>2. QED
        BY <3>1, <4>1
    <3>4. QED
      BY <1>1, <3>2, <3>3
  <2>3. SubSeq(src, 1, 1) \in Seq(Int) /\ Len(SubSeq(src, 1, 1)) = 1
    BY <1>1, HeadOf
  <2>4. bytes \in Seq(Int) /\ Len(bytes) = n
    BY <1>1, <2>2, <2>3, BothOut
  <2> HIDE DEF bytes
  <2>5. QED
    BY <2>4, BothOut
<1> HIDE DEF old, new, extra, bytes
<1>5. /\ copy.used = Len(d.out) + n /\ copy.extra = extra /\ copy.out = d.out \o bytes
  BY <1>2 DEF Copied
<1> HIDE DEF copy
<1>6. Len(d.out) \in Nat
  OBVIOUS
<1>7. Takes(copy, n, src, d)
  <2>1. copy.used = Len(d.out) + n
    BY <1>5
  <2>2. copy.extra \in 0 .. 4 /\ (copy.extra > 0 => n \in 2 .. 3)
    BY <1>3, <1>5
  <2>3. n <= Len(src) => copy.out \in Seq(Int) /\ Len(copy.out) <= copy.used + copy.extra
    BY <1>1, <1>3, <1>4, <1>5, <1>6
  <2>4. QED
    BY <2>1, <2>2, <2>3 DEF Takes
<1>8. QED
  BY <1>7 DEF copy

LEMMA CopyBytesLength ==
  ASSUME NEW e, e.by = "CopyBytes", CopyingEntry(e), NEW src \in Seq(Int),
         NEW d, NEW d0, SameDecoder(d, d0)
  PROVE  SameLength(CopyBytes(e, src, d), CopyBytes(e, src, d0), src, d, d0)
<1>1. CASE e.rel = 0
  BY <1>1, PlainLength
<1>2. CASE e = CopyBytes3Or5Target
  <2>1. PICK n \in {3, 5} : (d.operand => n = 3) /\ (~d.operand => n = 5)
    OBVIOUS
  <2>2. Takes(CopyBytes(e, src, d), n, src, d)
    BY <1>2, <2>1, TargetCopy DEF SameDecoder
  <2>3. Takes(CopyBytes(e, src, d0), n, src, d0)
    BY <1>2, <2>1, TargetCopy DEF SameDecoder
  <2>4. QED
    BY <2>1, <2>2, <2>3 DEF SameLength
<1>3. QED
  BY <1>1, <1>2 DEF CopyingEntry

LEMMA JumpCopy ==
  ASSUME NEW src \in Seq(Int), NEW d, d.out \in Seq(Int), d.shift \in Int
  PROVE  Takes(CopyBytesJump(src, d), 2, src, d)
<1> DEFINE old == SignedByte(src[2])
           reported == {At(d.at + 2 + old)}
           short == <<\hE9>> \o OffsetBytes(old - (d.shift + 3), 4)
           long == <<\h0F, \h80 + (src[1] % 16)>> \o OffsetBytes(old - (d.shift + 4), 4)
<1>1. CopyBytesJump(src, d) = IF src[1] = \hEB THEN Copied(d, short, 2, 3, reported)
                              ELSE Copied(d, long, 2, 4, reported)
  BY DEF CopyBytesJump
<1>2. ASSUME 2 <= Len(src)
      PROVE  /\ d.out \o short \in Seq(Int) /\ Len(d.out \o short) = Len(d.out) + 5
             /\ d.out \o long \in Seq(Int) /\ Len(d.out \o long) = Len(d.out) + 6
  <2>1. src[1] \in Int /\ old \in Int
    BY <1>2 DEF SignedByte
  <2>2. PICK m \in Int, n \in Int : m = old - (d.shift + 3) /\ n = old - (d.shift + 4)
    BY <2>1
  <2>3. /\ OffsetBytes(m, 4) \in Seq(Int) /\ Len(OffsetBytes(m, 4)) = 4
        /\ OffsetBytes(n, 4) \in Seq(Int) /\ Len(OffsetBytes(n, 4)) = 4
    BY OffsetsAreInts
  <2>4. PICK c \in Int : c = \h80 + (src[1] % 16)
    BY <2>1
  <2>5. <<\hE9>> \in Seq(Int) /\ Len(<<\hE9>>) = 1 /\ <<\h0F, c>> \in Seq(Int) /\ Len(<<\h0F, c>>) = 2
    OBVIOUS
  <2>6. short = <<\hE9>> \o OffsetBytes(m, 4) /\ long = <<\h0F, c>> \o OffsetBytes(n, 4)
    BY <2>2, <2>4
  <2> HIDE DEF short, long
  <2>7. short \in Seq(Int) /\ Len(short) = 5
    <3>1. PICK a \in Seq(Int), b \in Seq(Int) :
            a = <<\hE9>> /\ b = OffsetBytes(m, 4) /\ Len(a) = 1 /\ Len(b) = 4
      BY <2>3, <2>5
    <3>2. short = a \o b
      BY <2>6, <3>1
    <3>3. Len(a) = 1 /\ Len(b) = 4
      BY <3>1
    <3>4. a \o b \in Seq(Int) /\ Len(a \o b) = Len(a) + Len(b)
      OBVIOUS
    <3>5. QED
      BY <3>2, <3>3, <3>4
  <2>8. long \in Seq(Int) /\ Len(long) = 6
    <3>1. PICK a \in Seq(Int), b \in Seq(Int) :
            a = <<\h0F, c>> /\ b = OffsetBytes(n, 4) /\ Len(a) = 2 /\ Len(b) = 4
      BY <2>3, <2>5
    <3>2. long = a \o b
      BY <2>6, <3>1
    <3>3. Len(a) = 2 /\ Len(b) = 4
      BY <3>1
    <3>4. a \o b \in Seq(Int) /\ Len(a \o b) = Len(a) + Len(b)
      OBVIOUS
    <3>5. QED
      BY <3>2, <3>3, <3>4
  <2>9. PICK before \in Seq(Int) : before = d.out
    OBVIOUS
  <2>10. before \o short \in Seq(Int) /\ Len(before \o short) = Len(before) + Len(short)
    BY <2>7, BothOut
  <2>11. before \o long \in Seq(Int) /\ Len(before \o long) = Len(before) + Len(long)
    BY <2>8, BothOut
  <2>12. QED
    BY <2>7, <2>8, <2>9, <2>10, <2>11
<1> HIDE DEF old, reported, short, long
<1>3. Len(d.out) \in Nat
  OBVIOUS
<1>4. CASE src[1] = \hEB
  <2>1. CopyBytesJump(src, d) = [out |-> d.out \o short, used |-> Len(d.out) + 2, extra |-> 3, targets |-> reported]
    BY <1>1, <1>4 DEF Copied
  <2>2. QED
    BY <1>2, <1>3, <2>1 DEF Takes
<1>5. CASE src[1] # \hEB
  <2>1. CopyBytesJump(src, d) = [out |-> d.out \o long, used |-> Len(d.out) + 2, extra |-> 4, targets |-> reported]
    BY <1>1, <1>5 DEF Copied
  <2>2. QED
    BY <1>2, <1>3, <2>1 DEF Takes
<1>6. QED
  BY <1>4, <1>5

LEMMA InvalidCopy ==
  ASSUME NEW src, NEW d, d.out \in Seq(Int)
  PROVE  Takes(Invalid(d), 1, src, d)
<1>1. d.out \o <<>> = d.out /\ Len(d.out) \in Nat
  OBVIOUS
<1>2. Invalid(d) = [out |-> d.out, used |-> Len(d.out) + 1, extra |-> 0, targets |-> {NoTarget}]
  BY <1>1 DEF Invalid, Copied
<1>3. QED
  BY <1>1, <1>2 DEF Takes

LEMMA LastLength ==
  ASSUME NEW e, CopyingEntry(e), NEW src \in Seq(Int), NEW d, NEW d0, SameDecoder(d, d0)
  PROVE  SameLength(HandleLast(e, src, d), HandleLast(e, src, d0), src, d, d0)
<1>1. ASSUME NEW f, f.by = "CopyBytes", CopyingEntry(f),
             HandleLast(e, src, d) = CopyBytes(f, src, d), HandleLast(e, src, d0) = CopyBytes(f, src, d0)
      PROVE  SameLength(HandleLast(e, src, d), HandleLast(e, src, d0), src, d, d0)
  BY <1>1, CopyBytesLength
<1>2. /\ CopyBytes2Mod.by = "CopyBytes" /\ CopyBytes2ModDynamic.by = "CopyBytes"
      /\ CopyBytes4.by = "CopyBytes" /\ CopyBytes3Or5Dynamic.by = "CopyBytes"
      /\ CopyBytes2Mod1.by = "CopyBytes" /\ CopyBytes2ModOperand.by = "CopyBytes"
      /\ CopyBytesXop.by = "CopyBytes" /\ CopyBytesXop1.by = "CopyBytes" /\ CopyBytesXop4.by = "CopyBytes"
  BY DEF CopyBytesEntry, CopyBytes2Mod, CopyBytes2ModDynamic, CopyBytes4, CopyBytes3Or5Dynamic,
     CopyBytes2Mod1, CopyBytes2ModOperand, CopyBytesXop, CopyBytesXop1, CopyBytesXop4
<1>3. CASE e.by = "CopyBytes"
  BY <1>1, <1>3 DEF HandleLast
<1>4. CASE e.by = "CopyBytesJump"
  <2>1. HandleLast(e, src, d) = CopyBytesJump(src, d) /\ HandleLast(e, src, d0) = CopyBytesJump(src, d0)
    BY <1>4 DEF HandleLast
  <2>2. Takes(CopyBytesJump(src, d), 2, src, d) /\ Takes(CopyBytesJump(src, d0), 2, src, d0)
    BY JumpCopy DEF SameDecoder
  <2>3. QED
    BY <2>1, <2>2 DEF SameLength
<1>5. CASE e.by = "Copy0F00"
  <2>1. PICK f : f = IF ModReg(src[2]) = 6 THEN CopyBytes2ModDynamic ELSE CopyBytes2Mod
    OBVIOUS
  <2>2. HandleLast(e, src, d) = CopyBytes(f, src, d) /\ HandleLast(e, src, d0) = CopyBytes(f, src, d0)
    BY <1>5, <2>1 DEF HandleLast
  <2>3. f.by = "CopyBytes" /\ CopyingEntry(f)
    BY <1>2, <2>1, EntriesCopy
  <2>4. QED
    BY <1>1, <2>2, <2>3
<1>6. CASE e.by = "Copy0F78"
  <2>1. PICK f : f = IF d.F2 \/ d.operand THEN CopyBytes4 ELSE CopyBytes2Mod
    OBVIOUS
  <2>2. HandleLast(e, src, d) = CopyBytes(f, src, d) /\ HandleLast(e, src, d0) = CopyBytes(f, src, d0)
    BY <1>6, <2>1 DEF HandleLast, SameDecoder
  <2>3. f.by = "CopyBytes" /\ CopyingEntry(f)
    BY <1>2, <2>1, EntriesCopy
  <2>4. QED
    BY <1>1, <2>2, <2>3
<1>7. CASE e.by = "Copy0FB8"
  <2>1. PICK f : f = IF d.F3 THEN CopyBytes2Mod ELSE CopyBytes3Or5Dynamic
    OBVIOUS
  <2>2. HandleLast(e, src, d) = CopyBytes(f, src, d) /\ HandleLast(e, src, d0) = CopyBytes(f, src, d0)
    BY <1>7, <2>1 DEF HandleLast, SameDecoder
  <2>3. f.by = "CopyBytes" /\ CopyingEntry(f)
    BY <1>2, <2>1, EntriesCopy
  <2>4. QED
    BY <1>1, <2>2, <2>3
<1>8. CASE e.by = "CopyF6"
  <2>1. PICK f : f = IF ModReg(src[2]) = 0 THEN CopyBytes2Mod1 ELSE CopyBytes2Mod
    OBVIOUS
  <2>2. HandleLast(e, src, d) = CopyBytes(f, src, d) /\ HandleLast(e, src, d0) = CopyBytes(f, src, d0)
    BY <1>8, <2>1 DEF HandleLast
  <2>3. f.by = "CopyBytes" /\ CopyingEntry(f)
    BY <1>2, <2>1, EntriesCopy
  <2>4. QED
    BY <1>1, <2>2, <2>3
<1>9. CASE e.by = "CopyF7"
  <2>1. PICK f : f = IF ModReg(src[2]) = 0 THEN CopyBytes2ModOperand ELSE CopyBytes2Mod
    OBVIOUS
  <2>2. HandleLast(e, src, d) = CopyBytes(f, src, d) /\ HandleLast(e, src, d0) = CopyBytes(f, src, d0)
    BY <1>9, <2>1 DEF HandleLast
  <2>3. f.by = "CopyBytes" /\ CopyingEntry(f)
    BY <1>2, <2>1, EntriesCopy
  <2>4. QED
    BY <1>1, <2>2, <2>3
<1>10. CASE e.by = "CopyFF"
  <2>1. HandleLast(e, src, d) = CopyFF(src, d) /\ HandleLast(e, src, d0) = CopyFF(src, d0)
    BY <1>10 DEF HandleLast
  <2>2. PICK n \in 1 .. 14 : /\ Takes(CopyBytes(CopyBytes2Mod, src, d), n, src, d)
                             /\ Takes(CopyBytes(CopyBytes2Mod, src, d0), n, src, d0)
    BY <1>2, EntriesCopy, CopyBytesLength DEF SameLength
  <2>3. \A x : Takes(CopyBytes(CopyBytes2Mod, src, x), n, src, x) => Takes(CopyFF(src, x), n, src, x)
    <3> SUFFICES ASSUME NEW x, Takes(CopyBytes(CopyBytes2Mod, src, x), n, src, x)
                 PROVE  Takes(CopyFF(src, x), n, src, x)
      OBVIOUS
    <3>1. /\ CopyFF(src, x).out = CopyBytes(CopyBytes2Mod, src, x).out
          /\ CopyFF(src, x).used = CopyBytes(CopyBytes2Mod, src, x).used
          /\ CopyFF(src, x).extra = CopyBytes(CopyBytes2Mod, src, x).extra
      BY DEF CopyFF, CopyBytes, Copied
    <3>2. QED
      BY <3>1 DEF Takes
  <2>4. QED
    BY <2>1, <2>2, <2>3 DEF SameLength
<1>11. CASE e.by = "CopyXop"
  <2>1. PICK f : f = CASE src[2] % 32 = 8 -> CopyBytesXop1
                       [] src[2] % 32 = 9 -> CopyBytesXop
                       [] src[2] % 32 = 10 -> CopyBytesXop4
                       [] OTHER -> CopyBytes2Mod
    OBVIOUS
  <2>2. HandleLast(e, src, d) = CopyBytes(f, src, d) /\ HandleLast(e, src, d0) = CopyBytes(f, src, d0)
    BY <1>11, <2>1 DEF HandleLast, CopyXop
  <2>3. f \in {CopyBytesXop1, CopyBytesXop, CopyBytesXop4, CopyBytes2Mod}
    BY <2>1
  <2>4. f.by = "CopyBytes" /\ CopyingEntry(f)
    BY <1>2, <2>3, EntriesCopy
  <2>5. QED
    BY <1>1, <2>2, <2>4
<1>12. CASE e.by \notin {"CopyBytes", "CopyBytesJump", "Copy0F00", "Copy0F78", "Copy0FB8", "CopyF6",
                         "CopyF7", "CopyFF", "CopyXop"}
  <2>1. HandleLast(e, src, d) = Invalid(d) /\ HandleLast(e, src, d0) = Invalid(d0)
    BY <1>12 DEF HandleLast
  <2>2. Takes(Invalid(d), 1, src, d) /\ Takes(Invalid(d0), 1, src, d0)
    BY InvalidCopy DEF SameDecoder
  <2>3. QED
    BY <2>1, <2>2 DEF SameLength
<1>13. QED
  BY <1>3, <1>4, <1>5, <1>6, <1>7, <1>8, <1>9, <1>10, <1>11, <1>12

\* A copy of an instruction of n bytes, those that lead on to others included.
Handled(copy, n, src, d) ==
  /\ copy.used = Len(d.out) + n
  /\ copy.extra \in 0 .. 4 /\ (copy.extra > 0 => n \in 2 .. 7)
  /\ n <= Len(src) => copy.out \in Seq(Int) /\ Len(copy.out) <= copy.used + copy.extra

SameHandled(copy, copy0, src, d, d0) ==
  \E n \in 1 .. 18 : Handled(copy, n, src, d) /\ Handled(copy0, n, src, d0)

Byte == 0 .. 255

LEMMA BytesAreInts == ASSUME NEW src \in Seq(Byte) PROVE src \in Seq(Int)
<1>1. Byte \subseteq Int
  BY DEF Byte
<1>2. QED
  BY <1>1, SeqMonotonic

LEMMA RestOf ==
  ASSUME NEW src \in Seq(Byte), NEW k \in 0 .. Len(src)
  PROVE  /\ After(src, k) \in Seq(Byte) /\ Len(After(src, k)) = Len(src) - k
         /\ \A i \in 1 .. Len(src) - k : After(src, k)[i] = src[k + i]
BY DEF After

LEMMA PastIs ==
  ASSUME NEW d, IsDecoder(d), NEW src, NEW n
  PROVE  Past(d, src, n) =
           [out |-> d.out \o SubSeq(src, 1, n), at |-> d.at + n, shift |-> d.shift,
            operand |-> d.operand, address |-> d.address, F2 |-> d.F2, F3 |-> d.F3,
            segment |-> d.segment]
<1>1. PICK out, at : out = d.out \o SubSeq(src, 1, n) /\ at = d.at + n
  OBVIOUS
<1>2. PICK c : c = [d EXCEPT !.out = out]
  OBVIOUS
<1>3. c = [out |-> out, at |-> d.at, shift |-> d.shift, operand |-> d.operand,
           address |-> d.address, F2 |-> d.F2, F3 |-> d.F3, segment |-> d.segment]
  BY <1>2 DEF IsDecoder
<1>4. [c EXCEPT !.at = at] =
        [out |-> out, at |-> at, shift |-> d.shift, operand |-> d.operand,
         address |-> d.address, F2 |-> d.F2, F3 |-> d.F3, segment |-> d.segment]
  BY <1>3
<1>5. Past(d, src, n) = [c EXCEPT !.at = at]
  BY <1>1, <1>2, <1>3 DEF Past
<1>6. QED
  BY <1>1, <1>4, <1>5

LEMMA PastSame ==
  ASSUME NEW src \in Seq(Byte), NEW k \in 0 .. Len(src), NEW d, NEW d0, SameDecoder(d, d0)
  PROVE  SameDecoder(Past(d, src, k), Past(d0, src, k)) /\ Len(Past(d, src, k).out) = Len(d.out) + k
<1>1. src \in Seq(Int) /\ IsDecoder(d) /\ IsDecoder(d0) /\ d.out \in Seq(Int) /\ d0.out = d.out
  BY BytesAreInts DEF SameDecoder
<1>2. PICK head \in Seq(Int) : head = SubSeq(src, 1, k) /\ Len(head) = k
  BY <1>1, HeadOf
<1>7. PICK before \in Seq(Int) : before = d.out
  BY <1>1
<1>8. before \o head \in Seq(Int) /\ Len(before \o head) = Len(before) + Len(head)
  BY BothOut
<1>3. PICK out \in Seq(Int) : out = d.out \o head /\ Len(out) = Len(d.out) + k
  BY <1>2, <1>7, <1>8
<1>4. Past(d, src, k) = [out |-> out, at |-> d.at + k, shift |-> d.shift, operand |-> d.operand,
                         address |-> d.address, F2 |-> d.F2, F3 |-> d.F3, segment |-> d.segment]
  BY <1>1, <1>2, <1>3, PastIs
<1>5. Past(d0, src, k) = [out |-> out, at |-> d0.at + k, shift |-> d0.shift, operand |-> d0.operand,
                          address |-> d0.address, F2 |-> d0.F2, F3 |-> d0.F3, segment |-> d0.segment]
  <2>1. Past(d0, src, k) =
          [out |-> d0.out \o SubSeq(src, 1, k), at |-> d0.at + k, shift |-> d0.shift,
           operand |-> d0.operand, address |-> d0.address, F2 |-> d0.F2, F3 |-> d0.F3,
           segment |-> d0.segment]
    BY <1>1, PastIs
  <2>2. d0.out \o SubSeq(src, 1, k) = out
    BY <1>1, <1>2, <1>3
  <2>3. QED
    BY <2>1, <2>2
<1>6. QED
  BY <1>3, <1>4, <1>5 DEF SameDecoder, IsDecoder

LEMMA HandledBehind ==
  ASSUME NEW src \in Seq(Byte), NEW k \in 0 .. 4, k <= Len(src), NEW d, d.out \in Seq(Int),
         NEW past, Len(past.out) = Len(d.out) + k,
         NEW n \in 1 .. 14, NEW copy, Takes(copy, n, After(src, k), past)
  PROVE  Handled(copy, n + k, src, d)
<1>1. PICK size \in Nat, done \in Nat : size = Len(src) /\ done = Len(d.out)
  OBVIOUS
<1>2. k \in 0 .. Len(src)
  BY <1>1
<1>3. Len(After(src, k)) = size - k
  <2>1. Len(After(src, k)) = Len(src) - k
    BY <1>2, RestOf
  <2>2. QED
    BY <1>1, <2>1
<1>4. copy.used = done + (n + k)
  <2>1. Len(past.out) = done + k
    BY <1>1
  <2>2. copy.used = Len(past.out) + n
    BY DEF Takes
  <2>3. copy.used = (done + k) + n
    BY <2>1, <2>2
  <2>4. (done + k) + n = done + (n + k)
    OBVIOUS
  <2>5. QED
    BY <2>3, <2>4
<1>5. copy.extra \in 0 .. 4 /\ (copy.extra > 0 => n + k \in 2 .. 7)
  BY DEF Takes
<1>6. n + k <= size => copy.out \in Seq(Int) /\ Len(copy.out) <= copy.used + copy.extra
  BY <1>3 DEF Takes
<1>7. QED
  BY <1>1, <1>4, <1>5, <1>6 DEF Handled

LEMMA SameBehind ==
  ASSUME NEW src \in Seq(Byte), NEW k \in 0 .. 4, k <= Len(src), NEW d, NEW d0, SameDecoder(d, d0),
         NEW past, NEW past0, SameDecoder(past, past0), Len(past.out) = Len(d.out) + k,
         NEW copy, NEW copy0, SameLength(copy, copy0, After(src, k), past, past0)
  PROVE  SameHandled(copy, copy0, src, d, d0)
<1>1. PICK n \in 1 .. 14 : Takes(copy, n, After(src, k), past) /\ Takes(copy0, n, After(src, k), past0)
  BY DEF SameLength
<1>2. d.out \in Seq(Int) /\ d0.out \in Seq(Int) /\ Len(past0.out) = Len(d0.out) + k
  BY DEF SameDecoder
<1>3. Handled(copy, n + k, src, d)
  BY <1>1, <1>2, HandledBehind
<1>4. Handled(copy0, n + k, src, d0)
  BY <1>1, <1>2, HandledBehind
<1>5. n + k \in 1 .. 18
  OBVIOUS
<1>6. QED
  BY <1>3, <1>4, <1>5 DEF SameHandled

LEMMA SameAtHead ==
  ASSUME NEW src \in Seq(Byte), NEW d, NEW d0, SameDecoder(d, d0),
         NEW copy, NEW copy0, SameLength(copy, copy0, src, d, d0)
  PROVE  SameHandled(copy, copy0, src, d, d0)
<1>1. PICK n \in 1 .. 14 : Takes(copy, n, src, d) /\ Takes(copy0, n, src, d0)
  BY DEF SameLength
<1>2. Handled(copy, n, src, d) /\ Handled(copy0, n, src, d0) /\ n \in 1 .. 18
  BY <1>1 DEF Takes, Handled
<1>3. QED
  BY <1>2 DEF SameHandled

LEMMA SameLastBehind ==
  ASSUME NEW e, CopyingEntry(e), NEW src \in Seq(Byte), NEW k \in 0 .. 4, k <= Len(src),
         NEW d, NEW d0, SameDecoder(d, d0), NEW past, NEW past0, SameDecoder(past, past0),
         Len(past.out) = Len(d.out) + k
  PROVE  SameHandled(HandleLast(e, After(src, k), past), HandleLast(e, After(src, k), past0), src, d, d0)
<1>1. k \in 0 .. Len(src)
  OBVIOUS
<1>2. PICK rest \in Seq(Byte) : rest = After(src, k)
  BY <1>1, RestOf
<1>3. rest \in Seq(Int)
  BY BytesAreInts
<1>4. SameLength(HandleLast(e, rest, past), HandleLast(e, rest, past0), rest, past, past0)
  BY <1>3, LastLength
<1>5. QED
  BY <1>2, <1>4, SameBehind

LEMMA ZeroFLength ==
  ASSUME NEW src \in Seq(Byte), Len(src) >= 8, NEW d, NEW d0, SameDecoder(d, d0)
  PROVE  SameHandled(Copy0F(src, d), Copy0F(src, d0), src, d, d0)
<1>1. PICK e : e = After0F[src[2]] /\ CopyingEntry(e)
  <2>1. 2 \in 1 .. Len(src)
    OBVIOUS
  <2>2. src[2] \in 0 .. 255
    BY <2>1, ElementOfSeq DEF Byte
  <2>3. QED
    BY <2>2, After0FCopies
<1>2. 1 \in 0 .. Len(src)
  OBVIOUS
<1>3. SameDecoder(Past(d, src, 1), Past(d0, src, 1)) /\ Len(Past(d, src, 1).out) = Len(d.out) + 1
  BY <1>2, PastSame
<1>4. SameHandled(HandleLast(e, After(src, 1), Past(d, src, 1)),
                  HandleLast(e, After(src, 1), Past(d0, src, 1)), src, d, d0)
  <2>1. PICK past, past0 : past = Past(d, src, 1) /\ past0 = Past(d0, src, 1)
    OBVIOUS
  <2>2. SameDecoder(past, past0) /\ Len(past.out) = Len(d.out) + 1
    BY <1>3, <2>1
  <2>3. SameHandled(HandleLast(e, After(src, 1), past), HandleLast(e, After(src, 1), past0), src, d, d0)
    BY <1>1, <2>2, SameLastBehind
  <2>4. QED
    BY <2>1, <2>3
<1>5. \A x : Copy0F(src, x) = HandleLast(e, After(src, 1), Past(x, src, 1))
  BY <1>1 DEF Copy0F
<1>6. SameHandled(HandleLast(e, After(src, 1), Past(d, src, 1)),
                  HandleLast(e, After(src, 1), Past(d0, src, 1)), src, d, d0)
  BY <1>4
<1>7. QED
  BY <1>5, <1>6

\* Behind a vector prefix of k bytes.
LEMMA BehindVectorPrefix ==
  ASSUME NEW src \in Seq(Byte), Len(src) >= 8, NEW k \in {2, 3, 4}, NEW map, NEW p,
         NEW d, NEW d0, SameDecoder(d, d0)
  PROVE  SameHandled(CopyVexEvexCommon(map, p, After(src, k), Past(d, src, k)),
                     CopyVexEvexCommon(map, p, After(src, k), Past(d0, src, k)), src, d, d0)
<1>1. k \in 0 .. 4 /\ k \in 0 .. Len(src) /\ k <= Len(src)
  OBVIOUS
<1>2. PICK past, past0 : past = Past(d, src, k) /\ past0 = Past(d0, src, k)
  OBVIOUS
<1>3. SameDecoder(past, past0) /\ Len(past.out) = Len(d.out) + k
  BY <1>1, <1>2, PastSame
<1> DEFINE implied(x) == [x EXCEPT !.operand = x.operand \/ p = 1, !.F3 = x.F3 \/ p = 2, !.F2 = x.F2 \/ p = 3]
<1>4. ASSUME NEW x, IsDecoder(x)
      PROVE  implied(x) = [out |-> x.out, at |-> x.at, shift |-> x.shift, operand |-> x.operand \/ p = 1,
                           address |-> x.address, F2 |-> x.F2 \/ p = 3, F3 |-> x.F3 \/ p = 2,
                           segment |-> x.segment]
  <2>1. PICK operand, F3, F2 : operand = (x.operand \/ p = 1) /\ F3 = (x.F3 \/ p = 2) /\ F2 = (x.F2 \/ p = 3)
    OBVIOUS
  <2>2. PICK y : y = [x EXCEPT !.operand = operand]
    OBVIOUS
  <2>3. y = [out |-> x.out, at |-> x.at, shift |-> x.shift, operand |-> operand,
             address |-> x.address, F2 |-> x.F2, F3 |-> x.F3, segment |-> x.segment]
    BY <1>4, <2>2 DEF IsDecoder
  <2>4. PICK z : z = [y EXCEPT !.F3 = F3]
    OBVIOUS
  <2>5. z = [out |-> x.out, at |-> x.at, shift |-> x.shift, operand |-> operand,
             address |-> x.address, F2 |-> x.F2, F3 |-> F3, segment |-> x.segment]
    BY <2>3, <2>4
  <2>6. [z EXCEPT !.F2 = F2] =
          [out |-> x.out, at |-> x.at, shift |-> x.shift, operand |-> operand,
           address |-> x.address, F2 |-> F2, F3 |-> F3, segment |-> x.segment]
    BY <2>5
  <2>7. implied(x) = [x EXCEPT !.operand = operand, !.F3 = F3, !.F2 = F2]
    BY <2>1
  <2>8. [x EXCEPT !.operand = operand, !.F3 = F3, !.F2 = F2] = [z EXCEPT !.F2 = F2]
    BY <2>2, <2>4
  <2>9. QED
    BY <2>1, <2>6, <2>7, <2>8
<1>5. PICK i, i0 : i = implied(past) /\ i0 = implied(past0)
  OBVIOUS
<1>6. SameDecoder(i, i0) /\ i.out = past.out
  BY <1>3, <1>4, <1>5 DEF SameDecoder, IsDecoder
<1>7. Len(i.out) = Len(d.out) + k
  BY <1>3, <1>6
<1>8. PICK rest \in Seq(Byte) : rest = After(src, k) /\ Len(rest) = Len(src) - k
  BY <1>1, RestOf
<1>9. ASSUME NEW copy, NEW copy0, SameLength(copy, copy0, rest, i, i0)
      PROVE  SameHandled(copy, copy0, src, d, d0)
  BY <1>1, <1>6, <1>7, <1>8, <1>9, SameBehind
<1>10. rest \in Seq(Int)
  BY BytesAreInts
<1> HIDE DEF implied
<1>11. /\ CopyVexEvexCommon(map, p, rest, past) =
            CASE map = 1 -> HandleLast(After0F[rest[1]], rest, i)
              [] map \in {2, 5, 6} -> CopyBytes(CopyBytes2Mod, rest, i)
              [] map = 3 -> CopyBytes(CopyBytes2Mod1, rest, i)
              [] OTHER -> Invalid(i)
       /\ CopyVexEvexCommon(map, p, rest, past0) =
            CASE map = 1 -> HandleLast(After0F[rest[1]], rest, i0)
              [] map \in {2, 5, 6} -> CopyBytes(CopyBytes2Mod, rest, i0)
              [] map = 3 -> CopyBytes(CopyBytes2Mod1, rest, i0)
              [] OTHER -> Invalid(i0)
  BY <1>5 DEF CopyVexEvexCommon, implied
<1>12. CASE map = 1
  <2>1. rest[1] \in 0 .. 255
    <3>1. Len(rest) \in Nat /\ Len(src) \in Nat
      OBVIOUS
    <3>2. Len(rest) = Len(src) - k
      BY <1>8
    <3>3. 1 \in 1 .. Len(rest)
      BY <3>1, <3>2
    <3>4. QED
      BY <3>3, ElementOfSeq DEF Byte
  <2>2. CopyingEntry(After0F[rest[1]])
    BY <2>1, After0FCopies
  <2>3. SameLength(HandleLast(After0F[rest[1]], rest, i), HandleLast(After0F[rest[1]], rest, i0), rest, i, i0)
    BY <1>6, <1>10, <2>2, LastLength
  <2>4. /\ CopyVexEvexCommon(map, p, rest, past) = HandleLast(After0F[rest[1]], rest, i)
        /\ CopyVexEvexCommon(map, p, rest, past0) = HandleLast(After0F[rest[1]], rest, i0)
    BY <1>11, <1>12
  <2>5. QED
    BY <1>2, <1>8, <1>9, <2>3, <2>4
<1>13. ASSUME NEW e \in {CopyBytes2Mod, CopyBytes2Mod1},
              CopyVexEvexCommon(map, p, rest, past) = CopyBytes(e, rest, i),
              CopyVexEvexCommon(map, p, rest, past0) = CopyBytes(e, rest, i0)
       PROVE  SameHandled(CopyVexEvexCommon(map, p, After(src, k), Past(d, src, k)),
                          CopyVexEvexCommon(map, p, After(src, k), Past(d0, src, k)), src, d, d0)
  <2>1. e.by = "CopyBytes" /\ CopyingEntry(e)
    <3>1. CopyBytes2Mod.by = "CopyBytes" /\ CopyBytes2Mod1.by = "CopyBytes"
      BY DEF CopyBytes2Mod, CopyBytes2Mod1, CopyBytesEntry
    <3>2. QED
      BY <3>1, EntriesCopy
  <2>2. SameLength(CopyBytes(e, rest, i), CopyBytes(e, rest, i0), rest, i, i0)
    BY <1>6, <1>10, <2>1, CopyBytesLength
  <2>3. QED
    BY <1>2, <1>8, <1>9, <1>13, <2>2
<1>14. CASE map \in {2, 5, 6}
  BY <1>11, <1>13, <1>14
<1>15. CASE map = 3
  BY <1>11, <1>13, <1>15
<1>16. CASE map \notin {1, 2, 3, 5, 6}
  <2>1. CopyVexEvexCommon(map, p, rest, past) = Invalid(i) /\ CopyVexEvexCommon(map, p, rest, past0) = Invalid(i0)
    BY <1>11, <1>16
  <2>2. Takes(Invalid(i), 1, rest, i) /\ Takes(Invalid(i0), 1, rest, i0)
    BY <1>6, InvalidCopy DEF SameDecoder
  <2>3. SameLength(Invalid(i), Invalid(i0), rest, i, i0)
    BY <2>2 DEF SameLength
  <2>4. QED
    BY <1>2, <1>8, <1>9, <2>1, <2>3
<1>17. QED
  BY <1>12, <1>14, <1>15, <1>16

\* LES, LDS and BOUND take a memory operand.
LEMMA MemoryOperandLength ==
  ASSUME NEW src \in Seq(Byte), NEW d, NEW d0, SameDecoder(d, d0)
  PROVE  SameHandled(CopyBytes(CopyBytes2Mod, src, d), CopyBytes(CopyBytes2Mod, src, d0), src, d, d0)
<1>1. CopyBytes2Mod.by = "CopyBytes" /\ CopyingEntry(CopyBytes2Mod)
  <2>1. CopyBytes2Mod.by = "CopyBytes"
    BY DEF CopyBytes2Mod, CopyBytesEntry
  <2>2. QED
    BY <2>1, EntriesCopy
<1>2. src \in Seq(Int)
  BY BytesAreInts
<1>3. SameLength(CopyBytes(CopyBytes2Mod, src, d), CopyBytes(CopyBytes2Mod, src, d0), src, d, d0)
  BY <1>1, <1>2, CopyBytesLength
<1>4. QED
  BY <1>3, SameAtHead

LEMMA VectorCopies ==
  ASSUME NEW src \in Seq(Byte), Len(src) >= 8, NEW d, NEW d0, SameDecoder(d, d0)
  PROVE  /\ SameHandled(CopyVex2(src, d), CopyVex2(src, d0), src, d, d0)
         /\ SameHandled(CopyVex3(src, d), CopyVex3(src, d0), src, d, d0)
         /\ SameHandled(CopyEvex(src, d), CopyEvex(src, d0), src, d, d0)
<1>1. CASE src[2] < \hC0
  <2>1. \A x : /\ CopyVex2(src, x) = CopyBytes(CopyBytes2Mod, src, x)
               /\ CopyVex3(src, x) = CopyBytes(CopyBytes2Mod, src, x)
               /\ CopyEvex(src, x) = CopyBytes(CopyBytes2Mod, src, x)
    BY <1>1 DEF CopyVex2, CopyVex3, CopyEvex
  <2>2. QED
    BY <2>1, MemoryOperandLength
<1>2. CASE ~(src[2] < \hC0)
  <2>1. SameHandled(CopyVex2(src, d), CopyVex2(src, d0), src, d, d0)
    <3>1. \A x : CopyVex2(src, x) = CopyVexEvexCommon(1, src[2] % 4, After(src, 2), Past(x, src, 2))
      BY <1>2 DEF CopyVex2
    <3>2. QED
      BY <3>1, BehindVectorPrefix
  <2>2. SameHandled(CopyVex3(src, d), CopyVex3(src, d0), src, d, d0)
    <3>1. \A x : CopyVex3(src, x) =
                   CopyVexEvexCommon(src[2] % 32, src[3] % 4, After(src, 3), Past(x, src, 3))
      BY <1>2 DEF CopyVex3
    <3>2. QED
      BY <3>1, BehindVectorPrefix
  <2>3. SameHandled(CopyEvex(src, d), CopyEvex(src, d0), src, d, d0)
    <3>1. CASE (src[2] \div 8) % 2 = 1 \/ (src[3] \div 4) % 2 = 0
      <4>1. CopyEvex(src, d) = Invalid(d) /\ CopyEvex(src, d0) = Invalid(d0)
        BY <1>2, <3>1 DEF CopyEvex
      <4>2. Takes(Invalid(d), 1, src, d) /\ Takes(Invalid(d0), 1, src, d0)
        BY InvalidCopy DEF SameDecoder
      <4>3. SameLength(Invalid(d), Invalid(d0), src, d, d0)
        BY <4>2 DEF SameLength
      <4>4. QED
        BY <4>1, <4>3, SameAtHead
    <3>2. CASE ~((src[2] \div 8) % 2 = 1 \/ (src[3] \div 4) % 2 = 0)
      <4>1. \A x : CopyEvex(src, x) =
                     CopyVexEvexCommon(src[2] % 8, src[3] % 4, After(src, 4), Past(x, src, 4))
        BY <1>2, <3>2 DEF CopyEvex
      <4>2. QED
        BY <4>1, BehindVectorPrefix
    <3>3. QED
      BY <3>1, <3>2
  <2>4. QED
    BY <2>1, <2>2, <2>3
<1>3. QED
  BY <1>1, <1>2

LEMMA HandleLength ==
  ASSUME NEW e, CopyingEntry(e), NEW src \in Seq(Byte), Len(src) >= 8,
         NEW d, NEW d0, SameDecoder(d, d0)
  PROVE  SameHandled(Handle(e, src, d), Handle(e, src, d0), src, d, d0)
<1>1. CASE e.by = "Copy0F"
  <2>1. Handle(e, src, d) = Copy0F(src, d) /\ Handle(e, src, d0) = Copy0F(src, d0)
    BY <1>1 DEF Handle
  <2>2. QED
    BY <2>1, ZeroFLength
<1>2. CASE e.by = "CopyVex2"
  <2>1. Handle(e, src, d) = CopyVex2(src, d) /\ Handle(e, src, d0) = CopyVex2(src, d0)
    BY <1>2 DEF Handle
  <2>2. QED
    BY <2>1, VectorCopies
<1>3. CASE e.by = "CopyVex3"
  <2>1. Handle(e, src, d) = CopyVex3(src, d) /\ Handle(e, src, d0) = CopyVex3(src, d0)
    BY <1>3 DEF Handle
  <2>2. QED
    BY <2>1, VectorCopies
<1>4. CASE e.by = "CopyEvex"
  <2>1. Handle(e, src, d) = CopyEvex(src, d) /\ Handle(e, src, d0) = CopyEvex(src, d0)
    BY <1>4 DEF Handle
  <2>2. QED
    BY <2>1, VectorCopies
<1>5. CASE e.by \notin {"Copy0F", "CopyVex2", "CopyVex3", "CopyEvex"}
  <2>1. Handle(e, src, d) = HandleLast(e, src, d) /\ Handle(e, src, d0) = HandleLast(e, src, d0)
    BY <1>5 DEF Handle
  <2>2. src \in Seq(Int)
    BY BytesAreInts
  <2>3. SameLength(HandleLast(e, src, d), HandleLast(e, src, d0), src, d, d0)
    BY <2>2, LastLength
  <2>4. QED
    BY <2>1, <2>3, SameAtHead
<1>6. QED
  BY <1>1, <1>2, <1>3, <1>4, <1>5

Seen(b, n, src) == b \in {src[i] : i \in 1 .. n}

\* The decoder behind the prefixes.
LEMMA PrefixDecoder ==
  ASSUME NEW src \in Seq(Byte), NEW n \in 0 .. Len(src), NEW at, NEW shift
  PROVE  CopyPrefixes(n, src, at, shift) =
           [out |-> <<>> \o SubSeq(src, 1, n), at |-> at + n, shift |-> shift,
            operand |-> Seen(\h66, n, src), address |-> Seen(\h67, n, src),
            F2 |-> Seen(\hF2, n, src), F3 |-> Seen(\hF3, n, src),
            segment |-> CopyPrefixes(n, src, at, shift).segment]
<1> DEFINE seen == {src[i] : i \in 1 .. n}
           segments == {i \in 1 .. n : OneByte[src[i]].by = "CopyBytesSegment"}
<1>1. PICK s : s = {src[i] : i \in {j \in segments : \A k \in segments : k <= j}}
  OBVIOUS
<1>2. PICK d : d = Past(Decoder(at, shift), src, n)
  OBVIOUS
<1>3. d = [out |-> <<>> \o SubSeq(src, 1, n), at |-> at + n, shift |-> shift, operand |-> FALSE,
           address |-> FALSE, F2 |-> FALSE, F3 |-> FALSE, segment |-> {}]
  <2>1. PICK e : e = Decoder(at, shift)
    OBVIOUS
  <2>2. /\ e.out = <<>> /\ e.at = at /\ e.shift = shift /\ e.operand = FALSE /\ e.address = FALSE
        /\ e.F2 = FALSE /\ e.F3 = FALSE /\ e.segment = {}
        /\ IsDecoder(e)
    BY <2>1 DEF Decoder, IsDecoder
  <2>3. d = [out |-> e.out \o SubSeq(src, 1, n), at |-> e.at + n, shift |-> e.shift,
             operand |-> e.operand, address |-> e.address, F2 |-> e.F2, F3 |-> e.F3,
             segment |-> e.segment]
    BY <1>2, <2>1, <2>2, PastIs
  <2>4. QED
    BY <2>2, <2>3
<1>4. PICK operand, address, F2, F3 :
        /\ operand = (\h66 \in seen) /\ address = (\h67 \in seen)
        /\ F2 = (\hF2 \in seen) /\ F3 = (\hF3 \in seen)
  OBVIOUS
<1>5. CopyPrefixes(n, src, at, shift) =
        [d EXCEPT !.operand = operand, !.address = address, !.F2 = F2, !.F3 = F3, !.segment = s]
  BY <1>1, <1>2, <1>4 DEF CopyPrefixes
<1> HIDE DEF seen, segments
<1>6. PICK d1 : d1 = [d EXCEPT !.operand = operand]
  OBVIOUS
<1>7. PICK d2 : d2 = [d1 EXCEPT !.address = address]
  OBVIOUS
<1>8. PICK d3 : d3 = [d2 EXCEPT !.F2 = F2]
  OBVIOUS
<1>9. PICK d4 : d4 = [d3 EXCEPT !.F3 = F3]
  OBVIOUS
<1>10. CopyPrefixes(n, src, at, shift) = [d4 EXCEPT !.segment = s]
  BY <1>5, <1>6, <1>7, <1>8, <1>9
<1>11. PICK out, a : out = <<>> \o SubSeq(src, 1, n) /\ a = at + n
  OBVIOUS
<1>12. d1 = [out |-> out, at |-> a, shift |-> shift, operand |-> operand,
             address |-> FALSE, F2 |-> FALSE, F3 |-> FALSE, segment |-> {}]
  BY <1>3, <1>6, <1>11
<1>13. d2 = [out |-> out, at |-> a, shift |-> shift, operand |-> operand,
             address |-> address, F2 |-> FALSE, F3 |-> FALSE, segment |-> {}]
  BY <1>7, <1>12
<1>14. d3 = [out |-> out, at |-> a, shift |-> shift, operand |-> operand,
             address |-> address, F2 |-> F2, F3 |-> FALSE, segment |-> {}]
  BY <1>8, <1>13
<1>15. d4 = [out |-> out, at |-> a, shift |-> shift, operand |-> operand,
             address |-> address, F2 |-> F2, F3 |-> F3, segment |-> {}]
  BY <1>9, <1>14
<1>16. CopyPrefixes(n, src, at, shift) =
         [out |-> out, at |-> a, shift |-> shift, operand |-> operand,
          address |-> address, F2 |-> F2, F3 |-> F3, segment |-> s]
  BY <1>10, <1>15
<1>17. CopyPrefixes(n, src, at, shift).segment = s
  BY <1>16
<1>18. QED
  BY <1>4, <1>11, <1>16, <1>17 DEF seen, Seen

LEMMA PrefixesSame ==
  ASSUME NEW src \in Seq(Byte), NEW n \in 0 .. Len(src), NEW at, NEW shift \in Int
  PROVE  /\ SameDecoder(CopyPrefixes(n, src, at, shift), CopyPrefixes(n, src, 0, 0))
         /\ Len(CopyPrefixes(n, src, at, shift).out) = n
<1>1. PICK d, d0 : d = CopyPrefixes(n, src, at, shift) /\ d0 = CopyPrefixes(n, src, 0, 0)
  OBVIOUS
<1>2. PICK operand, address, F2, F3 :
        /\ operand = Seen(\h66, n, src) /\ address = Seen(\h67, n, src)
        /\ F2 = Seen(\hF2, n, src) /\ F3 = Seen(\hF3, n, src)
  OBVIOUS
<1>3. PICK out \in Seq(Int) : out = <<>> \o SubSeq(src, 1, n) /\ Len(out) = n
  <2>1. src \in Seq(Int)
    BY BytesAreInts
  <2>2. PICK head \in Seq(Int) : head = SubSeq(src, 1, n) /\ Len(head) = n
    BY <2>1, HeadOf
  <2>3. <<>> \o head = head
    OBVIOUS
  <2>4. QED
    BY <2>2, <2>3
<1>4. ASSUME NEW a, NEW s
      PROVE  CopyPrefixes(n, src, a, s) =
               [out |-> out, at |-> a + n, shift |-> s, operand |-> operand, address |-> address,
                F2 |-> F2, F3 |-> F3, segment |-> CopyPrefixes(n, src, a, s).segment]
  BY <1>2, <1>3, PrefixDecoder
<1>5. /\ d = [out |-> out, at |-> at + n, shift |-> shift, operand |-> operand, address |-> address,
              F2 |-> F2, F3 |-> F3, segment |-> d.segment]
      /\ d0 = [out |-> out, at |-> 0 + n, shift |-> 0, operand |-> operand, address |-> address,
               F2 |-> F2, F3 |-> F3, segment |-> d0.segment]
  BY <1>1, <1>4
<1>6. /\ d.out = out /\ d.at = at + n /\ d.shift = shift /\ d.operand = operand
      /\ d.address = address /\ d.F2 = F2 /\ d.F3 = F3
  BY <1>5
<1>7. /\ d0.out = out /\ d0.at = 0 + n /\ d0.shift = 0 /\ d0.operand = operand
      /\ d0.address = address /\ d0.F2 = F2 /\ d0.F3 = F3
  BY <1>5
<1>8. IsDecoder(d) /\ IsDecoder(d0)
  BY <1>4, <1>5, <1>6, <1>7 DEF IsDecoder
<1>9. QED
  BY <1>1, <1>3, <1>6, <1>7, <1>8 DEF SameDecoder

\* The copy of an instruction of at most 13 bytes, two of them prefixes.
LEMMA InstructionCopy ==
  ASSUME NEW src \in Seq(Byte), Len(src) >= 13, PrefixCount(src) \in 0 .. 2,
         src[PrefixCount(src) + 1] \notin 224 .. 227, CopyInstruction(src, 0, 0).used <= 13,
         NEW at, NEW shift \in Int,
         NEW copy, copy = CopyInstruction(src, at, shift)
  PROVE  /\ copy.used \in 1 .. 13 /\ copy.used = CopyInstruction(src, 0, 0).used
         /\ copy.extra \in 0 .. 2 * copy.used /\ copy.used + copy.extra <= 13
         /\ copy.out \in Seq(Int) /\ Len(copy.out) <= copy.used + copy.extra
<1>1. PICK k \in 0 .. 2 : k = PrefixCount(src)
  OBVIOUS
<1>2. k \in 0 .. Len(src) /\ k + 1 \in 1 .. Len(src)
  OBVIOUS
<1>3. PICK rest \in Seq(Byte) : rest = After(src, k) /\ Len(rest) = Len(src) - k
  <2>1. After(src, k) \in Seq(Byte) /\ Len(After(src, k)) = Len(src) - k
    BY <1>2, RestOf
  <2>2. QED
    BY <2>1
<1>4. PICK e : e = OneByte[src[k + 1]] /\ CopyingEntry(e)
  <2>1. src[k + 1] \in 0 .. 255
    BY <1>2, ElementOfSeq DEF Byte
  <2>2. src[k + 1] \notin 224 .. 227
    BY <1>1
  <2>3. src[k + 1] \in MovableOpcodes
    BY <2>1, <2>2 DEF MovableOpcodes
  <2>4. CopyingEntry(OneByte[src[k + 1]])
    BY <2>3, OneByteCopies
  <2>5. QED
    BY <2>4
<1>5. PICK d, d0 : d = CopyPrefixes(k, src, at, shift) /\ d0 = CopyPrefixes(k, src, 0, 0)
  OBVIOUS
<1>6. SameDecoder(d, d0) /\ Len(d.out) = k
  BY <1>2, <1>5, PrefixesSame
<1>7. Len(d0.out) = k
  BY <1>6 DEF SameDecoder
<1>8. PICK copy0 : copy0 = CopyInstruction(src, 0, 0)
  OBVIOUS
<1>9. copy = Handle(e, rest, d) /\ copy0 = Handle(e, rest, d0)
  BY <1>1, <1>3, <1>4, <1>5, <1>8 DEF CopyInstruction
<1>10. Len(rest) >= 8
  BY <1>3
<1>11. SameHandled(Handle(e, rest, d), Handle(e, rest, d0), rest, d, d0)
  BY <1>4, <1>6, <1>10, HandleLength
<1>12. PICK n \in 1 .. 18 : Handled(copy, n, rest, d) /\ Handled(copy0, n, rest, d0)
  BY <1>9, <1>11 DEF SameHandled
<1>13. copy.used = k + n /\ copy0.used = k + n /\ copy.extra \in 0 .. 4
       /\ (copy.extra > 0 => n \in 2 .. 7)
  BY <1>6, <1>7, <1>12 DEF Handled
<1>14. k + n <= 13
  BY <1>8, <1>13
<1>15. n <= Len(rest)
  BY <1>3, <1>14
<1>16. copy.out \in Seq(Int) /\ Len(copy.out) <= copy.used + copy.extra
  BY <1>12, <1>15 DEF Handled
<1>17. PICK extra \in 0 .. 4 : extra = copy.extra /\ (extra > 0 => n \in 2 .. 7)
  BY <1>13
<1>18. extra \in 0 .. 2 * (k + n) /\ k + n + extra <= 13 /\ k + n \in 1 .. 13
  <2>1. CASE extra = 0
    BY <1>14, <2>1
  <2>2. CASE extra > 0
    <3>1. n \in 2 .. 7
      BY <1>17, <2>2
    <3>2. QED
      BY <3>1
  <2>3. QED
    BY <2>1, <2>2
<1>19. QED
  BY <1>8, <1>13, <1>16, <1>17, <1>18

-----------------------------------------------------------------------------
\* No byte around the trampoline is written.
IntactAround(bytes) ==
  DOMAIN bytes = Memory /\ \A i \in Memory : i \notin 0 .. CodeSize - 1 => bytes[i] = Break

TrampolineInv ==
  /\ target \in Functions /\ distance \in Distances
  /\ IntactAround(rbCode)
  /\ cbTarget \in 0 .. RestoreSize
  /\ step = "copying" =>
       /\ cbCode \in 0 .. 3 * cbTarget
       /\ \E starts \in SUBSET (0 .. SIZE_OF_JMP - 1) :
            InstructionsAt(target, starts) /\ cbTarget \in starts
  /\ step = "filling" => cbTarget \in 0 .. 17 /\ cbCode \in 0 .. 25

\* What is written behind 0 and before 30 stays inside.
LEMMA WriteInside ==
  ASSUME NEW before, IntactAround(before), NEW offset \in 0 .. 25, NEW bytes \in Seq(Int),
         offset + Len(bytes) <= 30
  PROVE  IntactAround(Write(before, offset, bytes))
<1> DEFINE written == Write(before, offset, bytes)
<1>1. written = [i \in Memory |->
                   IF i - offset + 1 \in DOMAIN bytes THEN bytes[i - offset + 1] ELSE before[i]]
  BY DEF Write, IntactAround
<1> HIDE DEF written
<1>2. ASSUME NEW i \in Memory, i \notin 0 .. CodeSize - 1
      PROVE  written[i] = Break
  <2>1. i - offset + 1 \notin 1 .. Len(bytes)
    BY <1>2 DEF Memory, CodeSize
  <2>2. written[i] = before[i]
    BY <1>1, <2>1
  <2>3. QED
    BY <1>2, <2>2 DEF IntactAround
<1>3. IntactAround(written)
  BY <1>1, <1>2 DEF IntactAround
<1>4. QED
  BY <1>3 DEF written

LEMMA FillerSize == ASSUME NEW src PROVE CodeFiller(src) \in 0 .. 11
<1> DEFINE nops == {n \in DOMAIN Nops : StartsWith(src, Nops[n])}
<1>1. DOMAIN Nops = 1 .. 11
  BY DEF Nops
<1>2. nops # {} => (CHOOSE n \in nops : TRUE) \in 1 .. 11
  <2>1. nops # {} => (CHOOSE n \in nops : TRUE) \in nops
    OBVIOUS
  <2>2. QED
    BY <1>1, <2>1
<1>3. CodeFiller(src) = IF nops # {} THEN CHOOSE n \in nops : TRUE ELSE IF src[1] = Break THEN 1 ELSE 0
  BY DEF CodeFiller
<1> HIDE DEF nops
<1>4. QED
  BY <1>2, <1>3

LEMMA JumpSize ==
  ASSUME NEW from \in Int, NEW to \in Int
  PROVE  Jump(from, to) \in Seq(Int) /\ Len(Jump(from, to)) = 5
<1>1. PICK n \in Int : n = to - (from + SIZE_OF_JMP)
  BY DEF SIZE_OF_JMP
<1>2. PICK offset \in Seq(Int) : offset = OffsetBytes(n, 4) /\ Len(offset) = 4
  BY OffsetsAreInts
<1>3. PICK opcode \in Seq(Int) : opcode = <<\hE9>> /\ Len(opcode) = 1
  <2>1. <<\hE9>> \in Seq(Int) /\ Len(<<\hE9>>) = 1
    OBVIOUS
  <2>2. QED
    BY <2>1
<1>4. Jump(from, to) = opcode \o offset
  BY <1>1, <1>2, <1>3 DEF Jump
<1>5. opcode \o offset \in Seq(Int) /\ Len(opcode \o offset) = Len(opcode) + Len(offset)
  BY BothOut
<1>6. Len(opcode) = 1 /\ Len(offset) = 4
  BY <1>2, <1>3
<1>7. QED
  BY <1>4, <1>5, <1>6

LEMMA TrampolineStarts == ASSUME OrdinaryCode, AttachInit PROVE TrampolineInv
<1>1. PICK starts \in SUBSET (0 .. SIZE_OF_JMP - 1) : InstructionsAt(target, starts)
  BY DEF OrdinaryCode, AttachInit
<1>2. 0 \in starts
  BY <1>1 DEF InstructionsAt
<1>3. \E s \in SUBSET (0 .. SIZE_OF_JMP - 1) : InstructionsAt(target, s) /\ cbTarget \in s
  BY <1>1, <1>2 DEF AttachInit
<1>4. cbTarget \in 0 .. RestoreSize /\ cbCode \in 0 .. 3 * cbTarget
  BY DEF AttachInit, RestoreSize
<1>5. /\ target \in Functions /\ distance \in Distances /\ step = "copying"
      /\ rbCode = [i \in Memory |-> Break]
  BY DEF AttachInit
<1>6. IntactAround(rbCode)
  BY <1>5 DEF IntactAround
<1>7. QED
  BY <1>3, <1>4, <1>5, <1>6 DEF TrampolineInv

LEMMA CopyNextHolds ==
  ASSUME OrdinaryCode, TrampolineInv, CopyNext PROVE TrampolineInv'
<1>1. /\ step = "copying" /\ target' = target /\ distance' = distance
      /\ target \in Functions /\ distance \in Distances
  BY DEF CopyNext, TrampolineInv
<1>2. PICK starts \in SUBSET (0 .. SIZE_OF_JMP - 1) :
        InstructionsAt(target, starts) /\ cbTarget \in starts
  BY <1>1 DEF TrampolineInv
<1>3. cbTarget \in 0 .. 4 /\ cbCode \in 0 .. 3 * cbTarget /\ distance \in Int
  BY <1>1, <1>2 DEF TrampolineInv, SIZE_OF_JMP, OrdinaryCode
<1>4. target \in Seq(Byte) /\ Len(target) >= 17
  BY <1>1 DEF OrdinaryCode, SIZE_OF_JMP, Byte
<1>5. Rest \in Seq(Byte) /\ Len(Rest) >= 13
  BY <1>3, <1>4 DEF Rest
<1>6. PICK src \in Seq(Byte) : src = Rest /\ Len(src) >= 13
  BY <1>5
<1>7. PICK copy : copy = CopyInstruction(src, cbTarget, distance + cbCode - cbTarget)
  OBVIOUS
<1>8. PICK used0 : used0 = CopyInstruction(src, 0, 0).used
  OBVIOUS
<1>9. \A n \in starts :
        LET rest == SubSeq(target, n + 1, Len(target))
        IN  /\ CopyInstruction(rest, 0, 0).used <= 13
            /\ PrefixCount(rest) \in 0 .. 2 /\ rest[PrefixCount(rest) + 1] \notin 224 .. 227
            /\ n + CopyInstruction(rest, 0, 0).used < 5 =>
                 EndsFunction(rest) \/ n + CopyInstruction(rest, 0, 0).used \in starts
  BY <1>2 DEF InstructionsAt, SIZE_OF_JMP
<1>10. /\ used0 <= 13 /\ PrefixCount(src) \in 0 .. 2 /\ src[PrefixCount(src) + 1] \notin 224 .. 227
       /\ cbTarget + used0 < 5 => EndsFunction(src) \/ cbTarget + used0 \in starts
  <2>1. cbTarget \in starts /\ src = SubSeq(target, cbTarget + 1, Len(target))
    BY <1>2, <1>6 DEF Rest
  <2>2. QED
    BY <1>8, <1>9, <2>1
<1>11. distance + cbCode - cbTarget \in Int
  BY <1>3
<1>12. /\ copy.used \in 1 .. 13 /\ copy.used = used0
       /\ copy.extra \in 0 .. 2 * copy.used /\ copy.used + copy.extra <= 13
       /\ copy.out \in Seq(Int) /\ Len(copy.out) <= copy.used + copy.extra
  <2>1. CopyInstruction(src, 0, 0).used <= 13
    BY <1>8, <1>10
  <2>2. QED
    BY <1>6, <1>7, <1>8, <1>10, <1>11, <2>1, InstructionCopy
<1>13. PICK used \in 1 .. 13 : used = copy.used
  BY <1>12
<1>14. PICK extra \in 0 .. 2 * used : extra = copy.extra
  BY <1>12, <1>13
<1>15. PICK out \in Seq(Int) : out = copy.out
  BY <1>12
<1>16. used + extra <= 13 /\ Len(out) <= used + extra /\ used = used0
  BY <1>12, <1>13, <1>14, <1>15
<1>17. /\ rbCode' = Write(rbCode, cbCode, out)
       /\ cbTarget' = cbTarget + used /\ cbCode' = cbCode + used + extra
  BY <1>6, <1>7, <1>13, <1>14, <1>15 DEF CopyNext
<1>18. IntactAround(rbCode')
  <2>1. cbCode \in 0 .. 25 /\ cbCode + Len(out) <= 30
    BY <1>3, <1>16
  <2>2. IntactAround(rbCode)
    BY DEF TrampolineInv
  <2>3. IntactAround(Write(rbCode, cbCode, out))
    BY <2>1, <2>2, WriteInside
  <2>4. QED
    BY <1>17, <2>3
<1>19. cbTarget' \in 0 .. 17 /\ cbCode' \in 0 .. 25 /\ cbCode' \in 0 .. 3 * cbTarget'
  BY <1>3, <1>16, <1>17
<1>20. step' = "copying" => cbTarget' \in starts
  <2>1. step' = "copying" => cbTarget' < 5 /\ ~EndsFunction(Rest)
    BY <1>19 DEF CopyNext, SIZE_OF_JMP
  <2>2. QED
    BY <1>6, <1>10, <1>16, <1>17, <2>1
<1>21. step' = "copying" =>
         \E s \in SUBSET (0 .. SIZE_OF_JMP - 1) : InstructionsAt(target', s) /\ cbTarget' \in s
  BY <1>1, <1>2, <1>20
<1>22. cbTarget' \in 0 .. RestoreSize
  BY <1>19 DEF RestoreSize
<1>23. QED
  BY <1>1, <1>18, <1>19, <1>21, <1>22 DEF TrampolineInv

LEMMA FillingHolds ==
  ASSUME OrdinaryCode, TrampolineInv, ConsumeFiller \/ TooFewInstructions \/ FinishTrampoline
  PROVE  TrampolineInv'
<1>1. /\ step = "filling" /\ target' = target /\ distance' = distance
      /\ target \in Functions /\ distance \in Distances
  BY DEF ConsumeFiller, TooFewInstructions, FinishTrampoline, TrampolineInv
<1>2. /\ cbTarget \in 0 .. 17 /\ cbCode \in 0 .. 25 /\ distance \in Int
      /\ IntactAround(rbCode)
  BY <1>1 DEF TrampolineInv, OrdinaryCode
<1>3. CASE ConsumeFiller
  <2>1. PICK filler \in 0 .. 11 : filler = CodeFiller(Rest)
    BY FillerSize
  <2>2. /\ cbTarget < 5 /\ cbTarget' = cbTarget + filler
        /\ step' = step /\ rbCode' = rbCode /\ cbCode' = cbCode
    BY <1>3, <2>1 DEF ConsumeFiller, SIZE_OF_JMP
  <2>3. cbTarget' \in 0 .. 17 /\ cbTarget' \in 0 .. RestoreSize
    BY <1>2, <2>2 DEF RestoreSize
  <2>4. QED
    BY <1>1, <1>2, <2>2, <2>3 DEF TrampolineInv
<1>4. CASE TooFewInstructions
  <2>1. step' = "attached" /\ rbCode' = rbCode /\ cbTarget' = cbTarget /\ cbCode' = cbCode
    BY <1>4 DEF TooFewInstructions
  <2>2. QED
    BY <1>1, <1>2, <2>1 DEF TrampolineInv
<1>5. CASE FinishTrampoline
  <2>1. step' = "attached" /\ cbTarget' = cbTarget /\ cbCode' = cbCode
    BY <1>5 DEF FinishTrampoline
  <2>2. PICK bytes \in Seq(Int) : bytes = Jump(distance + cbCode, cbTarget) /\ Len(bytes) = 5
    <3>1. distance + cbCode \in Int /\ cbTarget \in Int
      BY <1>2
    <3>2. QED
      BY <3>1, JumpSize
  <2>3. cbCode + Len(bytes) <= 30
    <3>1. Len(bytes) = 5
      BY <2>2
    <3>2. QED
      BY <1>2, <3>1
  <2>4. IntactAround(Write(rbCode, cbCode, bytes))
    BY <1>2, <2>3, WriteInside
  <2>5. \/ rbCode' = rbCode
        \/ rbCode' = [i \in Memory |->
             IF i \in cbCode + SIZE_OF_JMP .. CodeSize - 1 THEN Break
             ELSE Write(rbCode, cbCode, bytes)[i]]
    BY <1>5, <2>2 DEF FinishTrampoline
  <2>6. IntactAround(rbCode')
    BY <1>2, <2>4, <2>5 DEF IntactAround
  <2>7. QED
    BY <1>1, <1>2, <2>1, <2>6 DEF TrampolineInv
<1>6. QED
  BY <1>3, <1>4, <1>5

\* For code made of ordinary instructions, nothing is written outside the
\* trampoline, and what is taken fits rbRestore, although DetourAttachEx
\* checks only the bytes taken, and only after it copied them: at most 4 bytes
\* are left when another instruction is copied, and each byte taken became
\* at most three.
THEOREM TrampolineHolds == OrdinaryCode => (AttachSpec => []TrampolineHoldsAll)
<1> SUFFICES ASSUME OrdinaryCode PROVE AttachSpec => []TrampolineHoldsAll
  OBVIOUS
<1>1. AttachInit => TrampolineInv
  BY TrampolineStarts
<1>2. TrampolineInv /\ [AttachNext]_attachVars => TrampolineInv'
  <2> SUFFICES ASSUME TrampolineInv, [AttachNext]_attachVars PROVE TrampolineInv'
    OBVIOUS
  <2>1. CASE CopyNext
    BY <2>1, CopyNextHolds
  <2>2. CASE ConsumeFiller \/ TooFewInstructions \/ FinishTrampoline
    BY <2>2, FillingHolds
  <2>3. CASE UNCHANGED attachVars
    BY <2>3 DEF TrampolineInv, attachVars
  <2>4. QED
    BY <2>1, <2>2, <2>3 DEF AttachNext
<1>3. TrampolineInv => TrampolineHoldsAll
  BY DEF TrampolineInv, TrampolineHoldsAll, RestoreSize, IntactAround
<1>4. QED
  BY <1>1, <1>2, <1>3, PTL DEF AttachSpec
=============================================================================
