--------------------------- MODULE ReleasePublisher ---------------------------
(***************************************************************************)
(* Publication of a built DLL as a GitHub release                          *)
(* (publish-client-patch-release.sh, run by the distribution workflow):    *)
(* number, draft, verification, publication and verification again.  Each  *)
(* command of `gh` is a step.  The workflow's concurrency group lets one   *)
(* run go at a time; a run may die at any step, its call may take effect   *)
(* and its answer be lost, and a draft it created stays.                   *)
(*                                                                         *)
(* GitHub is external: several drafts may carry one tag, which exists once *)
(* one of them is published; a second release under a published tag is     *)
(* refused.  Which of the releases of a tag gh finds is not said, only     *)
(* that it is the same one while they stay the same.                       *)
(***************************************************************************)
EXTENDS Integers, FiniteSetsExt

CONSTANTS
  MinimumRelease,  \* minimum_release_number (4 in the code)
  ReleaseLimit,    \* 2147483647 in the code
  GitCommits,      \* commits of the default branch
  NoCommit,
  MaxRuns          \* bound of the runs

ASSUME PublisherConstants ==
  /\ MinimumRelease \in Nat \ {0} /\ ReleaseLimit \in Nat /\ MaxRuns \in Nat
  /\ NoCommit \notin GitCommits

VARIABLES
  releases,   \* what GitHub holds, a set of [id, number, target, asset, draft, prerelease]
  tags,       \* [number -> commit]
  preferred,  \* which of several releases of one tag gh finds
  job,        \* the script's run
  builds,     \* runs so far; a run's DLL and its draft are known by this number
  shipped     \* history: what a run published, with the DLL and commit it was for

publisherVars == <<releases, tags, preferred, job, builds, shipped>>

ReleaseNumbers == MinimumRelease .. ReleaseLimit
NextRelease == 0   \* no --release-number: the next free one
NoAsset == 0   \* missing, of another size or with another digest

NoJob == [step |-> "none", request |-> NextRelease, number |-> 0, commit |-> NoCommit,
          prerelease |-> FALSE, found |-> 0]
JobAt(step) == job.step = step
JobGoto(step) == job' = [job EXCEPT !.step = step]

\* The release gh answers with when it is asked for a tag.
Named(number) == {r.id : r \in {r \in releases : r.number = number}}
FoundByTag(number) == IF preferred = "oldest" THEN Min(Named(number)) ELSE Max(Named(number))
Numbered(id) == CHOOSE r \in releases : r.id = id

-----------------------------------------------------------------------------
\* A dispatch of the workflow, once the options are parsed and the packaged
\* DLL is inspected: all of that fails without any effect.
Dispatch(request, commit, prerelease) ==
  /\ JobAt("none") /\ builds < MaxRuns
  /\ builds' = builds + 1
  /\ job' = [NoJob EXCEPT !.step = "list", !.request = request, !.commit = commit,
                          !.prerelease = prerelease]
  /\ UNCHANGED <<releases, tags, preferred, shipped>>

\* A check that fails, a call whose error ends the script, the job's time-out.
StopRun ==
  /\ ~JobAt("none")
  /\ job' = NoJob
  /\ UNCHANGED <<releases, tags, preferred, builds, shipped>>

ListReleases ==
  LET max_release == Max({MinimumRelease - 1} \cup {r.number : r \in releases}) IN
  /\ JobAt("list")
  /\ \/ job.request # NextRelease
        /\ job' = [job EXCEPT !.step = "view", !.number = job.request]
     \/ /\ job.request = NextRelease /\ max_release < ReleaseLimit
        /\ job' = [job EXCEPT !.step = "view", !.number = max_release + 1]
  /\ UNCHANGED <<releases, tags, preferred, builds, shipped>>

\* The two looks for an existing release and tag.  A call that fails for
\* another reason is taken for "there is none".
CheckFree ==
  /\ \/ /\ JobAt("view")
        /\ \E answered \in BOOLEAN : answered => Named(job.number) = {}
        /\ JobGoto("reftag")
     \/ /\ JobAt("reftag")
        /\ \E answered \in BOOLEAN : answered => tags[job.number] = NoCommit
        /\ JobGoto("create")
  /\ UNCHANGED <<releases, tags, preferred, builds, shipped>>

\* gh creates the draft and uploads the file; it may fail after the first.
CreateDraft ==
  /\ JobAt("create")
  /\ \E asset \in {builds, NoAsset} :
       releases' = releases \cup {[id |-> builds, number |-> job.number, target |-> job.commit,
                                   asset |-> asset, draft |-> TRUE, prerelease |-> job.prerelease]}
  /\ JobGoto("resolve") \/ job' = NoJob
  /\ UNCHANGED <<tags, preferred, builds, shipped>>

\* The draft's id, by its tag; it must be for the built commit.
ResolveDraft ==
  /\ JobAt("resolve")
  /\ Numbered(FoundByTag(job.number)).target = job.commit
  /\ job' = [job EXCEPT !.step = "state", !.found = FoundByTag(job.number)]
  /\ UNCHANGED <<releases, tags, preferred, builds, shipped>>

\* Deliberate fault, used by no specification: size and digest are not compared.
InspectStateOnly ==
  /\ \/ /\ JobAt("state")
        /\ Numbered(job.found).draft /\ Numbered(job.found).prerelease = job.prerelease
        /\ JobGoto("asset")
     \/ JobAt("asset") /\ JobGoto("publish")
  /\ UNCHANGED <<releases, tags, preferred, builds, shipped>>

InspectDraft ==
  /\ \/ /\ JobAt("state")
        /\ Numbered(job.found).draft /\ Numbered(job.found).prerelease = job.prerelease
        /\ JobGoto("asset")
     \/ /\ JobAt("asset")
        /\ Numbered(job.found).asset = builds
        /\ JobGoto("publish")
  /\ UNCHANGED <<releases, tags, preferred, builds, shipped>>

\* By its tag again; GitHub sets the tag unless it is there already.
PublishDraft ==
  LET id == FoundByTag(job.number) IN
  /\ JobAt("publish")
  /\ \A r \in releases : r.number = job.number /\ r.id # id => r.draft
  /\ releases' = {[r EXCEPT !.draft = @ /\ r.id # id] : r \in releases}
  /\ tags' = [tags EXCEPT ![job.number] = IF @ = NoCommit THEN Numbered(id).target ELSE @]
  /\ shipped' = shipped \cup {[release |-> Numbered(id), dll |-> builds, commit |-> job.commit,
                               prerelease |-> job.prerelease]}
  /\ JobGoto("tagged") \/ job' = NoJob
  /\ UNCHANGED <<preferred, builds>>

\* The tag, and the release once more.
VerifyPublished ==
  /\ \/ /\ JobAt("tagged")
        /\ tags[job.number] = job.commit
        /\ JobGoto("published")
     \/ /\ JobAt("published")
        /\ LET r == Numbered(FoundByTag(job.number))
           IN  ~r.draft /\ r.prerelease = job.prerelease
        /\ JobGoto("verified")
  /\ UNCHANGED <<releases, tags, preferred, builds, shipped>>

\* Maintainers: a tag may be pushed at any time; a draft that stayed is
\* published, or a release removed, between runs.
PushTag(number, commit) ==
  /\ tags[number] = NoCommit
  /\ tags' = [tags EXCEPT ![number] = commit]
  /\ UNCHANGED <<releases, preferred, job, builds, shipped>>

TidyUp(r) ==
  /\ JobAt("none")
  /\ \/ releases' = releases \ {r} /\ UNCHANGED tags
     \/ /\ \A q \in releases : q.number = r.number => q.draft
        /\ releases' = (releases \ {r}) \cup {[r EXCEPT !.draft = FALSE]}
        /\ tags' = [tags EXCEPT ![r.number] = IF @ = NoCommit THEN r.target ELSE @]
  /\ UNCHANGED <<preferred, job, builds, shipped>>

PublisherInit ==
  /\ releases = {} /\ tags = [n \in ReleaseNumbers |-> NoCommit]
  /\ preferred \in {"oldest", "newest"}
  /\ job = NoJob /\ builds = 0 /\ shipped = {}

PublisherNext ==
  \/ \E request \in ReleaseNumbers \cup {NextRelease}, commit \in GitCommits, prerelease \in BOOLEAN :
       Dispatch(request, commit, prerelease)
  \/ StopRun \/ ListReleases \/ CheckFree \/ CreateDraft \/ ResolveDraft \/ InspectDraft
  \/ PublishDraft \/ VerifyPublished
  \/ \E number \in ReleaseNumbers, commit \in GitCommits : PushTag(number, commit)
  \/ \E r \in releases : TidyUp(r)

PublisherSpec == PublisherInit /\ [][PublisherNext]_publisherVars

-----------------------------------------------------------------------------
\* "Publishes only the already packaged release asset": whatever drafts
\* earlier runs left under the same number, and whichever gh finds, a run
\* publishes the file it built, for the commit and of the kind asked for; and
\* when it says "Published and verified", that release is public under a tag
\* that points at the built commit.
PublishedIsVerified ==
  /\ \A s \in shipped :
       /\ s.release.asset = s.dll /\ s.release.target = s.commit
       /\ s.release.draft /\ s.release.prerelease = s.prerelease
  /\ JobAt("verified") =>
       /\ tags[job.number] = job.commit
       /\ \E r \in releases : r.number = job.number /\ ~r.draft /\ r.asset = builds
=============================================================================
