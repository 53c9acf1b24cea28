------------------------------- MODULE FetchPrs -------------------------------
(***************************************************************************)
(* Stage 1, step B: the fetch-prs and resume modes of main.py over the     *)
(* Stage 1 graph (graph.py) fetch_prs -> human_review.  One CLI process    *)
(* runs at a time; it may be killed, or die of an exception, between any   *)
(* two writes, and the operator starts another one.                        *)
(*                                                                         *)
(* What survives a process: the output file (prs_snapshot.json), its       *)
(* progress sidecar, the LangGraph checkpoint of every thread id and the   *)
(* operator's exclusion list.  Each file is replaced atomically (temporary *)
(* file, fsync, os.replace), so a write is one step.                       *)
(*                                                                         *)
(* Simplifications.  A PR stands for its whole record and for its pr key   *)
(* (repo#number).  A list of PR records is the bag of its entries: the     *)
(* order of a snapshot is never tested.  An absent output file and "[]"    *)
(* load alike.  One input and one output path.  The configuration          *)
(* fingerprint is the configuration itself.                                *)
(***************************************************************************)
EXTENDS Naturals, Sequences, FiniteSets

CONSTANTS Repos,         \* repositories of repos_snapshot.json ...
          RepoList,      \* ... in its order
          PRs,           \* merged pull requests
          ScanKey,       \* ScanKey[p]: repo@head_sha
          Views,         \* Views[r]: what list_prs may find for r, latest first
          Matching,      \* PRs whose files pass the filter
          Gone,          \* PRs whose files GitHub may stop serving
          Configs,       \* [max |-> max_prs_per_repo, target |-> target_items]
          LegacyTarget,  \* the old default of target_items (300)
          Threads,       \* thread ids the operator can name
          Reviews,       \* the uses of --review: a subset of BOOLEAN
          AllowReuse,    \* may fetch-prs be given a thread id already used?
          AllowResume,   \* may the operator use --mode resume?
          MaxCrashes,    \* bound: processes that die
          MaxEdits,      \* bound: edits of the exclusion list or sidecar
          MaxList        \* bound: entries in the list of a reused thread

Unbounded == 0           \* target_items = None

ASSUME PRsFinite == IsFiniteSet(PRs)
ASSUME ListingTypes ==
    /\ RepoList \in Seq(Repos)
    /\ Views \in [Repos -> SUBSET Seq(PRs)]
    /\ DOMAIN ScanKey = PRs
    /\ Matching \subseteq PRs
ASSUME ConfigTypes ==
    /\ Configs \subseteq [max : Nat, target : Nat]
    /\ LegacyTarget \in Nat \ {Unbounded}
ASSUME BoundTypes ==
    /\ Threads # {}
    /\ Reviews \subseteq BOOLEAN
    /\ AllowReuse \in BOOLEAN /\ AllowResume \in BOOLEAN
    /\ MaxCrashes \in Nat /\ MaxEdits \in Nat /\ MaxList \in Nat

VARIABLES
    \* durable
    snapshot,   \* the output file
    progress,   \* the sidecar, or NoProgress
    ckpt,       \* ckpt[t]: the last checkpoint of thread t
    excluded,   \* excluded_prs.json
    \* the running process
    pc,         \* where it is
    run,        \* its arguments: [cfg, thread, review, resumed]
    persisted,  \* persisted_prs
    found,      \* found_prs
    completed,  \* completed_repos
    scanned,    \* scanned_pr_keys
    barred,     \* excluded_pr_keys, as read when the node began
    listing,    \* raw_prs of the current repository
    ri, pi,     \* current repository, current raw_pr
    passed,     \* verdict on the current raw_pr
    approved,   \* PRs the reviewer keeps
    \* budgets
    crashes, edits

durable  == <<snapshot, progress, ckpt, excluded>>
lists    == <<persisted, found, completed, scanned, barred>>
cursor   == <<listing, ri, pi, passed>>
budgets  == <<crashes, edits>>
vars     == <<durable, pc, run, lists, cursor, approved, budgets>>

----------------------------------------------------------------------------
(* Lists of PR records as bags.                                            *)
Bag         == [PRs -> Nat]
NoPRs       == [p \in PRs |-> 0]
Plus(b, p)  == [b EXCEPT ![p] = @ + 1]
Concat(b, c) == [p \in PRs |-> b[p] + c[p]]
Keep(b, S)  == [p \in PRs |-> IF p \in S THEN b[p] ELSE 0]
Members(b)  == {p \in PRs : b[p] > 0}
KeysOf(b)   == {ScanKey[p] : p \in Members(b)}
Entries(b)  == UNION {{p} \X (1..b[p]) : p \in PRs}
Size(b)     == Cardinality(Entries(b))

Keys       == {ScanKey[p] : p \in PRs}
NoConfig   == [max |-> 0, target |-> 0]
NoProgress == [saved |-> FALSE, cfg |-> NoConfig, completed |-> {}, scanned |-> {}]
Progress   == [saved : BOOLEAN, cfg : Configs \union {NoConfig},
               completed : SUBSET Repos, scanned : SUBSET Keys]
Run        == [cfg : Configs \union {NoConfig}, thread : Threads,
               review : BOOLEAN, resumed : BOOLEAN]
NoRun      == [cfg |-> NoConfig, thread |-> CHOOSE t \in Threads : TRUE,
               review |-> FALSE, resumed |-> FALSE]
NoCkpt     == [next |-> "none", prs |-> NoPRs, cfg |-> NoConfig, review |-> FALSE]
Ckpt       == [next : {"none", "fetch_prs", "human_review", "end"}, prs : Bag,
               cfg : Configs \union {NoConfig}, review : BOOLEAN]

\* Mutant of Reached: one candidate more than the target is collected.
ReachedLate(b, cfg) == cfg.target # Unbounded /\ Size(b) > cfg.target

(* _has_reached_target_items                                               *)
Reached(b, cfg) == cfg.target # Unbounded /\ Size(b) >= cfg.target

(* The sidecar's fingerprint must be this run's, or the one the run would  *)
(* have had under the legacy default when it now has no target.            *)
Compatible(saved, cfg) ==
    \/ ~ saved.saved
    \/ saved.cfg = cfg
    \/ cfg.target = Unbounded /\ saved.cfg = [cfg EXCEPT !.target = LegacyTarget]

(* list_prs returns at most max_n PRs; for a repository that is gone (404) *)
(* it returns an empty list, a view like any other.                        *)
Listings(r, n) ==
    {SubSeq(v, 1, IF Len(v) < n THEN Len(v) ELSE n) : v \in Views[r]}

\* Mutant of Known: only the sidecar is consulted, not the output file.
KnownFromSidecar(p) == ScanKey[p] \in scanned

(* A PR with this key was evaluated before, in this process or another.    *)
Known(p) == ScanKey[p] \in scanned \union KeysOf(persisted)

(* What _save_progress writes.                                             *)
Sidecar(cs, ks) == [saved |-> TRUE, cfg |-> run.cfg, completed |-> cs, scanned |-> ks]

(* A process ends: nothing of its memory is left.                          *)
Exit ==
    /\ pc' = "idle"
    /\ run' = NoRun
    /\ persisted' = NoPRs /\ found' = NoPRs
    /\ completed' = {} /\ scanned' = {} /\ barred' = {}
    /\ listing' = <<>> /\ ri' = 1 /\ pi' = 1 /\ passed' = FALSE
    /\ approved' = PRs

Init ==
    /\ snapshot = NoPRs
    /\ progress = NoProgress
    /\ ckpt = [t \in Threads |-> NoCkpt]
    /\ excluded = {}
    /\ pc = "idle"
    /\ run = NoRun
    /\ persisted = NoPRs /\ found = NoPRs
    /\ completed = {} /\ scanned = {} /\ barred = {}
    /\ listing = <<>> /\ ri = 1 /\ pi = 1 /\ passed = FALSE
    /\ approved = PRs
    /\ crashes = 0 /\ edits = 0
----------------------------------------------------------------------------
\* Mutant of StartFetch: the graph starts without the candidates of the file.
StartFetchEmpty(cfg, review) ==
    /\ pc = "idle"
    /\ \E t \in Threads :
         /\ ckpt' = [ckpt EXCEPT ![t] = [next |-> "fetch_prs", prs |-> NoPRs,
                                        cfg |-> cfg, review |-> review]]
         /\ run' = [cfg |-> cfg, thread |-> t, review |-> review, resumed |-> FALSE]
    /\ pc' = "load"
    /\ UNCHANGED <<snapshot, progress, excluded, lists, cursor, approved, budgets>>

(* run_fetch_prs: load the output file and invoke the graph.  The input is *)
(* merged into the thread's checkpoint: channel prs has the reducer        *)
(* operator.add, the others keep the last value.  A new thread id has no   *)
(* checkpoint; in the model it takes over the slot of an old one.          *)
StartFetch(cfg, review) ==
    /\ pc = "idle"
    /\ \E t \in Threads : \E before \in {NoPRs, ckpt[t].prs} :
         /\ before # NoPRs => AllowReuse /\ Size(before) <= MaxList
         /\ ckpt' = [ckpt EXCEPT ![t] =
                       [next |-> "fetch_prs", prs |-> Concat(before, snapshot),
                        cfg |-> cfg, review |-> review]]
         /\ run' = [cfg |-> cfg, thread |-> t, review |-> review, resumed |-> FALSE]
    /\ pc' = "load"
    /\ UNCHANGED <<snapshot, progress, excluded, lists, cursor, approved, budgets>>

(* run_resume: continue the thread from its checkpoint.                    *)
Resume(t) ==
    /\ AllowResume
    /\ pc = "idle"
    /\ ckpt[t].next \in {"fetch_prs", "human_review"}
    /\ run' = [cfg |-> ckpt[t].cfg, thread |-> t, review |-> ckpt[t].review,
               resumed |-> TRUE]
    /\ pc' = IF ckpt[t].next = "fetch_prs" THEN "load" ELSE "review"
    /\ UNCHANGED <<durable, lists, cursor, approved, budgets>>

(* fetch_prs begins: it raises RuntimeError on foreign progress ...        *)
RefuseProgress ==
    /\ pc = "load"
    /\ ~ Compatible(progress, run.cfg)
    /\ Exit
    /\ UNCHANGED <<durable, budgets>>

(* ... or takes its lists from the sidecar, the checkpointed state and the *)
(* exclusion list, and rewrites the sidecar before anything else.          *)
LoadProgress ==
    /\ pc = "load"
    /\ Compatible(progress, run.cfg)
    /\ completed' = progress.completed
    /\ scanned' = progress.scanned
    /\ persisted' = ckpt[run.thread].prs
    /\ found' = NoPRs
    /\ barred' = excluded
    /\ progress' = Sidecar(completed', scanned')
    /\ pc' = IF Reached(persisted', run.cfg) THEN "return" ELSE "repos"
    /\ UNCHANGED <<snapshot, ckpt, excluded, run, cursor, approved, budgets>>

(* The loop over repositories ends: none left, or the pool is full.        *)
StopScan ==
    /\ pc = "repos"
    /\ ri > Len(RepoList) \/ Reached(persisted, run.cfg)
    /\ pc' = "return"
    /\ UNCHANGED <<durable, run, lists, cursor, approved, budgets>>

SkipRepo ==
    /\ pc = "repos"
    /\ ri <= Len(RepoList) /\ ~ Reached(persisted, run.cfg)
    /\ RepoList[ri] \in completed
    /\ ri' = ri + 1
    /\ UNCHANGED <<durable, pc, run, lists, listing, pi, passed, approved, budgets>>

ListPrs ==
    /\ pc = "repos"
    /\ ri <= Len(RepoList) /\ ~ Reached(persisted, run.cfg)
    /\ RepoList[ri] \notin completed
    /\ listing' \in Listings(RepoList[ri], run.cfg.max)
    /\ pi' = 1
    /\ pc' = "prs"
    /\ UNCHANGED <<durable, run, lists, ri, passed, approved, budgets>>

\* Mutant of SkipPr: the cursor moves on twice.
SkipTwoPrs ==
    /\ pc = "prs"
    /\ pi <= Len(listing)
    /\ listing[pi] \in barred \/ Known(listing[pi])
    /\ pi' = pi + 2
    /\ UNCHANGED <<durable, pc, run, lists, listing, ri, passed, approved, budgets>>

(* A raw PR that is excluded or already evaluated costs nothing.           *)
SkipPr ==
    /\ pc = "prs"
    /\ pi <= Len(listing)
    /\ listing[pi] \in barred \/ Known(listing[pi])
    /\ pi' = pi + 1
    /\ UNCHANGED <<durable, pc, run, lists, listing, ri, passed, approved, budgets>>

\* Mutant of Match: the pool is kept in memory, to be written at the end.
MatchUnwritten ==
    /\ pc = "prs"
    /\ pi <= Len(listing)
    /\ LET p == listing[pi] IN
         /\ p \notin barred /\ ~ Known(p)
         /\ p \in Matching
         /\ persisted' = Plus(persisted, p)
         /\ found' = Plus(found, p)
    /\ passed' = TRUE
    /\ pc' = "record"
    /\ UNCHANGED <<durable, run, completed, scanned, barred, listing, ri, pi,
                   approved, budgets>>

(* get_pr_files and the filter: a match is appended to the pool and the    *)
(* whole pool is written out.                                              *)
Match ==
    /\ pc = "prs"
    /\ pi <= Len(listing)
    /\ LET p == listing[pi] IN
         /\ p \notin barred /\ ~ Known(p)
         /\ p \in Matching
         /\ persisted' = Plus(persisted, p)
         /\ found' = Plus(found, p)
    /\ snapshot' = persisted'
    /\ passed' = TRUE
    /\ pc' = "record"
    /\ UNCHANGED <<progress, ckpt, excluded, run, completed, scanned, barred,
                   listing, ri, pi, approved, budgets>>

(* The filter fails; so does every PR whose files GitHub no longer has     *)
(* (404 and 422 are an empty file list).                                   *)
NoMatch ==
    /\ pc = "prs"
    /\ pi <= Len(listing)
    /\ LET p == listing[pi] IN
         /\ p \notin barred /\ ~ Known(p)
         /\ p \in Matching => p \in Gone
    /\ passed' = FALSE
    /\ pc' = "record"
    /\ UNCHANGED <<durable, run, lists, listing, ri, pi, approved, budgets>>

\* Mutant of RecordScanned: repo_completed is left set when the pool is full.
RecordScannedAndClose ==
    /\ pc = "record"
    /\ scanned' = scanned \union {ScanKey[listing[pi]]}
    /\ progress' = Sidecar(completed, scanned')
    /\ pc' = "prs"
    /\ pi' = IF Reached(persisted, run.cfg) THEN Len(listing) + 1 ELSE pi + 1
    /\ UNCHANGED <<snapshot, ckpt, excluded, run, persisted, found, completed,
                   barred, listing, ri, passed, approved, budgets>>

(* Either way the key goes into the sidecar, after the pool; a full pool   *)
(* ends the scan and leaves the repository incomplete.                     *)
RecordScanned ==
    /\ pc = "record"
    /\ scanned' = scanned \union {ScanKey[listing[pi]]}
    /\ progress' = Sidecar(completed, scanned')
    /\ pc' = IF Reached(persisted, run.cfg) THEN "return" ELSE "prs"
    /\ pi' = pi + 1
    /\ UNCHANGED <<snapshot, ckpt, excluded, run, persisted, found, completed,
                   barred, listing, ri, passed, approved, budgets>>

\* Mutant of CompleteRepo: the sidecar is saved before the name is added.
CompleteRepoUnsaved ==
    /\ pc = "prs"
    /\ pi > Len(listing)
    /\ completed' = completed \union {RepoList[ri]}
    /\ progress' = Sidecar(completed, scanned)
    /\ ri' = ri + 1
    /\ pc' = "repos"
    /\ UNCHANGED <<snapshot, ckpt, excluded, run, persisted, found, scanned,
                   barred, listing, pi, passed, approved, budgets>>

(* A scanned repository is recorded.                                       *)
CompleteRepo ==
    /\ pc = "prs"
    /\ pi > Len(listing)
    /\ completed' = completed \union {RepoList[ri]}
    /\ progress' = Sidecar(completed', scanned)
    /\ ri' = ri + 1
    /\ pc' = "repos"
    /\ UNCHANGED <<snapshot, ckpt, excluded, run, persisted, found, scanned,
                   barred, listing, pi, passed, approved, budgets>>

\* Mutant of ReturnFound: the node returns its whole pool to the reducer.
ReturnPool ==
    /\ pc = "return"
    /\ ckpt' = [ckpt EXCEPT ![run.thread].prs = Concat(@, persisted),
                            ![run.thread].next = "human_review"]
    /\ pc' = "review"
    /\ UNCHANGED <<snapshot, progress, excluded, run, lists, cursor, approved, budgets>>

(* fetch_prs returns {"prs": found_prs}, which the reducer appends.        *)
ReturnFound ==
    /\ pc = "return"
    /\ ckpt' = [ckpt EXCEPT ![run.thread].prs = Concat(@, found),
                            ![run.thread].next = "human_review"]
    /\ pc' = "review"
    /\ UNCHANGED <<snapshot, progress, excluded, run, lists, cursor, approved, budgets>>

(* human_review with skip_review: the state is left alone.                 *)
SkipReview ==
    /\ pc = "review"
    /\ ~ run.review
    /\ ckpt' = [ckpt EXCEPT ![run.thread].next = "end"]
    /\ IF run.resumed
       THEN Exit
       ELSE pc' = "filter" /\ UNCHANGED <<run, lists, cursor, approved>>
    /\ UNCHANGED <<snapshot, progress, excluded, budgets>>

(* human_review interrupts the graph.  run_fetch_prs prompts the operator, *)
(* who keeps everything or names the PRs to keep among those shown; the    *)
(* node is run again with the answer and returns the filtered list.        *)
Review ==
    /\ pc = "review"
    /\ run.review /\ ~ run.resumed
    /\ LET shown == ckpt[run.thread].prs IN
       \/ /\ approved' = PRs
          /\ ckpt' = [ckpt EXCEPT ![run.thread].next = "end"]
       \/ \E chosen \in SUBSET Members(shown) :
          /\ approved' = chosen
          /\ ckpt' = [ckpt EXCEPT ![run.thread].prs = Concat(@, Keep(shown, chosen)),
                                  ![run.thread].next = "end"]
    /\ pc' = "filter"
    /\ UNCHANGED <<snapshot, progress, excluded, run, lists, cursor, budgets>>

(* run_resume does not prompt: the interrupt ends the process.             *)
ResumeInterrupted ==
    /\ pc = "review"
    /\ run.review /\ run.resumed
    /\ Exit
    /\ UNCHANGED <<durable, budgets>>

\* Mutant of DropExcluded: a review is taken to have done the filtering.
DropExcludedUnreviewed ==
    /\ pc = "filter"
    /\ snapshot' = IF run.review THEN snapshot ELSE Keep(snapshot, PRs \ excluded)
    /\ IF run.review
       THEN pc' = "approve" /\ UNCHANGED <<run, lists, cursor, approved>>
       ELSE Exit
    /\ UNCHANGED <<progress, ckpt, excluded, budgets>>

(* Back in run_fetch_prs: excluded PRs leave the output file ...           *)
DropExcluded ==
    /\ pc = "filter"
    /\ snapshot' = Keep(snapshot, PRs \ excluded)
    /\ IF run.review
       THEN pc' = "approve" /\ UNCHANGED <<run, lists, cursor, approved>>
       ELSE Exit
    /\ UNCHANGED <<progress, ckpt, excluded, budgets>>

(* ... and after a review so do the PRs that were not approved.            *)
DropRejected ==
    /\ pc = "approve"
    /\ snapshot' = Keep(snapshot, approved)
    /\ Exit
    /\ UNCHANGED <<progress, ckpt, excluded, budgets>>

----------------------------------------------------------------------------
(* The process is killed, or an exception of GitHubClient leaves the node. *)
Crash ==
    /\ pc # "idle"
    /\ crashes < MaxCrashes
    /\ crashes' = crashes + 1
    /\ Exit
    /\ UNCHANGED <<durable, edits>>

(* The operator adds a PR to excluded_prs.json, or lifts its exclusion, at *)
(* any time.                                                               *)
EditExcluded(p) ==
    /\ edits < MaxEdits
    /\ edits' = edits + 1
    /\ excluded' = IF p \in excluded THEN excluded \ {p} ELSE excluded \union {p}
    /\ UNCHANGED <<snapshot, progress, ckpt, pc, run, lists, cursor, approved, crashes>>

(* The remedy the RuntimeError names: remove the old progress file.        *)
RemoveProgress ==
    /\ pc = "idle"
    /\ progress.saved
    /\ edits < MaxEdits
    /\ edits' = edits + 1
    /\ progress' = NoProgress
    /\ UNCHANGED <<snapshot, ckpt, excluded, pc, run, lists, cursor, approved, crashes>>

Start == \E cfg \in Configs, review \in Reviews : StartFetch(cfg, review)

Node ==
    \/ RefuseProgress \/ LoadProgress \/ StopScan \/ SkipRepo \/ ListPrs
    \/ SkipPr \/ Match \/ NoMatch \/ RecordScanned \/ CompleteRepo \/ ReturnFound

AfterNode ==
    \/ SkipReview \/ Review \/ ResumeInterrupted \/ DropExcluded \/ DropRejected

Operator ==
    \/ Start
    \/ \E t \in Threads : Resume(t)
    \/ \E p \in PRs : EditExcluded(p)
    \/ RemoveProgress

Next == Node \/ AfterNode \/ Operator \/ Crash

Spec == Init /\ [][Next]_vars

(* A process that is not killed runs on, the reviewer answers, and the     *)
(* operator repeats the command with the same parameters until it is done  *)
(* (plans/design.md section 1.7, the recovery rule).                       *)
LiveSpec ==
    /\ Spec
    /\ WF_vars(Node \/ AfterNode)
    /\ \A cfg \in Configs : SF_vars(\E review \in Reviews : StartFetch(cfg, review))
----------------------------------------------------------------------------
(* The variables keep their types, and the cursors stay inside the lists   *)
(* they walk.                                                              *)
FilesOK ==
    /\ snapshot \in Bag
    /\ progress \in Progress
    /\ ckpt \in [Threads -> Ckpt]
    /\ excluded \subseteq PRs
ProcessOK ==
    /\ pc \in {"idle", "load", "repos", "prs", "record", "return", "review",
               "filter", "approve"}
    /\ run \in Run
    /\ persisted \in Bag /\ found \in Bag
    /\ completed \subseteq Repos /\ scanned \subseteq Keys
    /\ barred \subseteq PRs /\ approved \subseteq PRs
CursorOK ==
    /\ listing \in Seq(PRs) /\ passed \in BOOLEAN
    /\ ri \in 1..(Len(RepoList) + 1) /\ pi \in 1..(Len(listing) + 1)
    /\ pc \in {"prs", "record"} => ri <= Len(RepoList)
    /\ pc = "record" => pi <= Len(listing)
BudgetsOK == crashes \in 0..MaxCrashes /\ edits \in 0..MaxEdits
TypeOK == FilesOK /\ ProcessOK /\ CursorOK /\ BudgetsOK

(* The output file never holds two entries for one repo@head_sha, whatever *)
(* was killed between writing a match and recording its key (design 1.7:   *)
(* the keys of the snapshot take part in deduplication).                   *)
OneEach(b) ==
    /\ \A p \in PRs : b[p] <= 1
    /\ \A p, q \in Members(b) : ScanKey[p] = ScanKey[q] => p = q
NoDuplicateCandidates == OneEach(snapshot)

(* A candidate written to the output file stays there until the operator   *)
(* takes it out, by the exclusion list or in a review: no restart of the   *)
(* process may write the file back without it.                             *)
OnlyOperatorRemoves ==
    [][\A p \in PRs : snapshot'[p] < snapshot[p] =>
          p \in excluded \/ (pc = "approve" /\ p \notin approved)]_vars

(* A scan key is recorded as scanned only once its verdict is safe: if the *)
(* PR passed, the output file already has it (the write order of design    *)
(* 1.7).                                                                   *)
WrittenBeforeRecorded ==
    [][\A k \in progress'.scanned \ progress.scanned :
          passed => k \in KeysOf(snapshot)]_vars

(* A repository is recorded as completed only when every PR of the listing *)
(* it was scanned from is excluded, recorded as scanned, or a candidate.   *)
(* A scan that stops at the target leaves the repository open.             *)
CompletedMeansJudged ==
    [][\A r \in progress'.completed \ progress.completed :
         \A i \in DOMAIN listing :
            \/ listing[i] \in barred
            \/ ScanKey[listing[i]] \in progress.scanned \union KeysOf(snapshot)]_vars

(* target_items is an upper limit: no write makes the pool grow past it.   *)
TargetNeverOvershot ==
    [][Size(snapshot') > Size(snapshot) /\ run.cfg.target # Unbounded =>
          Size(snapshot') <= run.cfg.target]_vars

(* The reviewer is shown the whole output file, the candidates of earlier  *)
(* runs and of this one, each once: nothing stays in it unseen.            *)
ReviewShowsPool ==
    pc = "review" => ckpt[run.thread].prs = snapshot

(* Repeating the command ends the scan: sooner or later, and from then on, *)
(* every repository is completed or the pool has reached its target with   *)
(* candidates that are not excluded.  A run counts the excluded ones until *)
(* its final filter, and may stop short because of them.                   *)
AllCompleted == \A i \in DOMAIN RepoList : RepoList[i] \in progress.completed
ScanFinishes ==
    <>[](AllCompleted \/ Reached(Keep(snapshot, PRs \ excluded), progress.cfg))

(* ... and if nobody takes a candidate out or uses resume, every PR that   *)
(* passes the filter, and is in whatever GitHub may list for its           *)
(* repository, is then in the output file, unless the target was reached   *)
(* before.                                                                 *)
AlwaysListed(p) ==
    \E r \in Repos : \A v \in Views[r], cfg \in Configs :
        \E i \in DOMAIN v : v[i] = p /\ i <= cfg.max
NobodyInterferes == [](edits = 0 /\ approved = PRs /\ ~ run.resumed)
EveryMatchFound ==
    NobodyInterferes =>
        <>[](\/ Reached(snapshot, progress.cfg)
             \/ \A p \in Matching \ Gone : AlwaysListed(p) => p \in Members(snapshot))

(* An exclusion takes effect in the end, although the final filter of the  *)
(* output file is lost with a run that is killed before it, and a resumed  *)
(* run has no filter and may write the excluded PR back.                   *)
ExcludedLeave == <>[](Members(snapshot) \cap excluded = {})

(* Stage 1 implements the candidate pool: a key is judged when it is in    *)
(* the sidecar or in the output file.                                      *)
Pool == INSTANCE CandidatePool WITH
            pool   <- snapshot,
            judged <- progress.scanned \union KeysOf(snapshot)
PoolContract == Pool!PoolSpec

(* The strengthening the proofs rest on.  While the node runs, the sidecar *)
(* holds exactly its lists, and a match is in the output file before its   *)
(* key is recorded ...                                                     *)
Scanning == pc \in {"repos", "prs", "record", "return"}
SidecarInv ==
    /\ Scanning => progress = Sidecar(completed, scanned)
    /\ pc = "record" /\ passed => listing[pi] \in Members(snapshot)

(* ... the loop over a listing only runs with room in the pool ...         *)
RoomInv == pc = "prs" => ~ Reached(persisted, run.cfg)

(* ... every PR the cursor has passed is judged ...                        *)
JudgedInv ==
    pc \in {"prs", "record"} =>
        \A i \in 1..(pi - 1) : listing[i] \in barred \/ Known(listing[i])

(* ... and, when no thread id is used twice and nothing is resumed, the    *)
(* three copies of the pool (file, process, checkpoint) agree.             *)
CopiesAgree ==
    /\ ~ run.resumed
    /\ pc \in {"load", "review"} => ckpt[run.thread].prs = snapshot
    /\ Scanning => /\ persisted = snapshot
                   /\ Concat(ckpt[run.thread].prs, found) = persisted
FreshInv == TypeOK /\ SidecarInv /\ RoomInv /\ CopiesAgree /\ NoDuplicateCandidates
=============================================================================
