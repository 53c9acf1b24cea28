--------------------------- MODULE FetchPrs_proofs ---------------------------
(***************************************************************************)
(* Proofs about FetchPrs for every value of its constants.                 *)
(***************************************************************************)
EXTENDS FetchPrs, FiniteSetTheorems, TLAPS

(* The list operations build bags.                                         *)
LEMMA BagClosure ==
    /\ NoPRs \in Bag
    /\ \A b \in Bag : \A p \in PRs : Plus(b, p) \in Bag
    /\ \A b, c \in Bag : Concat(b, c) \in Bag
    /\ \A b \in Bag, S \in SUBSET PRs : Keep(b, S) \in Bag
  BY DEF NoPRs, Bag, Plus, Concat, Keep

(* A listing is a sequence of PRs.                                         *)
LEMMA ListingType ==
  ASSUME NEW r \in Repos, NEW n \in Nat, NEW l \in Listings(r, n)
  PROVE  l \in Seq(PRs)
<1>1. PICK v \in Views[r] : l = SubSeq(v, 1, IF Len(v) < n THEN Len(v) ELSE n)
  BY DEF Listings
<1>2. v \in Seq(PRs)
  BY ListingTypes
<1>3. (IF Len(v) < n THEN Len(v) ELSE n) \in 0..Len(v)
  BY <1>2
<1>. QED  BY <1>1, <1>2, <1>3

(* A process that ends leaves well-typed memory.                           *)
LEMMA ExitType ==
  ASSUME Exit
  PROVE  ProcessOK' /\ CursorOK'
<1>1. run' \in Run
  <2>1. (CHOOSE t \in Threads : TRUE) \in Threads
    BY BoundTypes
  <2>. QED  BY <2>1 DEF Exit, Run, NoRun
<1>2. persisted' \in Bag /\ found' \in Bag
  BY BagClosure DEF Exit
<1>3. ProcessOK'
  BY <1>1, <1>2 DEF Exit, ProcessOK
<1>4. listing' \in Seq(PRs) /\ pi' \in 1..(Len(listing') + 1)
  BY DEF Exit
<1>5. ri' \in 1..(Len(RepoList) + 1)
  BY ListingTypes DEF Exit
<1>. QED  BY <1>3, <1>4, <1>5 DEF Exit, CursorOK

(* The sidecar and the checkpoints that are written are well typed.        *)
LEMMA SidecarType ==
  ASSUME ProcessOK, NEW cs \in SUBSET Repos, NEW ks \in SUBSET Keys
  PROVE  Sidecar(cs, ks) \in Progress
  BY DEF ProcessOK, Run, Sidecar, Progress

(* A checkpoint that a node writes is well typed.                          *)
LEMMA CkptType ==
  ASSUME FilesOK, NEW t \in Threads, NEW b \in Bag,
         NEW n \in {"fetch_prs", "human_review", "end"}
  PROVE  /\ [ckpt EXCEPT ![t].next = n] \in [Threads -> Ckpt]
         /\ [ckpt EXCEPT ![t].prs = b, ![t].next = n] \in [Threads -> Ckpt]
  BY DEF FilesOK, Ckpt

(* The thread of the run has a checkpoint.                                 *)
LEMMA RunThread ==
  ASSUME FilesOK, ProcessOK
  PROVE  run.thread \in Threads /\ ckpt[run.thread].prs \in Bag
  BY DEF FilesOK, ProcessOK, Run, Ckpt

(* The first process finds nothing on disk; that state is well typed.      *)
LEMMA InitType == Init => TypeOK
<1> SUFFICES ASSUME Init PROVE TypeOK
  OBVIOUS
<1>1. FilesOK
  <2>1. NoProgress \in Progress
    BY DEF NoProgress, Progress
  <2>2. NoCkpt \in Ckpt
    BY BagClosure DEF NoCkpt, Ckpt
  <2>. QED  BY <2>1, <2>2, BagClosure DEF Init, FilesOK
<1>2. ProcessOK
  <2>1. run \in Run
    <3>1. (CHOOSE t \in Threads : TRUE) \in Threads
      BY BoundTypes
    <3>. QED  BY <3>1 DEF Init, Run, NoRun
  <2>. QED  BY <2>1, BagClosure DEF Init, ProcessOK
<1>3. CursorOK
  <2>1. listing \in Seq(PRs) /\ pi \in 1..(Len(listing) + 1)
    BY DEF Init
  <2>2. ri \in 1..(Len(RepoList) + 1)
    BY ListingTypes DEF Init
  <2>3. passed \in BOOLEAN
    BY DEF Init
  <2>. QED  BY <2>1, <2>2, <2>3 DEF Init, CursorOK
<1>4. BudgetsOK
  BY BoundTypes DEF Init, BudgetsOK
<1>. QED  BY <1>1, <1>2, <1>3, <1>4 DEF TypeOK

(* Every step keeps the types.                                             *)
LEMMA TypeStep == TypeOK /\ [Next]_vars => TypeOK'
<1> SUFFICES ASSUME TypeOK, [Next]_vars PROVE TypeOK'
  OBVIOUS
<1> USE DEF vars, durable, lists, cursor, budgets, TypeOK
<1>1. CASE RefuseProgress
  <2>1. FilesOK'
    BY <1>1, BagClosure DEF RefuseProgress, FilesOK
  <2>2. ProcessOK'
    BY <1>1, ExitType DEF RefuseProgress
  <2>3. CursorOK'
    BY <1>1, ExitType DEF RefuseProgress
  <2>4. BudgetsOK'
    BY <1>1 DEF RefuseProgress, BudgetsOK
  <2>. QED  BY <2>1, <2>2, <2>3, <2>4
<1>2. CASE LoadProgress
  <2>1. FilesOK'
    <3>1. progress' \in Progress
      BY <1>2, SidecarType DEF LoadProgress, FilesOK, ProcessOK, Progress
    <3>. QED  BY <1>2, <3>1, BagClosure DEF LoadProgress, FilesOK
  <2>2. ProcessOK'
    <3>1. /\ completed' \subseteq Repos /\ scanned' \subseteq Keys
          /\ barred' \subseteq PRs
      BY <1>2 DEF LoadProgress, FilesOK, Progress
    <3>2. persisted' \in Bag /\ found' \in Bag
      BY <1>2, RunThread, BagClosure DEF LoadProgress
    <3>. QED  BY <1>2, <3>1, <3>2 DEF LoadProgress, ProcessOK
  <2>3. CursorOK'
    BY <1>2, ListingTypes DEF LoadProgress, CursorOK
  <2>4. BudgetsOK'
    BY <1>2 DEF LoadProgress, BudgetsOK
  <2>. QED  BY <2>1, <2>2, <2>3, <2>4
<1>3. CASE StopScan
  <2>1. FilesOK'
    BY <1>3, BagClosure DEF StopScan, FilesOK
  <2>2. ProcessOK'
    BY <1>3, BagClosure DEF StopScan, ProcessOK, FilesOK
  <2>3. CursorOK'
    BY <1>3, ListingTypes DEF StopScan, CursorOK
  <2>4. BudgetsOK'
    BY <1>3 DEF StopScan, BudgetsOK
  <2>. QED  BY <2>1, <2>2, <2>3, <2>4
<1>4. CASE SkipRepo
  <2>1. FilesOK'
    BY <1>4, BagClosure DEF SkipRepo, FilesOK
  <2>2. ProcessOK'
    BY <1>4, BagClosure DEF SkipRepo, ProcessOK, FilesOK
  <2>3. CursorOK'
    BY <1>4, ListingTypes DEF SkipRepo, CursorOK
  <2>4. BudgetsOK'
    BY <1>4 DEF SkipRepo, BudgetsOK
  <2>. QED  BY <2>1, <2>2, <2>3, <2>4
<1>5. CASE ListPrs
  <2>1. FilesOK'
    BY <1>5, BagClosure DEF ListPrs, FilesOK
  <2>2. ProcessOK'
    BY <1>5, BagClosure DEF ListPrs, ProcessOK, FilesOK
  <2>3. CursorOK'
    <3>1. PICK l \in Listings(RepoList[ri], run.cfg.max) : listing' = l
      BY <1>5 DEF ListPrs
    <3>2. RepoList[ri] \in Repos /\ ri' = ri /\ ri' <= Len(RepoList)
      BY <1>5, ListingTypes DEF ListPrs, CursorOK
    <3>3. run.cfg.max \in Nat
      BY ConfigTypes DEF ProcessOK, Run, NoConfig
    <3>4. listing' \in Seq(PRs)
      BY <3>1, <3>2, <3>3, ListingType
    <3>. QED  BY <1>5, <3>2, <3>4 DEF ListPrs, CursorOK
  <2>4. BudgetsOK'
    BY <1>5 DEF ListPrs, BudgetsOK
  <2>. QED  BY <2>1, <2>2, <2>3, <2>4
<1>6. CASE SkipPr
  <2>1. FilesOK'
    BY <1>6, BagClosure DEF SkipPr, FilesOK
  <2>2. ProcessOK'
    BY <1>6, BagClosure DEF SkipPr, ProcessOK, FilesOK
  <2>3. CursorOK'
    BY <1>6, ListingTypes DEF SkipPr, CursorOK
  <2>4. BudgetsOK'
    BY <1>6 DEF SkipPr, BudgetsOK
  <2>. QED  BY <2>1, <2>2, <2>3, <2>4
<1>7. CASE Match
  <2>1. FilesOK'
    <3>1. listing[pi] \in PRs
      BY <1>7 DEF Match, CursorOK
    <3>2. snapshot' \in Bag
      BY <1>7, <3>1, BagClosure DEF Match, ProcessOK
    <3>. QED  BY <1>7, <3>2 DEF Match, FilesOK
  <2>2. ProcessOK'
    <3>1. listing[pi] \in PRs
      BY <1>7 DEF Match, CursorOK
    <3>2. persisted' \in Bag /\ found' \in Bag
      BY <1>7, <3>1, BagClosure DEF Match, ProcessOK
    <3>. QED  BY <1>7, <3>2 DEF Match, ProcessOK
  <2>3. CursorOK'
    BY <1>7, ListingTypes DEF Match, CursorOK
  <2>4. BudgetsOK'
    BY <1>7 DEF Match, BudgetsOK
  <2>. QED  BY <2>1, <2>2, <2>3, <2>4
<1>8. CASE NoMatch
  <2>1. FilesOK'
    BY <1>8, BagClosure DEF NoMatch, FilesOK
  <2>2. ProcessOK'
    BY <1>8, BagClosure DEF NoMatch, ProcessOK, FilesOK
  <2>3. CursorOK'
    BY <1>8, ListingTypes DEF NoMatch, CursorOK
  <2>4. BudgetsOK'
    BY <1>8 DEF NoMatch, BudgetsOK
  <2>. QED  BY <2>1, <2>2, <2>3, <2>4
<1>9. CASE RecordScanned
  <2>1. FilesOK'
    <3>1. scanned' \subseteq Keys
      BY <1>9 DEF RecordScanned, CursorOK, ProcessOK, Keys
    <3>2. progress' \in Progress
      BY <1>9, <3>1, SidecarType DEF RecordScanned, ProcessOK
    <3>. QED  BY <1>9, <3>2 DEF RecordScanned, FilesOK
  <2>2. ProcessOK'
    <3>1. scanned' \subseteq Keys
      BY <1>9 DEF RecordScanned, CursorOK, ProcessOK, Keys
    <3>. QED  BY <1>9, <3>1 DEF RecordScanned, ProcessOK
  <2>3. CursorOK'
    BY <1>9, ListingTypes DEF RecordScanned, CursorOK
  <2>4. BudgetsOK'
    BY <1>9 DEF RecordScanned, BudgetsOK
  <2>. QED  BY <2>1, <2>2, <2>3, <2>4
<1>10. CASE CompleteRepo
  <2>1. FilesOK'
    <3>1. completed' \subseteq Repos
      BY <1>10, ListingTypes DEF CompleteRepo, CursorOK, ProcessOK
    <3>2. progress' \in Progress
      BY <1>10, <3>1, SidecarType DEF CompleteRepo, ProcessOK
    <3>. QED  BY <1>10, <3>2 DEF CompleteRepo, FilesOK
  <2>2. ProcessOK'
    <3>1. completed' \subseteq Repos
      BY <1>10, ListingTypes DEF CompleteRepo, CursorOK, ProcessOK
    <3>. QED  BY <1>10, <3>1 DEF CompleteRepo, ProcessOK
  <2>3. CursorOK'
    BY <1>10, ListingTypes DEF CompleteRepo, CursorOK
  <2>4. BudgetsOK'
    BY <1>10 DEF CompleteRepo, BudgetsOK
  <2>. QED  BY <2>1, <2>2, <2>3, <2>4
<1>11. CASE ReturnFound
  <2>1. FilesOK'
    <3>1. Concat(ckpt[run.thread].prs, found) \in Bag
      BY RunThread, BagClosure DEF ProcessOK
    <3>2. ckpt' \in [Threads -> Ckpt]
      BY <1>11, <3>1, RunThread, CkptType DEF ReturnFound
    <3>. QED  BY <1>11, <3>2 DEF ReturnFound, FilesOK
  <2>2. ProcessOK'
    BY <1>11, BagClosure DEF ReturnFound, ProcessOK, FilesOK
  <2>3. CursorOK'
    BY <1>11, ListingTypes DEF ReturnFound, CursorOK
  <2>4. BudgetsOK'
    BY <1>11 DEF ReturnFound, BudgetsOK
  <2>. QED  BY <2>1, <2>2, <2>3, <2>4
<1>12. CASE SkipReview
  <2>1. FilesOK'
    <3>1. ckpt' \in [Threads -> Ckpt]
      BY <1>12, RunThread, CkptType DEF SkipReview
    <3>. QED  BY <1>12, <3>1 DEF SkipReview, FilesOK
  <2>2. ProcessOK'
    <3>1. CASE run.resumed
      BY <1>12, <3>1, ExitType DEF SkipReview
    <3>2. CASE ~ run.resumed
      BY <1>12, <3>2 DEF SkipReview, ProcessOK
    <3>. QED  BY <3>1, <3>2
  <2>3. CursorOK'
    <3>1. CASE run.resumed
      BY <1>12, <3>1, ExitType DEF SkipReview
    <3>2. CASE ~ run.resumed
      BY <1>12, <3>2 DEF SkipReview, CursorOK
    <3>. QED  BY <3>1, <3>2
  <2>4. BudgetsOK'
    BY <1>12 DEF SkipReview, BudgetsOK
  <2>. QED  BY <2>1, <2>2, <2>3, <2>4
<1>13. CASE Review
  <2>1. FilesOK'
    <3> DEFINE shown == ckpt[run.thread].prs
    <3>1. \A S \in SUBSET PRs : Concat(shown, Keep(shown, S)) \in Bag
      BY RunThread, BagClosure
    <3>2. Members(shown) \subseteq PRs
      BY DEF Members
    <3>3. CASE ckpt' = [ckpt EXCEPT ![run.thread].next = "end"]
      <4>1. ckpt' \in [Threads -> Ckpt]
        BY <3>3, RunThread, CkptType
      <4>. QED  BY <1>13, <4>1 DEF Review, FilesOK
    <3>4. ASSUME NEW S \in SUBSET PRs,
                 ckpt' = [ckpt EXCEPT ![run.thread].prs = Concat(@, Keep(shown, S)),
                                      ![run.thread].next = "end"]
          PROVE  FilesOK'
      <4>1. ckpt' = [ckpt EXCEPT ![run.thread].prs = Concat(shown, Keep(shown, S)),
                                 ![run.thread].next = "end"]
        BY <3>4, RunThread DEF FilesOK
      <4>2. ckpt' \in [Threads -> Ckpt]
        BY <3>1, <4>1, RunThread, CkptType
      <4>. QED  BY <1>13, <4>2 DEF Review, FilesOK
    <3>. QED  BY <1>13, <3>2, <3>3, <3>4 DEF Review
  <2>2. ProcessOK'
    <3>1. approved' \subseteq PRs
      BY <1>13 DEF Review, Members
    <3>. QED  BY <1>13, <3>1 DEF Review, ProcessOK
  <2>3. CursorOK'
    BY <1>13, ListingTypes DEF Review, CursorOK
  <2>4. BudgetsOK'
    BY <1>13 DEF Review, BudgetsOK
  <2>. QED  BY <2>1, <2>2, <2>3, <2>4
<1>14. CASE ResumeInterrupted
  <2>1. FilesOK'
    BY <1>14, BagClosure DEF ResumeInterrupted, FilesOK
  <2>2. ProcessOK'
    BY <1>14, ExitType DEF ResumeInterrupted
  <2>3. CursorOK'
    BY <1>14, ExitType DEF ResumeInterrupted
  <2>4. BudgetsOK'
    BY <1>14 DEF ResumeInterrupted, BudgetsOK
  <2>. QED  BY <2>1, <2>2, <2>3, <2>4
<1>15. CASE DropExcluded
  <2>1. FilesOK'
    BY <1>15, BagClosure DEF DropExcluded, FilesOK
  <2>2. ProcessOK'
    <3>1. CASE ~ run.review
      BY <1>15, <3>1, ExitType DEF DropExcluded
    <3>2. CASE run.review
      BY <1>15, <3>2 DEF DropExcluded, ProcessOK
    <3>. QED  BY <3>1, <3>2
  <2>3. CursorOK'
    <3>1. CASE ~ run.review
      BY <1>15, <3>1, ExitType DEF DropExcluded
    <3>2. CASE run.review
      BY <1>15, <3>2 DEF DropExcluded, CursorOK
    <3>. QED  BY <3>1, <3>2
  <2>4. BudgetsOK'
    BY <1>15 DEF DropExcluded, BudgetsOK
  <2>. QED  BY <2>1, <2>2, <2>3, <2>4
<1>16. CASE DropRejected
  <2>1. FilesOK'
    <3>1. snapshot' \in Bag
      BY <1>16, BagClosure DEF DropRejected, FilesOK, ProcessOK
    <3>. QED  BY <1>16, <3>1 DEF DropRejected, FilesOK
  <2>2. ProcessOK'
    BY <1>16, ExitType DEF DropRejected
  <2>3. CursorOK'
    BY <1>16, ExitType DEF DropRejected
  <2>4. BudgetsOK'
    BY <1>16 DEF DropRejected, BudgetsOK
  <2>. QED  BY <2>1, <2>2, <2>3, <2>4
<1>17. ASSUME NEW cfg \in Configs, NEW review \in Reviews, StartFetch(cfg, review) PROVE TypeOK'
  <2>1. FilesOK'
    <3>1. PICK t \in Threads : \E before \in {NoPRs, ckpt[t].prs} :
             ckpt' = [ckpt EXCEPT ![t] =
                       [next |-> "fetch_prs", prs |-> Concat(before, snapshot),
                        cfg |-> cfg, review |-> review]]
      BY <1>17 DEF StartFetch
    <3>2. ckpt[t].prs \in Bag
      BY DEF FilesOK, Ckpt
    <3>3. PICK b \in Bag :
             ckpt' = [ckpt EXCEPT ![t] =
                       [next |-> "fetch_prs", prs |-> b, cfg |-> cfg, review |-> review]]
      BY <3>1, <3>2, BagClosure DEF FilesOK
    <3>4. [next |-> "fetch_prs", prs |-> b, cfg |-> cfg, review |-> review] \in Ckpt
      BY <1>17, BoundTypes DEF Ckpt
    <3>. QED  BY <1>17, <3>3, <3>4 DEF StartFetch, FilesOK
  <2>2. ProcessOK'
    <3>1. run' \in Run
      BY <1>17, BoundTypes DEF StartFetch, Run
    <3>. QED  BY <1>17, <3>1 DEF StartFetch, ProcessOK
  <2>3. CursorOK'
    BY <1>17, ListingTypes DEF StartFetch, CursorOK
  <2>4. BudgetsOK'
    BY <1>17 DEF StartFetch, BudgetsOK
  <2>. QED  BY <2>1, <2>2, <2>3, <2>4
<1>18. ASSUME NEW t \in Threads, Resume(t) PROVE TypeOK'
  <2>1. FilesOK'
    BY <1>18, BagClosure DEF Resume, FilesOK
  <2>2. ProcessOK'
    <3>1. run' \in Run
      BY <1>18 DEF Resume, Run, FilesOK, Ckpt
    <3>. QED  BY <1>18, <3>1 DEF Resume, ProcessOK
  <2>3. CursorOK'
    BY <1>18, ListingTypes DEF Resume, CursorOK
  <2>4. BudgetsOK'
    BY <1>18 DEF Resume, BudgetsOK
  <2>. QED  BY <2>1, <2>2, <2>3, <2>4
<1>19. ASSUME NEW p \in PRs, EditExcluded(p) PROVE TypeOK'
  <2>1. FilesOK'
    BY <1>19, BagClosure DEF EditExcluded, FilesOK
  <2>2. ProcessOK'
    BY <1>19, BagClosure DEF EditExcluded, ProcessOK, FilesOK
  <2>3. CursorOK'
    BY <1>19, ListingTypes DEF EditExcluded, CursorOK
  <2>4. BudgetsOK'
    BY <1>19, BoundTypes DEF EditExcluded, BudgetsOK
  <2>. QED  BY <2>1, <2>2, <2>3, <2>4
<1>20. CASE RemoveProgress
  <2>1. FilesOK'
    <3>1. NoProgress \in Progress
      BY DEF NoProgress, Progress
    <3>. QED  BY <1>20, <3>1 DEF RemoveProgress, FilesOK
  <2>2. ProcessOK'
    BY <1>20, BagClosure DEF RemoveProgress, ProcessOK, FilesOK
  <2>3. CursorOK'
    BY <1>20, ListingTypes DEF RemoveProgress, CursorOK
  <2>4. BudgetsOK'
    BY <1>20, BoundTypes DEF RemoveProgress, BudgetsOK
  <2>. QED  BY <2>1, <2>2, <2>3, <2>4
<1>21. CASE Crash
  <2>1. FilesOK'
    BY <1>21, BagClosure DEF Crash, FilesOK
  <2>2. ProcessOK'
    BY <1>21, ExitType DEF Crash
  <2>3. CursorOK'
    BY <1>21, ExitType DEF Crash
  <2>4. BudgetsOK'
    BY <1>21, BoundTypes DEF Crash, BudgetsOK
  <2>. QED  BY <2>1, <2>2, <2>3, <2>4
<1>22. CASE UNCHANGED vars
  BY <1>22 DEF FilesOK, ProcessOK, CursorOK, BudgetsOK
<1>. QED  BY <1>1, <1>2, <1>3, <1>4, <1>5, <1>6, <1>7, <1>8, <1>9, <1>10, <1>11, <1>12, <1>13, <1>14, <1>15, <1>16, <1>17, <1>18, <1>19, <1>20, <1>21, <1>22
     DEF Next, Node, AfterNode, Operator, Start

(* The variables of Stage 1 keep their types, however threads are reused,  *)
(* resumed or killed.                                                      *)
THEOREM TypeCorrect == Spec => []TypeOK
  BY InitType, TypeStep, PTL DEF Spec

(* The sidecar mirrors the lists of a running node, and a match is in the  *)
(* output file before its key is recorded.                                 *)
LEMMA SidecarStep == TypeOK /\ SidecarInv /\ [Next]_vars => SidecarInv'
<1> SUFFICES ASSUME TypeOK, SidecarInv, [Next]_vars PROVE SidecarInv'
  OBVIOUS
<1> USE DEF vars, durable, lists, cursor, budgets, Scanning, SidecarInv
<1>1. CASE RefuseProgress
  BY <1>1 DEF RefuseProgress, Exit
<1>2. CASE LoadProgress
  BY <1>2 DEF LoadProgress, Sidecar
<1>3. CASE StopScan
  BY <1>3 DEF StopScan, Sidecar
<1>4. CASE SkipRepo
  BY <1>4 DEF SkipRepo, Sidecar
<1>5. CASE ListPrs
  BY <1>5 DEF ListPrs, Sidecar
<1>6. CASE SkipPr
  BY <1>6 DEF SkipPr, Sidecar
<1>7. CASE Match
  <2>1. Scanning' => progress' = Sidecar(completed, scanned)'
    BY <1>7 DEF Match, Sidecar
  <2>2. listing[pi] \in PRs
    BY <1>7 DEF Match, TypeOK, CursorOK
  <2>3. listing'[pi'] \in Members(snapshot')
    BY <1>7, <2>2 DEF Match, Plus, Members, TypeOK, ProcessOK, Bag
  <2>. QED  BY <1>7, <2>1, <2>3 DEF Match, Sidecar
<1>8. CASE NoMatch
  BY <1>8 DEF NoMatch, Sidecar
<1>9. CASE RecordScanned
  BY <1>9 DEF RecordScanned, Sidecar
<1>10. CASE CompleteRepo
  BY <1>10 DEF CompleteRepo, Sidecar
<1>11. CASE ReturnFound
  BY <1>11 DEF ReturnFound, Sidecar, Members
<1>12. CASE SkipReview
  BY <1>12 DEF SkipReview, Exit
<1>13. CASE Review
  BY <1>13 DEF Review, Sidecar, Members
<1>14. CASE ResumeInterrupted
  BY <1>14 DEF ResumeInterrupted, Exit
<1>15. CASE DropExcluded
  BY <1>15 DEF DropExcluded, Exit
<1>16. CASE DropRejected
  BY <1>16 DEF DropRejected, Exit
<1>17. ASSUME NEW cfg \in Configs, NEW review \in Reviews, StartFetch(cfg, review) PROVE SidecarInv'
  BY <1>17 DEF StartFetch, Sidecar, Members
<1>18. ASSUME NEW t \in Threads, Resume(t) PROVE SidecarInv'
  BY <1>18 DEF Resume, Sidecar, Members
<1>19. ASSUME NEW p \in PRs, EditExcluded(p) PROVE SidecarInv'
  BY <1>19 DEF EditExcluded, Sidecar, Members
<1>20. CASE RemoveProgress
  BY <1>20 DEF RemoveProgress, Sidecar, Members
<1>21. CASE Crash
  BY <1>21 DEF Crash, Exit
<1>22. CASE UNCHANGED vars
  BY <1>22 DEF Sidecar, Members
<1>. QED  BY <1>1, <1>2, <1>3, <1>4, <1>5, <1>6, <1>7, <1>8, <1>9, <1>10, <1>11, <1>12, <1>13, <1>14, <1>15, <1>16, <1>17, <1>18, <1>19, <1>20, <1>21, <1>22
     DEF Next, Node, AfterNode, Operator, Start

(* While fetch_prs scans, the sidecar holds exactly what the process has   *)
(* completed and scanned, and a match is written out before its key.       *)
THEOREM SidecarCorrect == Spec => [](TypeOK /\ SidecarInv)
<1>1. Init => SidecarInv
  BY DEF Init, SidecarInv, Scanning
<1>. QED  BY <1>1, InitType, TypeStep, SidecarStep, PTL DEF Spec

(* A key recorded as scanned after a positive verdict is in the output     *)
(* file, for every use of threads, resume and review and any crash.        *)
THEOREM WrittenFirst == Spec => WrittenBeforeRecorded
<1>1. ASSUME TypeOK, SidecarInv, [Next]_vars
      PROVE  [\A k \in progress'.scanned \ progress.scanned :
                passed => k \in KeysOf(snapshot)]_vars
  <2> SUFFICES ASSUME NEW k \in progress'.scanned \ progress.scanned, passed, Next
               PROVE  k \in KeysOf(snapshot)
    BY <1>1
  <2>1. CASE RecordScanned
    <3>1. k = ScanKey[listing[pi]]
      BY <2>1, <1>1 DEF RecordScanned, SidecarInv, Scanning, Sidecar
    <3>. QED  BY <2>1, <3>1, <1>1 DEF RecordScanned, SidecarInv, KeysOf
  <2>2. CASE CompleteRepo
    BY <2>2, <1>1 DEF CompleteRepo, SidecarInv, Scanning, Sidecar
  <2>3. CASE LoadProgress
    BY <2>3 DEF LoadProgress, Sidecar
  <2>4. CASE RemoveProgress
    BY <2>4 DEF RemoveProgress, NoProgress
  <2>5. progress' # progress => RecordScanned \/ CompleteRepo \/ LoadProgress \/ RemoveProgress
    BY DEF Next, Node, AfterNode, Operator, Start, durable, RefuseProgress, StopScan,
           SkipRepo, ListPrs, SkipPr, Match, NoMatch, ReturnFound, SkipReview, Review,
           ResumeInterrupted, DropExcluded, DropRejected, StartFetch, Resume,
           EditExcluded, Crash
  <2>. QED  BY <2>1, <2>2, <2>3, <2>4, <2>5
<1>. QED  BY <1>1, SidecarCorrect, PTL DEF Spec, WrittenBeforeRecorded

(* The entries of a list of PRs are finitely many; appending adds one and  *)
(* filtering adds none.                                                    *)
LEMMA EntriesFinite ==
  ASSUME NEW b \in Bag
  PROVE  IsFiniteSet(Entries(b)) /\ Size(b) \in Nat
<1> DEFINE Of == [p \in PRs |-> {p} \X (1..b[p])]
           All == {Of[p] : p \in PRs}
<1>1. Of \in Surjection(PRs, All)
  BY DEF Surjection
<1>2. IsFiniteSet(All)
  BY <1>1, PRsFinite, FS_Surjection
<1>3. \A T \in All : IsFiniteSet(T)
  <2> SUFFICES ASSUME NEW p \in PRs PROVE IsFiniteSet({p} \X (1..b[p]))
    OBVIOUS
  <2>1. IsFiniteSet({p})
    BY FS_Singleton
  <2>2. b[p] \in Int
    BY DEF Bag
  <2>3. IsFiniteSet(1..b[p])
    BY <2>2, FS_Interval
  <2>. QED  BY <2>1, <2>3, FS_Product
<1>4. IsFiniteSet(UNION All)
  BY <1>2, <1>3, FS_UNION
<1>5. Entries(b) = UNION All
  BY DEF Entries
<1>6. IsFiniteSet(Entries(b))
  BY <1>4, <1>5
<1>. QED  BY <1>6, FS_CardinalityType DEF Size

(* len(persisted_prs): one more per append, no more after a filter.        *)
LEMMA SizeFacts ==
  ASSUME NEW b \in Bag
  PROVE  /\ \A p \in PRs : Size(Plus(b, p)) = Size(b) + 1
         /\ \A S \in SUBSET PRs : Size(Keep(b, S)) <= Size(b)
<1>1. ASSUME NEW p \in PRs PROVE Size(Plus(b, p)) = Size(b) + 1
  <2>1. b[p] \in Nat /\ \A q \in PRs : b[q] \in Nat
    BY DEF Bag
  <2>2. \A q \in PRs : Plus(b, p)[q] = IF q = p THEN b[p] + 1 ELSE b[q]
    BY DEF Plus, Bag
  <2>3. 1..(b[p] + 1) = (1..b[p]) \union {b[p] + 1}
    BY <2>1
  <2>4. ASSUME NEW e \in Entries(Plus(b, p))
        PROVE  e \in Entries(b) \union {<<p, b[p] + 1>>}
    <3>1. PICK q \in PRs : e \in {q} \X (1..Plus(b, p)[q])
      BY <2>4 DEF Entries
    <3>2. CASE q = p
      BY <2>2, <2>3, <3>1, <3>2 DEF Entries
    <3>3. CASE q # p
      BY <2>2, <3>1, <3>3 DEF Entries
    <3>. QED  BY <3>2, <3>3
  <2>5. ASSUME NEW e \in Entries(b) \union {<<p, b[p] + 1>>}
        PROVE  e \in Entries(Plus(b, p))
    <3>1. CASE e = <<p, b[p] + 1>>
      <4>1. e \in {p} \X (1..Plus(b, p)[p])
        BY <2>1, <2>2, <3>1
      <4>. QED  BY <4>1 DEF Entries
    <3>2. CASE e \in Entries(b)
      <4>1. PICK q \in PRs : e \in {q} \X (1..b[q])
        BY <3>2 DEF Entries
      <4>2. e \in {q} \X (1..Plus(b, p)[q])
        BY <2>1, <2>2, <2>3, <4>1
      <4>. QED  BY <4>2 DEF Entries
    <3>. QED  BY <2>5, <3>1, <3>2
  <2>6. Entries(Plus(b, p)) = Entries(b) \union {<<p, b[p] + 1>>}
    BY <2>4, <2>5
  <2>7. <<p, b[p] + 1>> \notin Entries(b)
    <3>1. SUFFICES ASSUME NEW q \in PRs, <<p, b[p] + 1>> \in {q} \X (1..b[q])
                   PROVE  FALSE
      BY DEF Entries
    <3>. QED  BY <2>1, <3>1
  <2>. QED  BY <2>6, <2>7, EntriesFinite, FS_AddElement DEF Size
<1>2. ASSUME NEW S \in SUBSET PRs PROVE Size(Keep(b, S)) <= Size(b)
  <2>1. ASSUME NEW e \in Entries(Keep(b, S)) PROVE e \in Entries(b)
    <3>1. PICK q \in PRs : e \in {q} \X (1..Keep(b, S)[q])
      BY <2>1 DEF Entries
    <3>2. Keep(b, S)[q] = IF q \in S THEN b[q] ELSE 0
      BY DEF Keep
    <3>3. e \in {q} \X (1..b[q])
      BY <3>1, <3>2
    <3>. QED  BY <3>3 DEF Entries
  <2>2. Entries(Keep(b, S)) \in SUBSET Entries(b)
    BY <2>1
  <2>. QED  BY <2>2, EntriesFinite, FS_Subset DEF Size
<1>. QED  BY <1>1, <1>2

(* The output file is written by a match and by the two final filters.     *)
LEMMA SnapshotWriters ==
  ASSUME [Next]_vars, snapshot' # snapshot
  PROVE  Match \/ DropExcluded \/ DropRejected
  BY DEF Next, Node, AfterNode, Operator, Start, vars, durable, RefuseProgress,
         LoadProgress, StopScan, SkipRepo, ListPrs, SkipPr, NoMatch, RecordScanned,
         CompleteRepo, ReturnFound, SkipReview, Review, ResumeInterrupted, StartFetch,
         Resume, EditExcluded, RemoveProgress, Crash

(* The scan of a listing never goes on with a full pool: only a match      *)
(* adds to it, and RecordScanned looks at the target after each one.       *)
LEMMA RoomStep == TypeOK /\ RoomInv /\ [Next]_vars => RoomInv'
<1> SUFFICES ASSUME TypeOK, RoomInv, [Next]_vars PROVE RoomInv'
  OBVIOUS
<1> USE DEF vars, durable, lists, cursor, budgets, RoomInv
<1>1. CASE RefuseProgress
  BY <1>1 DEF RefuseProgress, Exit
<1>2. CASE LoadProgress
  BY <1>2 DEF LoadProgress
<1>3. CASE StopScan
  BY <1>3 DEF StopScan
<1>4. CASE SkipRepo
  BY <1>4 DEF SkipRepo
<1>5. CASE ListPrs
  BY <1>5 DEF ListPrs
<1>6. CASE SkipPr
  BY <1>6 DEF SkipPr
<1>7. CASE Match
  BY <1>7 DEF Match
<1>8. CASE NoMatch
  BY <1>8 DEF NoMatch
<1>9. CASE RecordScanned
  BY <1>9 DEF RecordScanned
<1>10. CASE CompleteRepo
  BY <1>10 DEF CompleteRepo
<1>11. CASE ReturnFound
  BY <1>11 DEF ReturnFound
<1>12. CASE SkipReview
  BY <1>12 DEF SkipReview, Exit
<1>13. CASE Review
  BY <1>13 DEF Review
<1>14. CASE ResumeInterrupted
  BY <1>14 DEF ResumeInterrupted, Exit
<1>15. CASE DropExcluded
  BY <1>15 DEF DropExcluded, Exit
<1>16. CASE DropRejected
  BY <1>16 DEF DropRejected, Exit
<1>17. ASSUME NEW cfg \in Configs, NEW review \in Reviews, StartFetch(cfg, review) PROVE RoomInv'
  BY <1>17 DEF StartFetch
<1>18. ASSUME NEW t \in Threads, Resume(t) PROVE RoomInv'
  BY <1>18 DEF Resume
<1>19. ASSUME NEW p \in PRs, EditExcluded(p) PROVE RoomInv'
  BY <1>19 DEF EditExcluded
<1>20. CASE RemoveProgress
  BY <1>20 DEF RemoveProgress
<1>21. CASE Crash
  BY <1>21 DEF Crash, Exit
<1>22. CASE UNCHANGED vars
  BY <1>22 DEF Reached
<1>. QED  BY <1>1, <1>2, <1>3, <1>4, <1>5, <1>6, <1>7, <1>8, <1>9, <1>10, <1>11, <1>12, <1>13, <1>14, <1>15, <1>16, <1>17, <1>18, <1>19, <1>20, <1>21, <1>22
     DEF Next, Node, AfterNode, Operator, Start

(* target_items bounds every write of the output file that adds to it, for *)
(* every use of threads, resume and review and any crash.                  *)
THEOREM TargetRespected == Spec => TargetNeverOvershot
<1>1. ASSUME TypeOK, RoomInv, [Next]_vars
      PROVE  [Size(snapshot') > Size(snapshot) /\ run.cfg.target # Unbounded =>
                 Size(snapshot') <= run.cfg.target]_vars
  <2> SUFFICES ASSUME Size(snapshot') > Size(snapshot), run.cfg.target # Unbounded, Next
               PROVE  Size(snapshot') <= run.cfg.target
    BY <1>1
  <2>1. snapshot \in Bag /\ persisted \in Bag /\ run.cfg.target \in Nat
    BY <1>1, ConfigTypes DEF TypeOK, FilesOK, ProcessOK, Run, NoConfig
  <2>2. Size(snapshot) \in Nat /\ Size(persisted) \in Nat
    BY <2>1, EntriesFinite
  <2>3. CASE Match
    <3>1. snapshot' = Plus(persisted, listing[pi]) /\ listing[pi] \in PRs
      BY <2>3, <1>1 DEF Match, TypeOK, CursorOK
    <3>2. Size(persisted) < run.cfg.target
      BY <2>3, <1>1, <2>1, <2>2 DEF Match, RoomInv, Reached
    <3>. QED  BY <2>1, <2>2, <3>1, <3>2, SizeFacts
  <2>4. CASE DropExcluded \/ DropRejected
    <3>1. \E S \in SUBSET PRs : snapshot' = Keep(snapshot, S)
      BY <2>4, <1>1 DEF DropExcluded, DropRejected, TypeOK, ProcessOK
    <3>2. snapshot' \in Bag
      BY <3>1, <2>1, BagClosure
    <3>3. Size(snapshot') <= Size(snapshot) /\ Size(snapshot') \in Nat
      BY <3>1, <3>2, <2>1, SizeFacts, EntriesFinite
    <3>. QED  BY <3>3, <2>2
  <2>5. CASE snapshot' = snapshot
    BY <2>2, <2>5
  <2>. QED  BY <2>3, <2>4, <2>5, <1>1, SnapshotWriters
<1>2. Init => RoomInv
  BY DEF Init, RoomInv
<1>3. Spec => [](TypeOK /\ RoomInv)
  BY <1>2, InitType, TypeStep, RoomStep, PTL DEF Spec
<1>. QED  BY <1>1, <1>3, PTL DEF Spec, TargetNeverOvershot

(* Facts about bags: the empty list is neutral for concatenation, appending*)
(* commutes with it, and lists without duplicate keys stay so.             *)
LEMMA ConcatFacts ==
    /\ \A b \in Bag : Concat(NoPRs, b) = b /\ Concat(b, NoPRs) = b
    /\ \A b, c \in Bag, p \in PRs : Concat(b, Plus(c, p)) = Plus(Concat(b, c), p)
<1>1. ASSUME NEW b \in Bag PROVE Concat(NoPRs, b) = b /\ Concat(b, NoPRs) = b
  BY DEF Bag, Concat, NoPRs
<1>2. ASSUME NEW b \in Bag, NEW c \in Bag, NEW p \in PRs
      PROVE  Concat(b, Plus(c, p)) = Plus(Concat(b, c), p)
  <2>1. Concat(b, Plus(c, p)) = [q \in PRs |-> IF q = p THEN b[q] + c[q] + 1 ELSE b[q] + c[q]]
    BY <1>2 DEF Bag, Concat, Plus
  <2>2. Plus(Concat(b, c), p) = [q \in PRs |-> IF q = p THEN b[q] + c[q] + 1 ELSE b[q] + c[q]]
    BY <1>2 DEF Bag, Concat, Plus
  <2>. QED  BY <2>1, <2>2
<1>. QED  BY <1>1, <1>2

(* A list without two entries for one repo@head_sha stays so when it is    *)
(* filtered and when a record with a new key is appended.                  *)
LEMMA OneEachFacts ==
  ASSUME NEW b \in Bag, OneEach(b)
  PROVE  /\ \A S \in SUBSET PRs : OneEach(Keep(b, S))
         /\ \A p \in PRs : ScanKey[p] \notin KeysOf(b) => OneEach(Plus(b, p))
<1>1. ASSUME NEW S \in SUBSET PRs PROVE OneEach(Keep(b, S))
  BY <1>1 DEF OneEach, Keep, Members, Bag
<1>2. ASSUME NEW p \in PRs, ScanKey[p] \notin KeysOf(b) PROVE OneEach(Plus(b, p))
  <2>1. b[p] = 0
    BY <1>2 DEF KeysOf, Members, Bag
  <2>2. Members(Plus(b, p)) = Members(b) \union {p}
    BY <2>1 DEF Members, Plus, Bag
  <2>3. \A q \in PRs : Plus(b, p)[q] <= 1
    BY <2>1 DEF OneEach, Plus, Bag
  <2>4. \A q \in Members(b) : ScanKey[q] # ScanKey[p]
    BY <1>2 DEF KeysOf
  <2>. QED  BY <2>2, <2>3, <2>4 DEF OneEach
<1>. QED  BY <1>1, <1>2

(* Without thread reuse and resume, the file, the process and the          *)
(* checkpoint hold the same pool whenever one is about to be derived from  *)
(* another.                                                                *)
LEMMA CopiesStep ==
  ASSUME ~ AllowReuse, ~ AllowResume
  PROVE  TypeOK /\ CopiesAgree /\ [Next]_vars => CopiesAgree'
<1> SUFFICES ASSUME TypeOK, CopiesAgree, [Next]_vars PROVE CopiesAgree'
  OBVIOUS
<1> USE DEF vars, durable, lists, cursor, budgets, Scanning, CopiesAgree
<1>1. CASE RefuseProgress
  BY <1>1 DEF RefuseProgress, Exit, NoRun
<1>2. CASE LoadProgress
  <2>1. ckpt[run.thread].prs \in Bag
    BY RunThread DEF TypeOK
  <2>. QED  BY <1>2, <2>1, ConcatFacts DEF LoadProgress
<1>3. CASE StopScan
  BY <1>3 DEF StopScan
<1>4. CASE SkipRepo
  BY <1>4 DEF SkipRepo
<1>5. CASE ListPrs
  BY <1>5 DEF ListPrs
<1>6. CASE SkipPr
  BY <1>6 DEF SkipPr
<1>7. CASE Match
  <2>1. listing[pi] \in PRs
    BY <1>7 DEF Match, TypeOK, CursorOK
  <2>2. ckpt[run.thread].prs \in Bag /\ found \in Bag
    BY RunThread DEF TypeOK, ProcessOK
  <2>. QED  BY <1>7, <2>1, <2>2, ConcatFacts DEF Match
<1>8. CASE NoMatch
  BY <1>8 DEF NoMatch
<1>9. CASE RecordScanned
  BY <1>9 DEF RecordScanned
<1>10. CASE CompleteRepo
  BY <1>10 DEF CompleteRepo
<1>11. CASE ReturnFound
  <2>1. ckpt'[run.thread].prs = Concat(ckpt[run.thread].prs, found)
    BY <1>11, RunThread DEF ReturnFound, TypeOK, FilesOK, Ckpt
  <2>. QED  BY <1>11, <2>1 DEF ReturnFound
<1>12. CASE SkipReview
  BY <1>12 DEF SkipReview, Exit, NoRun
<1>13. CASE Review
  BY <1>13 DEF Review
<1>14. CASE ResumeInterrupted
  BY <1>14 DEF ResumeInterrupted, Exit, NoRun
<1>15. CASE DropExcluded
  BY <1>15 DEF DropExcluded, Exit, NoRun
<1>16. CASE DropRejected
  BY <1>16 DEF DropRejected, Exit, NoRun
<1>17. ASSUME NEW cfg \in Configs, NEW review \in Reviews, StartFetch(cfg, review) PROVE CopiesAgree'
  <2>1. PICK t \in Threads :
           /\ ckpt' = [ckpt EXCEPT ![t] =
                [next |-> "fetch_prs", prs |-> Concat(NoPRs, snapshot),
                 cfg |-> cfg, review |-> review]]
           /\ run' = [cfg |-> cfg, thread |-> t, review |-> review, resumed |-> FALSE]
    BY <1>17 DEF StartFetch
  <2>2. ckpt'[t].prs = snapshot
    BY <2>1, ConcatFacts DEF TypeOK, FilesOK
  <2>. QED  BY <1>17, <2>1, <2>2 DEF StartFetch
<1>18. ASSUME NEW t \in Threads, Resume(t) PROVE CopiesAgree'
  BY <1>18 DEF Resume
<1>19. ASSUME NEW p \in PRs, EditExcluded(p) PROVE CopiesAgree'
  BY <1>19 DEF EditExcluded
<1>20. CASE RemoveProgress
  BY <1>20 DEF RemoveProgress
<1>21. CASE Crash
  BY <1>21 DEF Crash, Exit, NoRun
<1>22. CASE UNCHANGED vars
  BY <1>22 DEF CopiesAgree
<1>. QED  BY <1>1, <1>2, <1>3, <1>4, <1>5, <1>6, <1>7, <1>8, <1>9, <1>10, <1>11, <1>12, <1>13, <1>14, <1>15, <1>16, <1>17, <1>18, <1>19, <1>20, <1>21, <1>22
     DEF Next, Node, AfterNode, Operator, Start

(* A match has a key the output file does not have, since fetch_prs skips  *)
(* the keys of its list and that list is the file's.                       *)
LEMMA NoDuplicatesStep ==
  ASSUME TypeOK, CopiesAgree, NoDuplicateCandidates, [Next]_vars
  PROVE  NoDuplicateCandidates'
<1> USE DEF NoDuplicateCandidates
<1>1. CASE Match
  <2>1. listing[pi] \in PRs
    BY <1>1 DEF Match, TypeOK, CursorOK
  <2>2. snapshot' = Plus(snapshot, listing[pi]) /\ ScanKey[listing[pi]] \notin KeysOf(snapshot)
    BY <1>1 DEF Match, Known, CopiesAgree, Scanning
  <2>. QED  BY <2>1, <2>2, OneEachFacts DEF TypeOK, FilesOK
<1>2. CASE DropExcluded \/ DropRejected
  <2>1. \E S \in SUBSET PRs : snapshot' = Keep(snapshot, S)
    BY <1>2 DEF DropExcluded, DropRejected, TypeOK, ProcessOK
  <2>. QED  BY <2>1, OneEachFacts DEF TypeOK, FilesOK
<1>3. snapshot' # snapshot => Match \/ DropExcluded \/ DropRejected
  BY SnapshotWriters
<1>. QED  BY <1>1, <1>2, <1>3

(* When every run has a thread id of its own and none is resumed, the file,*)
(* the process and the checkpoint hold one and the same pool, without      *)
(* duplicates, through every crash and restart.                            *)
THEOREM FreshCorrect ==
  ASSUME ~ AllowReuse, ~ AllowResume
  PROVE  Spec => []FreshInv
<1>1. Init => CopiesAgree /\ NoDuplicateCandidates
  <2>1. Init => CopiesAgree
    BY DEF Init, CopiesAgree, Scanning, NoRun
  <2>2. Init => NoDuplicateCandidates
    BY DEF Init, NoDuplicateCandidates, OneEach, NoPRs, Members
  <2>. QED  BY <2>1, <2>2
<1>2. FreshInv /\ [Next]_vars => FreshInv'
  BY TypeStep, SidecarStep, RoomStep, CopiesStep, NoDuplicatesStep DEF FreshInv
<1>3. Init => FreshInv
  BY <1>1, InitType DEF FreshInv, SidecarInv, RoomInv, Scanning, Init
<1>. QED  BY <1>2, <1>3, PTL DEF Spec

(* Under that discipline the output file has one entry per repo@head_sha:  *)
(* a candidate written before a crash and not yet in the sidecar is        *)
(* recognised by the next run.                                             *)
THEOREM NoDuplicates ==
  ASSUME ~ AllowReuse, ~ AllowResume
  PROVE  Spec => []NoDuplicateCandidates
  BY FreshCorrect, PTL DEF FreshInv

(* Under the same discipline the reviewer is shown the whole output file.  *)
THEOREM ReviewIsComplete ==
  ASSUME ~ AllowReuse, ~ AllowResume
  PROVE  Spec => []ReviewShowsPool
<1>1. FreshInv => ReviewShowsPool
  BY DEF FreshInv, CopiesAgree, ReviewShowsPool
<1>. QED  BY <1>1, FreshCorrect, PTL

(* Under the same discipline no restart loses a candidate: only the        *)
(* exclusion list and a review take one out of the output file.            *)
THEOREM NothingWrittenIsLost ==
  ASSUME ~ AllowReuse, ~ AllowResume
  PROVE  Spec => OnlyOperatorRemoves
<1>1. ASSUME FreshInv, [Next]_vars
      PROVE  [\A p \in PRs : snapshot'[p] < snapshot[p] =>
                 p \in excluded \/ (pc = "approve" /\ p \notin approved)]_vars
  <2> SUFFICES ASSUME NEW p \in PRs, snapshot'[p] < snapshot[p], Next
               PROVE  p \in excluded \/ (pc = "approve" /\ p \notin approved)
    BY <1>1
  <2>1. snapshot \in Bag
    BY <1>1 DEF FreshInv, TypeOK, FilesOK
  <2>2. CASE Match
    <3>1. snapshot' = Plus(snapshot, listing[pi]) /\ listing[pi] \in PRs
      BY <2>2, <1>1 DEF Match, FreshInv, CopiesAgree, Scanning, TypeOK, CursorOK
    <3>. QED  BY <2>1, <3>1 DEF Plus, Bag
  <2>3. CASE DropExcluded
    BY <2>1, <2>3 DEF DropExcluded, Keep, Bag
  <2>4. CASE DropRejected
    BY <2>1, <2>4 DEF DropRejected, Keep, Bag
  <2>5. snapshot' # snapshot
    BY <2>1 DEF Bag
  <2>. QED  BY <2>2, <2>3, <2>4, <2>5, <1>1, SnapshotWriters
<1>. QED  BY <1>1, FreshCorrect, PTL DEF Spec, OnlyOperatorRemoves

(* Behind the cursor everything is judged: a PR is passed over because it  *)
(* is excluded or known, or after its key has been recorded.               *)
LEMMA JudgedStep == TypeOK /\ JudgedInv /\ [Next]_vars => JudgedInv'
<1> SUFFICES ASSUME TypeOK, JudgedInv, [Next]_vars PROVE JudgedInv'
  OBVIOUS
<1> USE DEF vars, durable, lists, cursor, budgets, JudgedInv, Known
<1>0. pi \in 1..(Len(listing) + 1) /\ listing \in Seq(PRs)
  BY DEF TypeOK, CursorOK
<1>1. CASE pc' \notin {"prs", "record"}
  BY <1>1
<1>2. CASE ListPrs
  BY <1>2 DEF ListPrs
<1>3. CASE SkipPr
  <2>1. pi' = pi + 1 /\ listing' = listing /\ barred' = barred /\ scanned' = scanned
          /\ persisted' = persisted /\ pc = "prs"
    BY <1>3 DEF SkipPr
  <2>2. listing[pi] \in barred \/ Known(listing[pi])
    BY <1>3 DEF SkipPr
  <2>3. 1..(pi' - 1) = 1..(pi - 1) \union {pi}
    BY <2>1, <1>0
  <2>. QED  BY <2>1, <2>2, <2>3
<1>4. CASE RecordScanned
  <2>1. pi' = pi + 1 /\ listing' = listing /\ barred' = barred /\ persisted' = persisted
          /\ pc = "record" /\ scanned' = scanned \union {ScanKey[listing[pi]]}
    BY <1>4 DEF RecordScanned
  <2>2. 1..(pi' - 1) = 1..(pi - 1) \union {pi}
    BY <2>1, <1>0
  <2>. QED  BY <2>1, <2>2
<1>5. CASE Match
  <2>1. /\ pc = "prs" /\ listing[pi] \in PRs
        /\ pi' = pi /\ listing' = listing /\ barred' = barred /\ scanned' = scanned
        /\ persisted' = Plus(persisted, listing[pi])
    BY <1>5, <1>0 DEF Match
  <2>2. persisted \in Bag
    BY DEF TypeOK, ProcessOK
  <2>3. KeysOf(persisted) \subseteq KeysOf(persisted')
    BY <2>1, <2>2 DEF KeysOf, Members, Plus, Bag
  <2>. QED  BY <2>1, <2>3
<1>6. CASE UNCHANGED <<listing, pi, barred, scanned, persisted>> /\ pc \in {"prs", "record"}
  BY <1>6
<1>7. pc' \in {"prs", "record"} =>
         \/ ListPrs \/ SkipPr \/ RecordScanned \/ Match
         \/ UNCHANGED <<listing, pi, barred, scanned, persisted>> /\ pc \in {"prs", "record"}
  BY DEF Next, Node, AfterNode, Operator, Start, RefuseProgress, LoadProgress,
         StopScan, SkipRepo, NoMatch, CompleteRepo, ReturnFound, SkipReview, Review,
         ResumeInterrupted, DropExcluded, DropRejected, StartFetch, Resume,
         EditExcluded, RemoveProgress, Crash, Exit
<1>. QED  BY <1>1, <1>2, <1>3, <1>4, <1>5, <1>6, <1>7

(* Under the discipline a repository is closed only with a verdict on      *)
(* every PR that was listed: the verdicts the process relied on are in the *)
(* sidecar or in the output file.                                          *)
THEOREM ClosedIsJudged ==
  ASSUME ~ AllowReuse, ~ AllowResume
  PROVE  Spec => CompletedMeansJudged
<1>1. ASSUME FreshInv, JudgedInv, [Next]_vars
      PROVE  [\A r \in progress'.completed \ progress.completed :
                \A i \in DOMAIN listing :
                   \/ listing[i] \in barred
                   \/ ScanKey[listing[i]] \in progress.scanned \union KeysOf(snapshot)]_vars
  <2> SUFFICES ASSUME ~ (progress'.completed \subseteq progress.completed),
                      NEW i \in DOMAIN listing
               PROVE  \/ listing[i] \in barred
                      \/ ScanKey[listing[i]] \in progress.scanned \union KeysOf(snapshot)
    BY <1>1
  <2>1. CompleteRepo
    <3>1. ~ LoadProgress /\ ~ RecordScanned /\ ~ RemoveProgress
      BY <1>1 DEF LoadProgress, RecordScanned, RemoveProgress, Sidecar, NoProgress,
                  FreshInv, SidecarInv, Scanning
    <3>2. progress' # progress
      OBVIOUS
    <3>. QED  BY <1>1, <3>1, <3>2 DEF Next, Node, AfterNode, Operator, Start, vars,
              durable, RefuseProgress, StopScan, SkipRepo, ListPrs, SkipPr, Match,
              NoMatch, ReturnFound, SkipReview, Review, ResumeInterrupted, DropExcluded,
              DropRejected, StartFetch, Resume, EditExcluded, Crash
  <2>2. pc = "prs" /\ pi > Len(listing)
    BY <2>1 DEF CompleteRepo
  <2>3. i \in 1..(pi - 1)
    BY <1>1, <2>2 DEF FreshInv, TypeOK, CursorOK
  <2>4. listing[i] \in barred \/ Known(listing[i])
    BY <1>1, <2>2, <2>3 DEF JudgedInv
  <2>5. persisted = snapshot /\ progress.scanned = scanned
    BY <1>1, <2>2 DEF FreshInv, CopiesAgree, SidecarInv, Scanning, Sidecar
  <2>. QED  BY <2>4, <2>5 DEF Known
<1>2. Init => JudgedInv
  BY DEF Init, JudgedInv
<1>3. FreshInv => TypeOK
  BY DEF FreshInv
<1>. QED  BY <1>1, <1>2, <1>3, JudgedStep, FreshCorrect, PTL DEF Spec, CompletedMeansJudged

(* The verdicts of the pool, under the refinement mapping.                 *)
Judged == progress.scanned \union KeysOf(snapshot)

(* A step of Stage 1 is a step of the candidate pool or leaves it alone.   *)
LEMMA PoolStep ==
  ASSUME FreshInv, [Next]_vars
  PROVE  [Pool!PoolNext]_(<<snapshot, Judged>>)
<1> USE DEF Judged
<1> DEFINE Goal == Pool!PoolNext \/ (snapshot' = snapshot /\ Judged' = Judged)
<1>0. SUFFICES Goal
  OBVIOUS
<1>1. CASE Match
  <2> DEFINE p == listing[pi]
  <2>1. p \in PRs
    BY <1>1 DEF Match, FreshInv, TypeOK, CursorOK
  <2>2. /\ snapshot' = Plus(snapshot, p)
        /\ ScanKey[p] \notin Judged
        /\ progress' = progress
    BY <1>1 DEF Match, Known, FreshInv, CopiesAgree, SidecarInv, Sidecar, Scanning
  <2>3. snapshot \in Bag
    BY DEF FreshInv, TypeOK, FilesOK
  <2>4. Members(snapshot') = Members(snapshot) \union {p}
    BY <2>1, <2>2, <2>3 DEF Members, Plus, Bag
  <2>5. KeysOf(snapshot') = KeysOf(snapshot) \union {ScanKey[p]}
    BY <2>4 DEF KeysOf
  <2>6. Judged' = Judged \union {ScanKey[p]}
    BY <2>2, <2>5
  <2>7. Pool!Admit(p)
    BY <2>2, <2>6 DEF Pool!Admit, Plus
  <2>. QED  BY <2>1, <2>7 DEF Pool!PoolNext
<1>2. CASE RecordScanned
  <2> DEFINE p == listing[pi]
  <2>1. p \in PRs
    BY <1>2 DEF RecordScanned, FreshInv, TypeOK, CursorOK
  <2>2. /\ snapshot' = snapshot
        /\ Judged' = Judged \union {ScanKey[p]}
    BY <1>2 DEF RecordScanned, FreshInv, SidecarInv, Sidecar, Scanning
  <2>3. CASE ScanKey[p] \in Judged
    BY <2>2, <2>3
  <2>4. CASE ScanKey[p] \notin Judged
    BY <2>1, <2>2, <2>4 DEF Pool!Reject, Pool!PoolNext
  <2>. QED  BY <2>3, <2>4
<1>3. CASE DropExcluded \/ DropRejected
  <2>1. PICK S \in SUBSET PRs : snapshot' = Keep(snapshot, S)
    BY <1>3 DEF DropExcluded, DropRejected, FreshInv, TypeOK, ProcessOK
  <2>2. progress' = progress
    BY <1>3 DEF DropExcluded, DropRejected
  <2>3. KeysOf(snapshot') \subseteq KeysOf(snapshot)
    BY <2>1 DEF KeysOf, Members, Keep, FreshInv, TypeOK, FilesOK, Bag
  <2>4. Pool!PoolKeys = KeysOf(snapshot) /\ Pool!PoolKeys' = KeysOf(snapshot')
    BY DEF Pool!PoolKeys, KeysOf, Members
  <2>5. Pool!Retain(S)
    BY <2>1, <2>2, <2>3, <2>4 DEF Pool!Retain, Keep
  <2>. QED  BY <2>5 DEF Pool!PoolNext
<1>4. CASE RemoveProgress
  <2>1. snapshot' = snapshot /\ Judged' = KeysOf(snapshot)
    BY <1>4 DEF RemoveProgress, NoProgress
  <2>2. Pool!PoolKeys = KeysOf(snapshot)
    BY DEF Pool!PoolKeys, KeysOf, Members
  <2>. QED  BY <2>1, <2>2 DEF Pool!Forget, Pool!PoolNext
<1>5. CASE LoadProgress \/ CompleteRepo
  <2>1. snapshot' = snapshot
    BY <1>5 DEF LoadProgress, CompleteRepo
  <2>2. progress'.scanned = progress.scanned
    BY <1>5 DEF LoadProgress, CompleteRepo, FreshInv, SidecarInv, Sidecar, Scanning
  <2>. QED  BY <2>1, <2>2
<1>6. CASE snapshot' = snapshot /\ progress' = progress
  BY <1>6
<1>7. \/ snapshot' = snapshot /\ progress' = progress
      \/ Match \/ RecordScanned \/ DropExcluded \/ DropRejected
      \/ RemoveProgress \/ LoadProgress \/ CompleteRepo
  BY DEF Next, Node, AfterNode, Operator, Start, vars, durable, RefuseProgress,
         StopScan, SkipRepo, ListPrs, SkipPr, NoMatch, ReturnFound, SkipReview, Review,
         ResumeInterrupted, StartFetch, Resume, EditExcluded, Crash
<1>. QED  BY <1>1, <1>2, <1>3, <1>4, <1>5, <1>6, <1>7

(* Stage 1 implements the candidate pool: a match admits its PR, a record  *)
(* without a match rejects it, the exclusion list and the review retain,   *)
(* and every other step leaves pool and verdicts alone.                    *)
THEOREM ImplementsPool ==
  ASSUME ~ AllowReuse, ~ AllowResume
  PROVE  Spec => PoolContract
<1>1. Init => Pool!PoolInit
  BY DEF Init, Pool!PoolInit, NoProgress, NoPRs, KeysOf, Members
<1>2. FreshInv /\ [Next]_vars => [Pool!PoolNext]_Pool!poolVars
  BY PoolStep DEF Pool!poolVars, Judged
<1>. QED  BY <1>1, <1>2, FreshCorrect, PTL DEF Spec, PoolContract, Pool!PoolSpec
=============================================================================
