---------------------------- MODULE MCFetchRepos ----------------------------
(***************************************************************************)
(* Three interop types, one of them without a query; the two others share  *)
(* repository a.  Beside the searches, the cache serves a PR listing of    *)
(* two PRs, the files of a PR, a source file and a tree.                   *)
(***************************************************************************)
EXTENDS FetchRepos

CONSTANT none

MCTypes  == <<"cgo", "new", "jni">>
MCHits   == [t \in {"cgo", "jni"} |-> IF t = "cgo" THEN <<"a", "b">> ELSE <<"a", "c">>]
MCStars  == [r \in {"a", "b", "c"} |-> IF r = "a" THEN 60 ELSE 90]
MCSearchKey == [t \in {"cgo", "jni"} |->
                  IF t = "cgo" THEN <<"cgo:1", "cgo:2">> ELSE <<"jni:1", "jni:2">>]

MCSearches == {"cgo:1", "cgo:2", "jni:1", "jni:2"}
MCOthers   == {"prs", "files", "content", "tree"}
MCKeys     == MCSearches \union MCOthers
MCMethod   == [k \in MCKeys |-> IF k \in MCSearches THEN "search" ELSE k]
MCItems    == [k \in MCKeys |->
                 IF k \in {"cgo:2", "jni:2", "prs"} THEN 2 ELSE 1]
=============================================================================
