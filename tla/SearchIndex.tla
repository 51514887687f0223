----------------------------- MODULE SearchIndex -----------------------------
(* The disposable search index (search/search-reindex.ts and the repository  *)
(* over searchDocuments).  It is rebuilt as a whole, under a lease, by the   *)
(* registry's background step and the search page when it is empty, and from *)
(* Data diagnostics at any time; a hit that is chosen is resolved against    *)
(* its source and repaired.  Nothing enqueues a changed source: the queue of *)
(* createSearchReindexQueue has no caller outside its tests, and is left out.*)
EXTENDS Integers

CONSTANTS Views,        \* the pages that rebuild and search
          NoView,       \* no owner of the rebuild lease
          GoneView,     \* the owner id of a page that is not there any more
          Docs,         \* the ids of what can be found
          MaxRevision,  \* bound: how often a source is written
          MaxUpsets     \* bound: crashes and failed calls

ASSUME SearchAssumption ==
    /\ MaxRevision \in Nat \ {0} /\ MaxUpsets \in Nat
    /\ NoView \notin Views /\ GoneView \notin Views \cup {NoView}

VARIABLES live,     \* per source: its revision, 0 before and Deleted after
          indexed,  \* per source: the revision of its document, 0 none
          build,    \* per page: where its rebuild is
          found,    \* per page: what its rebuild has listed
          hit,      \* per page: the hit that it has resolved
          holds,    \* the owner of the rebuild lease
          expired,  \* the lease is past its expiry
          upsets    \* bound: crashes and failed calls so far

searchVars == <<live, indexed, build, found, hit, holds, expired, upsets>>

Deleted == -1
NoHit   == [doc |-> "none", rev |-> 0]
Nothing == [d \in Docs |-> 0]

SearchInit ==
    /\ live = Nothing /\ indexed = Nothing
    /\ build = [v \in Views |-> "idle"]
    /\ found = [v \in Views |-> Nothing]
    /\ hit = [v \in Views |-> NoHit]
    /\ holds = NoView /\ expired = FALSE
    /\ upsets = 0

Upset         == upsets < MaxUpsets /\ upsets' = upsets + 1
IsEmpty       == indexed = Nothing
AtBuild(v, c) == build' = [build EXCEPT ![v] = c]

-----------------------------------------------------------------------------
(* The repositories of the sources.                                          *)
SourceWritten(d) ==
    /\ live[d] # Deleted /\ live[d] < MaxRevision
    /\ live' = [live EXCEPT ![d] = @ + 1]
    /\ UNCHANGED <<indexed, build, found, hit, holds, expired, upsets>>

SourceDeleted(d) ==
    /\ live[d] > 0
    /\ live' = [live EXCEPT ![d] = Deleted]
    /\ UNCHANGED <<indexed, build, found, hit, holds, expired, upsets>>

(* The search page is opened over an empty index (the background step asks   *)
(* the same question), or the rebuild is asked for.                          *)
VisitRebuilds(v) ==
    /\ build[v] = "idle" /\ IsEmpty
    /\ AtBuild(v, "acquire")
    /\ UNCHANGED <<live, indexed, found, hit, holds, expired, upsets>>

AskRebuild(v) ==
    /\ build[v] = "idle" /\ ~IsEmpty
    /\ AtBuild(v, "acquire")
    /\ UNCHANGED <<live, indexed, found, hit, holds, expired, upsets>>

(* rebuildSearchIndexWithLease: a page that is refused skips the rebuild.    *)
TakesIfFree(v) == holds \in {NoView, v}   \* mutant: the expiry is not read
Takes(v) == holds \in {NoView, v} \/ expired

AcquireRebuild(v) ==
    /\ build[v] = "acquire"
    /\ IF Takes(v) THEN holds' = v /\ expired' = FALSE /\ AtBuild(v, "renew")
                   ELSE AtBuild(v, "idle") /\ UNCHANGED <<holds, expired>>
    /\ UNCHANGED <<live, indexed, found, hit, upsets>>

RenewRebuild(v) ==
    /\ build[v] = "renew"
    /\ IF holds = v THEN expired' = FALSE /\ AtBuild(v, "list")
                    ELSE AtBuild(v, "release") /\ UNCHANGED expired
    /\ UNCHANGED <<live, indexed, found, hit, holds, upsets>>

(* listAllSources: any failure is fatal, and leaves the index as it was.     *)
Listed == [d \in Docs |-> IF live[d] > 0 THEN live[d] ELSE 0]

ListSources(v) ==
    /\ build[v] = "list"
    /\ \/ /\ found' = [found EXCEPT ![v] = Listed]
          /\ AtBuild(v, "clear")
          /\ UNCHANGED upsets
       \/ Upset /\ AtBuild(v, "release") /\ UNCHANGED found
    /\ UNCHANGED <<live, indexed, hit, holds, expired>>

(* clear and putDocuments are transactions of their own.                     *)
ClearIndex(v) ==
    /\ build[v] = "clear"
    /\ \/ indexed' = Nothing /\ AtBuild(v, "put") /\ UNCHANGED upsets
       \/ Upset /\ AtBuild(v, "release") /\ UNCHANGED indexed
    /\ UNCHANGED <<live, found, hit, holds, expired>>

PutDocuments(v) ==
    /\ build[v] = "put"
    /\ \/ /\ indexed' = [d \in Docs |-> IF found[v][d] > 0 THEN found[v][d]
                                        ELSE indexed[d]]
          /\ UNCHANGED upsets
       \/ Upset /\ UNCHANGED indexed
    /\ AtBuild(v, "release")
    /\ found' = [found EXCEPT ![v] = Nothing]
    /\ UNCHANGED <<live, hit, holds, expired>>

ReleaseRebuild(v) ==
    /\ build[v] = "release"
    /\ AtBuild(v, "idle")
    /\ found' = [found EXCEPT ![v] = Nothing]
    /\ holds' = IF holds = v THEN NoView ELSE holds
    /\ expired' = (expired /\ holds # v)
    /\ UNCHANGED <<live, indexed, hit, upsets>>

-----------------------------------------------------------------------------
(* verifyAndRepairHit: the source is read, and by a transaction of its own   *)
(* the document is removed, left or written again.                           *)
ChooseHit(v, d) ==
    /\ hit[v] = NoHit /\ indexed[d] > 0
    /\ hit' = [hit EXCEPT ![v] = IF live[d] = indexed[d] THEN NoHit
                                 ELSE [doc |-> d, rev |-> live[d]]]
    /\ UNCHANGED <<live, indexed, build, found, holds, expired, upsets>>

RepairHit(v) ==
    /\ hit[v] # NoHit
    /\ indexed' = [indexed EXCEPT ![hit[v].doc] = IF hit[v].rev > 0 THEN hit[v].rev
                                                  ELSE 0]
    /\ hit' = [hit EXCEPT ![v] = NoHit]
    /\ UNCHANGED <<live, build, found, holds, expired, upsets>>

-----------------------------------------------------------------------------
(* The lease of a page that is gone expires, and that of a page that is held *)
(* up for 30 s between two transactions.                                     *)
RebuildExpires ==
    /\ holds # NoView /\ ~expired
    /\ IF holds = GoneView THEN UNCHANGED upsets ELSE Upset
    /\ expired' = TRUE
    /\ UNCHANGED <<live, indexed, build, found, hit, holds>>

ViewCrashes(v) ==
    /\ build[v] # "idle" /\ Upset
    /\ AtBuild(v, "idle")
    /\ found' = [found EXCEPT ![v] = Nothing]
    /\ hit' = [hit EXCEPT ![v] = NoHit]
    /\ holds' = IF holds = v THEN GoneView ELSE holds
    /\ UNCHANGED <<live, indexed, expired>>

RebuildStep(v) ==
    \/ AcquireRebuild(v) \/ RenewRebuild(v) \/ ListSources(v) \/ ClearIndex(v)
    \/ PutDocuments(v) \/ ReleaseRebuild(v)

SearchNext ==
    \/ \E d \in Docs : SourceWritten(d) \/ SourceDeleted(d)
    \/ \E v \in Views :
          \/ VisitRebuilds(v) \/ AskRebuild(v) \/ RebuildStep(v)
          \/ RepairHit(v) \/ ViewCrashes(v)
          \/ \E d \in Docs : ChooseHit(v, d)
    \/ RebuildExpires

(* A rebuild under way goes on, the search page is visited again, and the    *)
(* clock goes on.                                                            *)
SearchFairness ==
    /\ \A v \in Views : /\ WF_searchVars(RebuildStep(v))
                        /\ WF_searchVars(VisitRebuilds(v))
    /\ WF_searchVars(RebuildExpires)

SearchSpec == SearchInit /\ [][SearchNext]_searchVars /\ SearchFairness

-----------------------------------------------------------------------------
SearchTypeOK ==
    /\ live \in [Docs -> {Deleted} \cup (0 .. MaxRevision)]
    /\ indexed \in [Docs -> 0 .. MaxRevision]
    /\ build \in [Views -> {"idle", "acquire", "renew", "list", "clear", "put",
                            "release"}]
    /\ found \in [Views -> [Docs -> 0 .. MaxRevision]]
    /\ hit \in [Views -> [doc : Docs \cup {"none"}, rev : {Deleted} \cup (0 .. MaxRevision)]]
    /\ holds \in Views \cup {NoView, GoneView}
    /\ expired \in BOOLEAN /\ upsets \in 0 .. MaxUpsets

(* The index does not stay empty while there is something to find: not when  *)
(* a page died between the clearing and the filling, holding the lease, nor  *)
(* when two pages rebuild at once because a lease expired under its owner.   *)
EmptyIsRebuilt == []<>(~IsEmpty \/ \A d \in Docs : live[d] <= 0)
=============================================================================
