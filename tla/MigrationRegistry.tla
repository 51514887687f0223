-------------------------- MODULE MigrationRegistry --------------------------
(* The startup migrations (persistence/migration-registry.ts): every page    *)
(* that opens the database runs the blocking steps in dependency order under *)
(* one owner lease, then the background step.  A step whose completion is    *)
(* recorded is skipped; otherwise it is inspected, applied item by item and  *)
(* verified before its completion is recorded.  Pages crash between any two  *)
(* writes, writes fail, and the lease, which nobody renews, lapses under its *)
(* owner.  The rebuild that is the background step has a module of its own,  *)
(* SearchIndex.  Fusion-to-lab (a second dependent of the canonical tasks)   *)
(* and attention (which migrates nothing) are left out.                      *)
EXTENDS Integers, Sequences

CONSTANTS Tabs,          \* the pages over one database
          NoTab,         \* no owner of the lease
          GoneTab,       \* the owner id of a page that is not there any more
          NItems,        \* how many items each step has to migrate
          MaxMishaps     \* bound: crashes and failed writes

ASSUME MigrationAssumption ==
    /\ NItems \in Nat /\ MaxMishaps \in Nat
    /\ NoTab \notin Tabs /\ GoneTab \notin Tabs \cup {NoTab}

VARIABLES mig,        \* per page: where its registry run is
          moved,      \* per step: the items that are in the new tables
          marker,     \* the steps whose own migration wrote its marker
          completed,  \* the steps with a completion record
          searchable, \* the search index is not empty
          owner,      \* who holds the owner lease
          lapsed,     \* the lease is past its expiry
          mishaps     \* bound: crashes and failed writes so far

migVars == <<mig, moved, marker, completed, searchable, owner, lapsed, mishaps>>

Items    == 1 .. NItems
Marked   == {"canonical", "taskSets", "comparisons"}
Imports  == Marked \cup {"legacy"}
Step     == Imports \cup {"search"}

(* createDefaultMigrationSteps: the dependencies of a step, and the steps of *)
(* a phase in the order planMigrationSteps puts them.                        *)
Needs == [s \in Step |-> CASE s = "taskSets"    -> {"canonical"}
                           [] s = "comparisons" -> {"taskSets"}
                           [] s = "search"      -> Imports
                           [] OTHER             -> {}]

Planned(phase) == IF phase = "background" THEN <<"search">>
                  ELSE <<"legacy", "canonical", "taskSets", "comparisons">>

Closed     == [pc |-> "closed", phase |-> "blocking", at |-> 1, item |-> 1,
               unsat |-> {}, errors |-> FALSE]
Run(phase) == [Closed EXCEPT !.pc = "acquire", !.phase = phase]

MigInit ==
    /\ mig = [p \in Tabs |-> Closed]
    /\ moved = [s \in Imports |-> {}]
    /\ marker = {} /\ completed = {}
    /\ searchable = FALSE
    /\ owner = NoTab /\ lapsed = FALSE
    /\ mishaps = 0

Mishap     == mishaps < MaxMishaps /\ mishaps' = mishaps + 1
StepOf(p)  == Planned(mig[p].phase)[mig[p].at]
AtStep(p)  == mig[p].pc = "step" /\ mig[p].at <= Len(Planned(mig[p].phase))
Set(p, m)  == mig' = [mig EXCEPT ![p] = m]
AtPc(p, c) == Set(p, [mig[p] EXCEPT !.pc = c])

(* The end of a step in the loop of execute: anything but complete leaves    *)
(* it unsatisfied for the steps that depend on it.                           *)
Passed(m)      == [m EXCEPT !.pc = "step", !.at = @ + 1, !.item = 1, !.errors = FALSE]
Unsatisfied(m) == [Passed(m) EXCEPT !.unsat = @ \cup {Planned(m.phase)[m.at]}]
BlockedOnly(m) == Passed(m)   \* mutant: a blocked step blocks no other
Blocked(m)     == Unsatisfied(m)

-----------------------------------------------------------------------------
(* createDatabase opens: run, and runBackground whatever run came to.  Data  *)
(* diagnostics can resume the blocking steps, with a registry of its own.    *)
TabOpens(p) ==
    /\ mig[p].pc = "closed"
    /\ Set(p, Run("blocking"))
    /\ UNCHANGED <<moved, marker, completed, searchable, owner, lapsed, mishaps>>

ResumeMigration(p) ==
    /\ mig[p].pc = "open"
    /\ Set(p, Run("resume"))
    /\ UNCHANGED <<moved, marker, completed, searchable, owner, lapsed, mishaps>>

PhaseOver(p) == Set(p, IF mig[p].phase = "blocking" THEN Run("background")
                       ELSE [Closed EXCEPT !.pc = "open"])

(* tryAcquireLease: refused only to a foreign owner that has not expired.    *)
(* The tab that is refused reads the completions and leaves it at that.      *)
MayOwnIfFree(p) == owner \in {NoTab, p}   \* mutant: the expiry is not read
MayOwn(p) == owner \in {NoTab, p} \/ lapsed

AcquireOwner(p) ==
    /\ mig[p].pc = "acquire"
    /\ IF MayOwn(p) THEN owner' = p /\ lapsed' = FALSE /\ AtPc(p, "step")
                    ELSE PhaseOver(p) /\ UNCHANGED <<owner, lapsed>>
    /\ UNCHANGED <<moved, marker, completed, searchable, mishaps>>

BlockedStep(p) ==
    /\ AtStep(p)
    /\ Needs[StepOf(p)] \cap mig[p].unsat # {}
    /\ Set(p, Blocked(mig[p]))
    /\ UNCHANGED <<moved, marker, completed, searchable, owner, lapsed, mishaps>>

(* What inspect calls not needed and verify calls done.  Legacy history has  *)
(* no marker: isMigrationComplete asks whether anything was imported.        *)
Verified(s) == IF s = "search" THEN searchable
               ELSE IF s = "legacy" THEN moved[s] # {} \/ Items = {}
               ELSE s \in marker

(* runStep up to apply.  An inspect that throws fails the step, except that  *)
(* isMigrationComplete answers false when it cannot read.                    *)
Inspect(p) ==
    /\ AtStep(p)
    /\ Needs[StepOf(p)] \cap mig[p].unsat = {}
    /\ \/ /\ StepOf(p) \in completed
          /\ Set(p, Passed(mig[p]))
          /\ UNCHANGED mishaps
       \/ /\ StepOf(p) \notin completed
          /\ AtPc(p, IF Verified(StepOf(p)) THEN "adopt" ELSE "apply")
          /\ UNCHANGED mishaps
       \/ /\ StepOf(p) \notin completed
          /\ Mishap
          /\ IF StepOf(p) = "legacy" THEN AtPc(p, "apply")
                                     ELSE Set(p, Unsatisfied(mig[p]))
    /\ UNCHANGED <<moved, marker, completed, searchable, owner, lapsed>>

(* An item that fails is noted by the legacy import, which goes on with the  *)
(* next, and ends any other migration.                                       *)
NextItem(m)   == [m EXCEPT !.item = @ + 1]
ItemFailed(m) == IF Planned(m.phase)[m.at] = "legacy" THEN [NextItem(m) EXCEPT !.errors = TRUE]
                 ELSE Unsatisfied(m)

(* One item in a transaction of its own.                                     *)
ApplyItem(p) ==
    /\ mig[p].pc = "apply" /\ StepOf(p) # "search"
    /\ mig[p].item \in Items
    /\ \/ /\ moved' = [moved EXCEPT ![StepOf(p)] = @ \cup {mig[p].item}]
          /\ Set(p, NextItem(mig[p]))
          /\ UNCHANGED mishaps
       \/ /\ Mishap
          /\ Set(p, ItemFailed(mig[p]))
          /\ UNCHANGED moved
    /\ UNCHANGED <<marker, completed, searchable, owner, lapsed>>

(* The child migrations write their marker behind the last item.  The legacy *)
(* import is done when it met no error, pending otherwise.                   *)
ApplyEnds(p) ==
    /\ mig[p].pc = "apply" /\ StepOf(p) # "search"
    /\ mig[p].item \notin Items
    /\ \/ /\ marker' = marker \cup ({StepOf(p)} \cap Marked)
          /\ Set(p, IF mig[p].errors THEN Unsatisfied(mig[p])
                    ELSE [mig[p] EXCEPT !.pc = "verify"])
          /\ UNCHANGED mishaps
       \/ /\ StepOf(p) \in Marked /\ Mishap
          /\ Set(p, Unsatisfied(mig[p]))
          /\ UNCHANGED marker
    /\ UNCHANGED <<moved, completed, searchable, owner, lapsed>>

(* The background step: the rebuild comes through, or it is skipped or fails *)
(* with the index as it was, or emptied.                                     *)
ApplySearch(p) ==
    /\ mig[p].pc = "apply" /\ StepOf(p) = "search"
    /\ \/ searchable' = TRUE /\ AtPc(p, "verify") /\ UNCHANGED mishaps
       \/ searchable' \in {searchable, FALSE} /\ Mishap /\ Set(p, Unsatisfied(mig[p]))
    /\ UNCHANGED <<moved, marker, completed, owner, lapsed>>

Verify(p) ==
    /\ mig[p].pc = "verify"
    /\ \/ /\ IF Verified(StepOf(p)) THEN AtPc(p, "complete")
                                    ELSE Set(p, Unsatisfied(mig[p]))
          /\ UNCHANGED mishaps
       \/ Mishap /\ Set(p, Unsatisfied(mig[p]))
    /\ UNCHANGED <<moved, marker, completed, searchable, owner, lapsed>>

(* writeCompletion and clearCursor, either of which may throw: of a step     *)
(* found done that is a failure of the step, of one just applied the end of  *)
(* the phase.                                                                *)
Complete(p) ==
    /\ mig[p].pc \in {"adopt", "complete"}
    /\ \/ /\ completed' = completed \cup {StepOf(p)}
          /\ Set(p, Passed(mig[p]))
          /\ UNCHANGED mishaps
       \/ /\ Mishap
          /\ completed' \in {completed, completed \cup {StepOf(p)}}
          /\ IF mig[p].pc = "adopt" THEN Set(p, Unsatisfied(mig[p]))
                                     ELSE AtPc(p, "release")
    /\ UNCHANGED <<moved, marker, searchable, owner, lapsed>>

LoopEnds(p) ==
    /\ mig[p].pc = "step" /\ ~AtStep(p)
    /\ AtPc(p, "release")
    /\ UNCHANGED <<moved, marker, completed, searchable, owner, lapsed, mishaps>>

(* The finally of execute: releaseLease gives back only what is still its    *)
(* own, best effort.                                                         *)
ReleaseOwner(p) ==
    /\ mig[p].pc = "release"
    /\ PhaseOver(p)
    /\ \/ /\ owner' = IF owner = p THEN NoTab ELSE owner
          /\ lapsed' = (lapsed /\ owner # p)
          /\ UNCHANGED mishaps
       \/ Mishap /\ owner' = owner /\ UNCHANGED lapsed
    /\ UNCHANGED <<moved, marker, completed, searchable>>

-----------------------------------------------------------------------------
(* 30 s pass since the lease was taken.                                      *)
OwnerLapses ==
    /\ owner # NoTab /\ ~lapsed
    /\ lapsed' = TRUE
    /\ UNCHANGED <<mig, moved, marker, completed, searchable, owner, mishaps>>

(* A page is reloaded or dies; the next one has another owner id.            *)
TabGone(p) ==
    /\ Set(p, Closed)
    /\ owner' = IF owner = p THEN GoneTab ELSE owner
    /\ UNCHANGED <<moved, marker, completed, searchable, lapsed>>

TabCrashes(p) == mig[p].pc \notin {"closed", "open"} /\ Mishap /\ TabGone(p)
TabReloads(p) == mig[p].pc = "open" /\ TabGone(p) /\ UNCHANGED mishaps

RegistryStep(p) ==
    \/ AcquireOwner(p) \/ BlockedStep(p) \/ Inspect(p) \/ ApplyItem(p)
    \/ ApplyEnds(p) \/ ApplySearch(p) \/ Verify(p) \/ Complete(p)
    \/ LoopEnds(p) \/ ReleaseOwner(p)

MigNext ==
    \/ \E p \in Tabs : \/ TabOpens(p) \/ TabReloads(p) \/ TabCrashes(p)
                       \/ ResumeMigration(p) \/ RegistryStep(p)
    \/ OwnerLapses

(* A page runs its promises, a closed one is opened again, of the open ones  *)
(* some are reloaded again and again; the clock goes on.                     *)
MigFairness ==
    /\ \A p \in Tabs : WF_migVars(RegistryStep(p)) /\ WF_migVars(TabOpens(p))
    /\ WF_migVars(\E p \in Tabs : TabReloads(p))
    /\ WF_migVars(OwnerLapses)

MigSpec == MigInit /\ [][MigNext]_migVars /\ MigFairness

-----------------------------------------------------------------------------
Page == [pc : {"closed", "acquire", "step", "apply", "verify", "adopt", "complete",
               "release", "open"},
         phase : {"blocking", "background", "resume"},
         at : 1 .. 5, item : 1 .. NItems + 1, unsat : SUBSET Step, errors : BOOLEAN]

MigTypeOK ==
    /\ mig \in [Tabs -> Page]
    /\ moved \in [Imports -> SUBSET Items]
    /\ marker \subseteq Marked /\ completed \subseteq Step
    /\ searchable \in BOOLEAN /\ lapsed \in BOOLEAN
    /\ owner \in Tabs \cup {NoTab, GoneTab}
    /\ mishaps \in 0 .. MaxMishaps

(* A migration that keeps a marker of its own is recorded as complete only   *)
(* when all it has to migrate is migrated, and nothing of it is migrated     *)
(* before the steps it rests on are recorded: task sets are not migrated     *)
(* over missing canonical tasks, nor comparisons over either, also when the  *)
(* step between them was blocked and not run.  Through crashes between two   *)
(* items, failed writes, and a second page that applies at the same time     *)
(* because the lease has lapsed under the first.                             *)
MigratedInOrder ==
    \A s \in Marked :
        /\ s \in completed => s \in marker
        /\ s \in marker => moved[s] = Items
        /\ moved[s] # {} => Needs[s] \subseteq completed

(* What a crash or a fault interrupted is migrated in the end, also when the *)
(* page that died held the lease, once a single page is in use.  (Two pages  *)
(* that are reloaded for ever may each find the other in its background      *)
(* phase, which holds the same lease.)                                       *)
EverythingMigrates ==
    (\E p \in Tabs : <>[](\A q \in Tabs \ {p} : mig[q].pc = "open"))
        => <>(Marked \subseteq completed)

(* The header of the registry: an interrupted step is resumed, and completed *)
(* only after it verified.  Of the legacy history this would mean that a     *)
(* completed import has imported everything.                                 *)
LegacyIsImported == "legacy" \in completed => moved["legacy"] = Items
=============================================================================
