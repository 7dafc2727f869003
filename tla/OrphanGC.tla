------------------------------ MODULE OrphanGC ------------------------------
(***************************************************************************)
(* The periodic sweep of orphaned snapshot files (SweepOrphans) running     *)
(* beside everything in BacktestRuns.  It walks the snapshot directory      *)
(* without any lock, then asks the database which portfolios and runs       *)
(* exist, then removes what nobody claims.                                  *)
(***************************************************************************)
EXTENDS BacktestRuns

CONSTANT
    RemoveFails    \* whether a removal by the sweep may fail

ASSUME GCAssumption == RemoveFails \in BOOLEAN

VARIABLE
    gc             \* the sweep: where it is and its candidates

GCState == [pc : {"idle", "walk", "portfolios", "runs", "remove"},
            todo : SUBSET Portfolios,    \* directories listed but not yet read
            cdirs : SUBSET Portfolios,   \* whole-directory candidates
            cfiles : SUBSET RunIds]      \* snapshot file candidates

IdleGC == [pc |-> "idle", todo |-> {}, cdirs |-> {}, cfiles |-> {}]

gcvars == <<vars, gc>>

-----------------------------------------------------------------------------

AtGC(pc) == server = "up" /\ gc.pc = pc

\* A tick of StartOrphanGC: collectOrphanCandidates lists the top directory.
GCStart ==
    /\ AtGC("idle")
    /\ gc' = [pc |-> "walk", todo |-> dirs, cdirs |-> {}, cfiles |-> {}]
    /\ UNCHANGED vars

\* Mutant: only whole directories become candidates.
GCWalk_DirsOnly ==
    /\ AtGC("walk")
    /\ \E p \in gc.todo : gc' = [gc EXCEPT !.todo = @ \ {p}, !.cdirs = @ \cup {p}]
    /\ UNCHANGED vars

\* collectOrphanCandidates, one portfolio directory: itself and its .sqlite
\* files; a directory that has disappeared since has none.
GCWalk ==
    /\ AtGC("walk")
    /\ \E p \in gc.todo :
         gc' = [gc EXCEPT !.todo = @ \ {p}, !.cdirs = @ \cup {p},
                          !.cfiles = @ \cup (snap \cap FilesOf(p))]
    /\ UNCHANGED vars

GCWalked ==
    /\ AtGC("walk")
    /\ gc.todo = {}
    /\ gc' = [gc EXCEPT !.pc = "portfolios"]
    /\ UNCHANGED vars

\* Mutant: only portfolios that are ready count as existing.
GCQueryPortfolios_ReadyOnly ==
    /\ AtGC("portfolios")
    /\ \E o \in DBOutcomes :
         gc' = IF o = "ok"
               THEN [gc EXCEPT !.pc = "runs", !.cdirs = {p \in @ : status[p] # "ready"}]
               ELSE IdleGC
    /\ UNCHANGED vars

\* AllPortfolioIDs; directories of existing portfolios are no orphans.
GCQueryPortfolios ==
    /\ AtGC("portfolios")
    /\ \E o \in DBOutcomes :
         gc' = IF o = "ok"
               THEN [gc EXCEPT !.pc = "runs", !.cdirs = {p \in @ : ~Live(p)}]
               ELSE IdleGC
    /\ UNCHANGED vars

\* Mutant: only finished runs count as existing.
GCQueryRuns_FinishedOnly ==
    /\ AtGC("runs")
    /\ \E o \in DBOutcomes :
         gc' = IF o = "ok"
               THEN [gc EXCEPT !.pc = "remove",
                               !.cfiles = {r \in @ : run[r] \notin {"success", "failed"}}]
               ELSE IdleGC
    /\ UNCHANGED vars

\* AllRunIDs; files of existing runs are no orphans.
GCQueryRuns ==
    /\ AtGC("runs")
    /\ \E o \in DBOutcomes :
         gc' = IF o = "ok"
               THEN [gc EXCEPT !.pc = "remove", !.cfiles = {r \in @ : ~Exists(r)}]
               ELSE IdleGC
    /\ UNCHANGED vars

GCRemoveDir ==
    /\ AtGC("remove")
    /\ \E p \in gc.cdirs :
         /\ gc' = [gc EXCEPT !.cdirs = @ \ {p}]
         /\ \/ RemoveAll(p)
            \/ RemoveFails /\ RemovePart(p)
    /\ UNCHANGED <<tables, procs>>

GCRemoveFile ==
    /\ AtGC("remove")
    /\ \E r \in gc.cfiles :
         /\ gc' = [gc EXCEPT !.cfiles = @ \ {r}]
         /\ \/ snap' = snap \ {r}
            \/ RemoveFails /\ UNCHANGED snap
    /\ UNCHANGED <<tables, dirs, tmp, procs>>

GCDone ==
    /\ AtGC("remove")
    /\ gc.cdirs = {} /\ gc.cfiles = {}
    /\ gc' = IdleGC
    /\ UNCHANGED vars

GCStep ==
    \/ GCWalk \/ GCWalked \/ GCQueryPortfolios \/ GCQueryRuns
    \/ GCRemoveDir \/ GCRemoveFile \/ GCDone

-----------------------------------------------------------------------------

GCInit == Init /\ gc = IdleGC

\* Everything else goes on while the sweep runs; a crash ends the sweep too.
SystemStep == Next /\ gc' = IF server' = "down" THEN IdleGC ELSE gc

GCNext == SystemStep \/ GCStart \/ GCStep

GCSpec == GCInit /\ [][GCNext]_gcvars

\* The ticker keeps firing and the sweep, once started, goes on.
GCFairSpec ==
    /\ GCSpec
    /\ \A c \in Clients : WF_gcvars(ClientStep(c) /\ UNCHANGED gc)
    /\ \A w \in Workers : WF_gcvars(WorkerStep(w) /\ UNCHANGED gc)
    /\ WF_gcvars(Boot /\ UNCHANGED gc)
    /\ SF_gcvars(StartupSweep /\ UNCHANGED gc)
    /\ WF_gcvars(GCStart)
    /\ WF_gcvars(GCStep)

-----------------------------------------------------------------------------
(* Correctness. *)

\* What the sweep is about to remove has no row and will never have one: the
\* answer of the two queries is still right when the removals happen, however
\* late, because ids are never reused and what the walk saw had been created.
CandidatesAreOrphans ==
    gc.pc = "remove" => /\ \A r \in gc.cfiles : run[r] = "gone"
                        /\ \A p \in gc.cdirs : status[p] = "deleted"

\* The sweep never takes the ground from under a live run: while a worker
\* writes for an existing portfolio its directory is there, and a snapshot that
\* is published and about to be recorded by MarkReadyTx stays on disk.
WorkInProgressKept ==
    \A w \in Workers :
        LET r == worker[w].run IN
        worker[w].pc \in {"exec", "publish", "ready"} /\ Live(owner[r]) =>
            /\ owner[r] \in dirs
            /\ worker[w].pc = "publish" => r \in tmp
            /\ worker[w].pc = "ready" => r \in snap

\* Once the server stays up, the snapshot file of a run that no longer has a
\* row is removed, whoever left it behind: a prune cut short by a crash or an
\* I/O error, or a run that finished after its portfolio was deleted.
OrphansCollected ==
    <>[](server = "up") => \A r \in RunIds : (r \in snap /\ run[r] = "gone") ~> r \notin snap

-----------------------------------------------------------------------------
(***************************************************************************)
(* The inductive invariant: a file or directory that exists belongs to a    *)
(* run or portfolio that was created, so one that has no row has lost it    *)
(* for good.                                                                *)
(***************************************************************************)
FilesHaveHistory ==
    /\ \A r \in snap : r <= last
    /\ \A p \in dirs : status[p] # "none"

\* The candidates, at every stage of the sweep.
CandidatesSeen ==
    /\ \A r \in gc.cfiles : r <= last
    /\ \A p \in gc.cdirs \cup gc.todo : status[p] # "none"
    /\ gc.pc \in {"runs", "remove"} => \A p \in gc.cdirs : status[p] = "deleted"
    /\ gc.pc = "remove" => \A r \in gc.cfiles : run[r] = "gone"

GCInv ==
    /\ IInv /\ gc \in GCState
    /\ FilesHaveHistory /\ CandidatesSeen /\ WorkInProgressKept
=============================================================================
