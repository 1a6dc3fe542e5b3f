------------------------------ MODULE Workflow ------------------------------
(***************************************************************************)
(* .github/workflows/sync.yml: the job that runs `htxdev sync` and         *)
(* `htxdev export` on a checkout of main and pushes the database and the   *)
(* listing back, among triggers, merges to main and runners that die.      *)
(*                                                                         *)
(* A commit is its tree: the version of the maintainers' files, the        *)
(* database and the listing.  Of the database this module keeps which jobs *)
(* stamped their sightings into it and which files were last mirrored; of  *)
(* the listing, the database it was exported from and by whom, since the   *)
(* same database exports to another file once an event has begun.  What    *)
(* happens inside the two commands is module Sync.                         *)
(***************************************************************************)
EXTENDS Integers, Sequences, FiniteSets

CONSTANTS
    Jobs,      \* one trigger each: a cron tick or a dispatch
    Nobody,    \* who exported the first listing
    MaxEdits   \* bound on the merges to main

ASSUME WorkflowAssumption == Nobody \notin Jobs /\ MaxEdits \in Nat

VARIABLES
    commits,   \* the main branch, the oldest commit first
    stage,     \* where each job is
    base,      \* the commit a job was triggered at, github.sha
    tree,      \* the job's working copy
    failed     \* the jobs whose sync did not get through

wvars == <<commits, stage, base, tree, failed>>

Waiting == {"pending"}
Working == {"checkedout", "synced", "exported", "committed"}
Over == {"done", "failed", "cancelled"}

Main == commits[Len(commits)]

Database(seen, registry) == [seen |-> seen, registry |-> registry]

First ==
    LET db == Database({}, 0) IN [files |-> 0, db |-> db, listing |-> [of |-> db, by |-> Nobody]]

WorkflowInit ==
    /\ commits = <<First>>
    /\ stage = [j \in Jobs |-> "idle"]
    /\ base = [j \in Jobs |-> 1]
    /\ tree = [j \in Jobs |-> First]
    /\ failed = {}

(* A pull request is merged: the files change, the database does not.      *)
Merge ==
    /\ Main.files < MaxEdits
    /\ commits' = Append(commits, [Main EXCEPT !.files = @ + 1])
    /\ UNCHANGED <<stage, base, tree, failed>>

----------------------------------------------------------------------------
(* The concurrency group: one job at work, and one waiting.  A newer one   *)
(* takes the waiting one's place; the one at work is left alone.           *)

Trigger(j) ==
    /\ stage[j] = "idle"
    /\ stage' = [k \in Jobs |-> IF k = j THEN "pending"
                               ELSE IF stage[k] \in Waiting THEN "cancelled" ELSE stage[k]]
    /\ base' = [base EXCEPT ![j] = Len(commits)]
    /\ UNCHANGED <<commits, tree, failed>>

ToleratesFailed == {k \in Jobs : stage[k] \in Working \cup {"failed"}}

AtWork == {k \in Jobs : stage[k] \in Working}

Goto(j, s) == stage' = [stage EXCEPT ![j] = s]

(* actions/checkout takes the commit of the trigger, not the newest one.   *)
Checkout(j) ==
    /\ stage[j] = "pending"
    /\ AtWork = {}
    /\ Goto(j, "checkedout")
    /\ tree' = [tree EXCEPT ![j] = commits[base[j]]]
    /\ UNCHANGED <<commits, base, failed>>

----------------------------------------------------------------------------
(* The steps                                                               *)

(* make run: the registry is mirrored, and what was heard is stamped in.   *)
SyncThrough(j) ==
    /\ stage[j] = "checkedout"
    /\ Goto(j, "synced")
    /\ \E heard \in {{}, {j}} :
          tree' = [tree EXCEPT ![j].db = Database(@.seen \cup heard, tree[j].files)]
    /\ UNCHANGED <<commits, base, failed>>

(* tee's exit status instead of make's.                                    *)
SyncFailsUnseen(j) ==
    /\ stage[j] = "checkedout"
    /\ Goto(j, "synced")
    /\ failed' = failed \cup {j}
    /\ tree' = [tree EXCEPT ![j].db.registry = tree[j].files]
    /\ UNCHANGED <<commits, base>>

(* Every source failed, or the store refused: pipefail ends the job, with  *)
(* the database of the runner as far as it got.                            *)
SyncFails(j) ==
    /\ stage[j] = "checkedout"
    /\ Goto(j, "failed")
    /\ failed' = failed \cup {j}
    /\ tree' = [tree EXCEPT ![j].db.registry = tree[j].files]
    /\ UNCHANGED <<commits, base>>

(* make events                                                             *)
Export(j) ==
    /\ stage[j] = "synced"
    /\ Goto(j, "exported")
    /\ \E by \in {j} \cup (IF tree[j].listing.of = tree[j].db THEN {tree[j].listing.by} ELSE {}) :
          tree' = [tree EXCEPT ![j].listing = [of |-> tree[j].db, by |-> by]]
    /\ UNCHANGED <<commits, base, failed>>

(* git diff --quiet: there is nothing to commit.                           *)
Unchanged(j) ==
    /\ stage[j] = "exported"
    /\ tree[j] = commits[base[j]]
    /\ Goto(j, "done")
    /\ UNCHANGED <<commits, base, tree, failed>>

AddListingOnly(j) ==
    /\ stage[j] = "exported"
    /\ tree[j] # commits[base[j]]
    /\ Goto(j, "committed")
    /\ tree' = [tree EXCEPT ![j].db = commits[base[j]].db]
    /\ UNCHANGED <<commits, base, failed>>

(* git add of both files and git commit.                                   *)
Commit(j) ==
    /\ stage[j] = "exported"
    /\ tree[j] # commits[base[j]]
    /\ Goto(j, "committed")
    /\ UNCHANGED <<commits, base, tree, failed>>

PushForced(j) ==
    /\ stage[j] = "committed"
    /\ Goto(j, "done")
    /\ commits' = Append(commits, tree[j])
    /\ UNCHANGED <<base, tree, failed>>

(* git push: fast-forward or not at all.                                   *)
Push(j) ==
    /\ stage[j] = "committed"
    /\ IF base[j] = Len(commits)
       THEN Goto(j, "done") /\ commits' = Append(commits, tree[j])
       ELSE Goto(j, "failed") /\ UNCHANGED commits
    /\ UNCHANGED <<base, tree, failed>>

(* The runner is lost, a step times out, or somebody cancels the job.      *)
Die(j) ==
    /\ stage[j] \in Working
    /\ Goto(j, "failed")
    /\ UNCHANGED <<commits, base, tree, failed>>

Step(j) ==
    \/ Checkout(j)
    \/ SyncThrough(j)
    \/ SyncFails(j)
    \/ Export(j)
    \/ Unchanged(j)
    \/ Commit(j)
    \/ Push(j)

WorkflowNext ==
    \/ Merge
    \/ \E j \in Jobs : Trigger(j) \/ Step(j) \/ Die(j)

(* GitHub starts a job when the group is free and runs its steps; nothing  *)
(* makes anyone merge or trigger.                                          *)
WorkflowSpec == WorkflowInit /\ [][WorkflowNext]_wvars /\ \A j \in Jobs : WF_wvars(Step(j))

----------------------------------------------------------------------------
(* Properties                                                              *)

(* What the site shows is what the committed database holds: on no commit  *)
(* of main does the listing come from another database than the one beside *)
(* it (sync.yml commits the two together).                                 *)
Agreeing == \A i \in DOMAIN commits : commits[i].listing.of = commits[i].db

(* Nothing on main is undone: a job that worked from an older commit takes *)
(* back neither a merge (a signature, a reject) nor the sightings of the   *)
(* job that ran before it, which no feed could give again.                 *)
NothingUndone ==
    \A i \in 1 .. Len(commits) - 1 :
        /\ commits[i].files <= commits[i + 1].files
        /\ commits[i].db.seen \subseteq commits[i + 1].db.seen

(* A sync that did not get through leaves nothing on main, although it may *)
(* have mirrored the registry in its own copy before it failed.            *)
OnlyGoodRuns ==
    \A i \in DOMAIN commits : \A j \in failed :
        j # commits[i].listing.by /\ j \notin commits[i].db.seen

(* Every trigger comes to an end, although jobs wait for each other, die   *)
(* and are pushed out of the queue: none holds the group for good.         *)
Ended == \A j \in Jobs : stage[j] # "idle" ~> stage[j] \in Over

=============================================================================
