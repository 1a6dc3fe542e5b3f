--------------------------- MODULE WorkflowProofs ---------------------------
(* Workflow, proved for any number of triggers and merges.                 *)
EXTENDS Workflow, TLAPS

Databases == [seen: SUBSET Jobs, registry: Nat]
Trees == [files: Nat, db: Databases, listing: [of: Databases, by: Jobs \cup {Nobody}]]

Stages == {"idle"} \cup Waiting \cup Working \cup Over

TypesW ==
    /\ commits \in Seq(Trees) /\ Len(commits) > 0
    /\ stage \in [Jobs -> Stages]
    /\ base \in [Jobs -> Nat] /\ \A j \in Jobs : base[j] \in 1 .. Len(commits)
    /\ tree \in [Jobs -> Trees]
    /\ failed \subseteq Jobs

(* A tree at work adds to the commit it was checked out from, and from the *)
(* export on its listing is that of its database.                          *)
BuiltOnBase ==
    \A j \in Jobs :
        /\ stage[j] \in Working =>
              /\ tree[j].files = commits[base[j]].files
              /\ commits[base[j]].db.seen \subseteq tree[j].db.seen
        /\ stage[j] \in {"exported", "committed"} => tree[j].listing.of = tree[j].db

(* The jobs a commit or a tree bears the traces of.                        *)
Names(c, j) == j = c.listing.by \/ j \in c.db.seen

(* A job leaves a trace outside its own tree only by getting through, and  *)
(* in its own tree only by a sync that did.                                *)
OnlyDoneNamed ==
    /\ \A i \in DOMAIN commits : \A j \in Jobs : Names(commits[i], j) => stage[j] = "done"
    /\ \A k, j \in Jobs :
          stage[k] \in Working /\ Names(tree[k], j) =>
              \/ stage[j] = "done"
              \/ j = k /\ stage[k] # "checkedout"
    /\ \A j \in failed : stage[j] = "failed"

WInv == TypesW /\ Agreeing /\ NothingUndone /\ BuiltOnBase /\ OnlyDoneNamed

----------------------------------------------------------------------------

LEMMA CommitIsTree ==
    ASSUME TypesW
    PROVE  /\ DOMAIN commits = 1 .. Len(commits)
           /\ Main \in Trees
           /\ \A j \in Jobs : commits[base[j]] \in Trees
  BY DEF TypesW, Main

LEMMA DatabaseType ==
    ASSUME NEW seen \in SUBSET Jobs, NEW n \in Nat
    PROVE  Database(seen, n) \in Databases
  BY DEF Database, Databases

LEMMA FirstTree ==
    First \in Trees /\ First.listing.of = First.db /\ \A j \in Jobs : ~Names(First, j)
  <1>1. Database({}, 0) \in Databases /\ Database({}, 0).seen = {}
    BY DatabaseType DEF Database
  <1> QED
    BY <1>1, WorkflowAssumption DEF First, Trees, Names

LEMMA WInvInit == WorkflowInit => WInv
  <1> SUFFICES ASSUME WorkflowInit
               PROVE  WInv
    OBVIOUS
  <1>1. commits = <<First>> /\ Len(commits) = 1 /\ DOMAIN commits = {1} /\ commits[1] = First
    BY DEF WorkflowInit
  <1>2. TypesW
    <2>1. commits \in Seq(Trees)
      BY <1>1, FirstTree
    <2> QED
      BY <1>1, <2>1, FirstTree DEF WorkflowInit, TypesW, Stages
  <1>3. Agreeing /\ NothingUndone
    BY <1>1, FirstTree DEF Agreeing, NothingUndone
  <1>4. BuiltOnBase /\ OnlyDoneNamed
    BY <1>1, FirstTree DEF WorkflowInit, BuiltOnBase, OnlyDoneNamed, Working
  <1> QED
    BY <1>2, <1>3, <1>4 DEF WInv

----------------------------------------------------------------------------
(* The two ways main grows: a merge, and a push by a job that started from *)
(* the newest commit.                                                      *)

LEMMA Grows ==
    ASSUME TypesW, Agreeing, NothingUndone,
           NEW c \in Trees, commits' = Append(commits, c),
           c.listing.of = c.db,
           Main.files <= c.files, Main.db.seen \subseteq c.db.seen
    PROVE  /\ commits' \in Seq(Trees) /\ Len(commits') = Len(commits) + 1
           /\ \A i \in 1 .. Len(commits) : commits'[i] = commits[i]
           /\ commits'[Len(commits) + 1] = c
           /\ Agreeing' /\ NothingUndone'
  <1>1. commits \in Seq(Trees) /\ Len(commits) \in Nat \ {0} /\ DOMAIN commits = 1 .. Len(commits)
    BY DEF TypesW
  <1>2. /\ commits' \in Seq(Trees) /\ Len(commits') = Len(commits) + 1
        /\ DOMAIN commits' = 1 .. Len(commits) + 1
        /\ \A i \in 1 .. Len(commits) : commits'[i] = commits[i]
        /\ commits'[Len(commits) + 1] = c
    BY <1>1
  <1>3. Agreeing'
    BY <1>1, <1>2 DEF Agreeing
  <1>4. NothingUndone'
    <2> SUFFICES ASSUME NEW i \in 1 .. Len(commits)
                 PROVE  /\ commits'[i].files <= commits'[i + 1].files
                        /\ commits'[i].db.seen \subseteq commits'[i + 1].db.seen
      BY <1>1, <1>2 DEF NothingUndone
    <2>1. CASE i = Len(commits)
      BY <1>1, <1>2, <2>1 DEF Main
    <2>2. CASE i # Len(commits)
      <3> DEFINE n == Len(commits)
      <3>1. n \in Nat
        BY <1>1
      <3>2. i \in 1 .. n /\ i # n
        BY <2>2
      <3>3. i \in 1 .. n - 1 /\ i + 1 \in 1 .. n
        <4> HIDE DEF n
        <4> QED
          BY <3>1, <3>2
      <3> QED
        BY <1>2, <3>3 DEF NothingUndone
    <2> QED
      BY <2>1, <2>2
  <1> QED
    BY <1>2, <1>3, <1>4

LEMMA NamedAfter ==
    ASSUME TypesW, OnlyDoneNamed, NEW c,
           DOMAIN commits' = 1 .. Len(commits) + 1,
           \A i \in 1 .. Len(commits) : commits'[i] = commits[i],
           commits'[Len(commits) + 1] = c,
           \A k \in Jobs : Names(c, k) => stage'[k] = "done",
           \A k \in Jobs : stage[k] = "done" => stage'[k] = "done"
    PROVE  \A i \in DOMAIN commits' : \A k \in Jobs : Names(commits'[i], k) => stage'[k] = "done"
  <1> SUFFICES ASSUME NEW i \in 1 .. Len(commits) + 1, NEW k \in Jobs, Names(commits'[i], k)
               PROVE  stage'[k] = "done"
    OBVIOUS
  <1>1. CASE i = Len(commits) + 1
    BY <1>1
  <1>2. CASE i \in DOMAIN commits
    <2>1. Names(commits[i], k)
      BY <1>2, CommitIsTree DEF Names
    <2> QED
      BY <1>2, <2>1 DEF OnlyDoneNamed
  <1>3. i = Len(commits) + 1 \/ i \in DOMAIN commits
    <2> DEFINE n == Len(commits)
    <2>1. n \in Nat /\ DOMAIN commits = 1 .. n /\ i \in 1 .. n + 1
      BY DEF TypesW
    <2> HIDE DEF n
    <2>2. i = n + 1 \/ i \in 1 .. n
      BY <2>1
    <2> QED
      BY <2>1, <2>2 DEF n
  <1> QED
    BY <1>1, <1>2, <1>3

(* What a tree at stage s owes to the commit it came from and to the jobs  *)
(* before.                                                                 *)
Sound(j, s, t) ==
    /\ t.files = commits[base[j]].files
    /\ commits[base[j]].db.seen \subseteq t.db.seen
    /\ s \in {"exported", "committed"} => t.listing.of = t.db
    /\ \A k \in Jobs : Names(t, k) => stage[k] = "done" \/ (k = j /\ s # "checkedout")

(* A job takes a step that leaves main alone.                              *)
LEMMA JobMoves ==
    ASSUME WInv, NEW j \in Jobs, stage[j] \notin {"done", "failed"},
           NEW s \in Stages, NEW t \in Trees,
           Goto(j, s), tree' = [tree EXCEPT ![j] = t], UNCHANGED <<commits, base>>,
           \/ failed' = failed
           \/ failed' = failed \cup {j} /\ s = "failed",
           s \in Working => Sound(j, s, t)
    PROVE  WInv'
  <1>1. stage' \in [Jobs -> Stages] /\ tree' \in [Jobs -> Trees]
    BY DEF Goto, WInv, TypesW
  <1>2. /\ stage'[j] = s /\ \A k \in Jobs : k # j => stage'[k] = stage[k]
        /\ tree'[j] = t /\ \A k \in Jobs : k # j => tree'[k] = tree[k]
    BY DEF Goto, WInv, TypesW
  <1>3. TypesW' /\ Agreeing' /\ NothingUndone'
    BY <1>1 DEF WInv, TypesW, Agreeing, NothingUndone
  <1>4. BuiltOnBase'
    BY <1>2 DEF WInv, BuiltOnBase, Sound, Working
  <1>5. OnlyDoneNamed'
    <2>1. \A i \in DOMAIN commits' : \A k \in Jobs : Names(commits'[i], k) => stage'[k] = "done"
      BY <1>2 DEF WInv, OnlyDoneNamed
    <2>2. ASSUME NEW k \in Jobs, NEW m \in Jobs, stage'[k] \in Working, Names(tree'[k], m)
          PROVE  stage'[m] = "done" \/ (m = k /\ stage'[k] # "checkedout")
      <3>1. CASE k = j
        BY <1>2, <2>2, <3>1 DEF Sound
      <3>2. CASE k # j
        BY <1>2, <2>2, <3>2 DEF WInv, OnlyDoneNamed
      <3> QED
        BY <3>1, <3>2
    <2>3. \A k \in failed' : stage'[k] = "failed"
      BY <1>2 DEF WInv, OnlyDoneNamed, TypesW
    <2> QED
      BY <2>1, <2>2, <2>3 DEF OnlyDoneNamed
  <1> QED
    BY <1>3, <1>4, <1>5 DEF WInv

(* A job that ends takes its tree with it.                                 *)
LEMMA LeavingKeeps ==
    ASSUME WInv, NEW j \in Jobs, stage[j] \in Working, NEW s \in {"done", "failed"},
           Goto(j, s), UNCHANGED <<commits, base, tree, failed>>
    PROVE  WInv'
  <1>1. tree[j] \in Trees /\ tree' = [tree EXCEPT ![j] = tree[j]]
    BY DEF WInv, TypesW
  <1>2. s \in Stages /\ s \notin Working /\ stage[j] \notin {"done", "failed"}
    BY DEF Stages, Working, Over
  <1> QED
    BY <1>1, <1>2, JobMoves

LEMMA MergeKeeps == ASSUME WInv, Merge PROVE WInv'
  <1> DEFINE c == [Main EXCEPT !.files = @ + 1]
  <1>1. commits' = Append(commits, c) /\ UNCHANGED <<stage, base, tree, failed>>
    BY DEF Merge
  <1>2. Main \in Trees /\ Main = commits[Len(commits)] /\ Len(commits) \in DOMAIN commits
    BY CommitIsTree DEF WInv, Main, TypesW
  <1>3. c \in Trees /\ c.listing = Main.listing /\ c.db = Main.db /\ c.files = Main.files + 1
    BY <1>2 DEF Trees
  <1>4. Main.files <= c.files /\ c.listing.of = c.db
    BY <1>2, <1>3 DEF WInv, Agreeing, Trees
  <1>5. /\ commits' \in Seq(Trees) /\ Len(commits') = Len(commits) + 1
        /\ \A i \in 1 .. Len(commits) : commits'[i] = commits[i]
        /\ commits'[Len(commits) + 1] = c
        /\ Agreeing' /\ NothingUndone'
    <2> HIDE DEF c
    <2> QED
      BY <1>1, <1>3, <1>4, Grows DEF WInv
  <1>6. \A j : Names(c, j) => Names(Main, j)
    BY <1>3 DEF Names
  <1> HIDE DEF c
  <1>7. TypesW'
    BY <1>1, <1>5 DEF WInv, TypesW
  <1>8. BuiltOnBase'
    BY <1>1, <1>5 DEF WInv, TypesW, BuiltOnBase
  <1>9. OnlyDoneNamed'
    <2>1. DOMAIN commits' = 1 .. Len(commits) + 1
      BY <1>5
    <2>2. \A k \in Jobs : Names(c, k) => stage'[k] = "done"
      BY <1>1, <1>2, <1>6 DEF WInv, OnlyDoneNamed
    <2>3. \A i \in DOMAIN commits' : \A k \in Jobs : Names(commits'[i], k) => stage'[k] = "done"
      BY <1>1, <1>5, <2>1, <2>2, NamedAfter DEF WInv
    <2> QED
      BY <1>1, <2>3 DEF WInv, OnlyDoneNamed, Names
  <1> QED
    BY <1>5, <1>7, <1>8, <1>9 DEF WInv

LEMMA PushKeeps == ASSUME WInv, NEW j \in Jobs, Push(j) PROVE WInv'
  <1>1. stage[j] = "committed" /\ UNCHANGED <<base, tree, failed>> /\ tree[j] \in Trees
    BY DEF Push, WInv, TypesW
  <1>2. CASE base[j] = Len(commits)
    <2>1. commits' = Append(commits, tree[j]) /\ stage' = [stage EXCEPT ![j] = "done"]
      BY <1>2 DEF Push, Goto
    <2>2. Main = commits[base[j]]
      BY <1>2 DEF Main
    <2>3. /\ tree[j].files = Main.files /\ Main.db.seen \subseteq tree[j].db.seen
          /\ tree[j].listing.of = tree[j].db
      BY <1>1, <2>2 DEF WInv, BuiltOnBase, Working
    <2>4. Main.files <= tree[j].files
      BY <1>1, <2>3 DEF Trees
    <2>5. /\ commits' \in Seq(Trees) /\ Len(commits') = Len(commits) + 1
          /\ \A i \in 1 .. Len(commits) : commits'[i] = commits[i]
          /\ commits'[Len(commits) + 1] = tree[j]
          /\ Agreeing' /\ NothingUndone'
      BY <1>1, <2>1, <2>3, <2>4, Grows DEF WInv
    <2>6. TypesW'
      BY <1>1, <2>1, <2>5 DEF WInv, TypesW, Stages, Over
    <2>7. BuiltOnBase'
      BY <1>1, <2>1, <2>5 DEF WInv, TypesW, BuiltOnBase, Working
    <2>8. OnlyDoneNamed'
      <3>1. stage'[j] = "done" /\ \A k \in Jobs : k # j => stage'[k] = stage[k]
        BY <2>1 DEF WInv, TypesW
      <3>2. \A k \in Jobs : Names(tree[j], k) => stage'[k] = "done"
        BY <1>1, <3>1 DEF WInv, OnlyDoneNamed, Working
      <3>3. DOMAIN commits' = 1 .. Len(commits) + 1
        BY <2>5
      <3>4. \A i \in DOMAIN commits' : \A k \in Jobs : Names(commits'[i], k) => stage'[k] = "done"
        BY <1>1, <2>5, <3>1, <3>2, <3>3, NamedAfter DEF WInv
      <3>5. \A k \in failed' : stage'[k] = "failed"
        BY <1>1, <3>1 DEF WInv, OnlyDoneNamed, TypesW
      <3>6. \A k, m \in Jobs : stage'[k] \in Working /\ Names(tree'[k], m) =>
                 stage'[m] = "done" \/ (m = k /\ stage'[k] # "checkedout")
        BY <1>1, <3>1 DEF WInv, OnlyDoneNamed, Working
      <3> QED
        BY <3>4, <3>5, <3>6 DEF OnlyDoneNamed
    <2> QED
      BY <2>5, <2>6, <2>7, <2>8 DEF WInv
  <1>3. CASE base[j] # Len(commits)
    <2>1. Goto(j, "failed") /\ UNCHANGED <<commits, base, tree, failed>>
      BY <1>3 DEF Push
    <2> QED
      BY <1>1, <2>1, LeavingKeeps DEF Working
  <1> QED
    BY <1>2, <1>3

----------------------------------------------------------------------------
(* The other steps                                                         *)

LEMMA TriggerKeeps == ASSUME WInv, NEW j \in Jobs, Trigger(j) PROVE WInv'
  <1>1. UNCHANGED <<commits, tree, failed>> /\ stage[j] = "idle"
    BY DEF Trigger
  <1>2. /\ stage'[j] = "pending" /\ stage' \in [Jobs -> Stages]
        /\ \A k \in Jobs : k # j => stage'[k] = stage[k] \/ (stage[k] = "pending" /\ stage'[k] = "cancelled")
    BY DEF Trigger, WInv, TypesW, Stages, Waiting, Over
  <1>3. base' = [base EXCEPT ![j] = Len(commits)] /\ Len(commits) \in Nat /\ Len(commits) \in 1 .. Len(commits)
    BY DEF Trigger, WInv, TypesW
  <1>4. \A k \in Jobs : k # j => base'[k] = base[k]
    BY <1>3 DEF WInv, TypesW
  <1>5. TypesW' /\ Agreeing' /\ NothingUndone'
    BY <1>1, <1>2, <1>3 DEF WInv, TypesW, Agreeing, NothingUndone
  <1>6. BuiltOnBase'
    BY <1>1, <1>2, <1>4 DEF WInv, BuiltOnBase, Working
  <1>7. OnlyDoneNamed'
    <2>1. \A k \in Jobs :
              /\ stage[k] = "done" => stage'[k] = "done"
              /\ stage[k] = "failed" => stage'[k] = "failed"
              /\ stage'[k] \in Working => stage'[k] = stage[k]
      BY <1>1, <1>2 DEF Working
    <2>2. \A k \in failed' : stage'[k] = "failed"
      BY <1>1, <2>1 DEF WInv, TypesW, OnlyDoneNamed
    <2>3. \A i \in DOMAIN commits' : \A k \in Jobs : Names(commits'[i], k) => stage'[k] = "done"
      BY <1>1, <2>1 DEF WInv, OnlyDoneNamed
    <2>4. \A k, m \in Jobs : stage'[k] \in Working /\ Names(tree'[k], m) =>
             stage'[m] = "done" \/ (m = k /\ stage'[k] # "checkedout")
      BY <1>1, <2>1 DEF WInv, OnlyDoneNamed
    <2> QED
      BY <2>2, <2>3, <2>4 DEF OnlyDoneNamed
  <1> QED
    BY <1>5, <1>6, <1>7 DEF WInv

LEMMA CheckoutKeeps == ASSUME WInv, NEW j \in Jobs, Checkout(j) PROVE WInv'
  <1> DEFINE t == commits[base[j]]
  <1>1. t \in Trees /\ base[j] \in DOMAIN commits
    BY CommitIsTree DEF WInv, TypesW
  <1>2. \A k \in Jobs : Names(t, k) => stage[k] = "done"
    BY <1>1 DEF WInv, OnlyDoneNamed
  <1>3. Sound(j, "checkedout", t)
    BY <1>2 DEF Sound
  <1> QED
    BY <1>1, <1>3, JobMoves DEF Checkout, Stages, Working

LEMMA SyncThroughKeeps == ASSUME WInv, NEW j \in Jobs, SyncThrough(j) PROVE WInv'
  <1>1. PICK heard \in {{}, {j}} :
            tree' = [tree EXCEPT ![j].db = Database(@.seen \cup heard, tree[j].files)]
    BY DEF SyncThrough
  <1> DEFINE new == Database(tree[j].db.seen \cup heard, tree[j].files)
             t == [tree[j] EXCEPT !.db = new]
  <1>2. tree[j] \in Trees /\ tree[j].db.seen \cup heard \in SUBSET Jobs /\ tree[j].files \in Nat
    BY DEF WInv, TypesW, Trees, Databases
  <1>3. new \in Databases /\ new.seen = tree[j].db.seen \cup heard
    BY <1>2, DatabaseType DEF Database
  <1>4. tree' = [tree EXCEPT ![j] = t]
    BY <1>1 DEF WInv, TypesW
  <1> HIDE DEF new
  <1>5. t \in Trees /\ t.files = tree[j].files /\ t.db = new /\ t.listing = tree[j].listing
    BY <1>2, <1>3 DEF Trees
  <1> HIDE DEF t
  <1>6. stage[j] = "checkedout" /\ stage[j] \in Working
    BY DEF SyncThrough, Working
  <1>7. \A k \in Jobs : Names(t, k) => Names(tree[j], k) \/ k = j
    BY <1>3, <1>5 DEF Names
  <1>8. Sound(j, "synced", t)
    BY <1>3, <1>5, <1>6, <1>7 DEF Sound, WInv, BuiltOnBase, OnlyDoneNamed
  <1> QED
    BY <1>4, <1>5, <1>6, <1>8, JobMoves DEF SyncThrough, Stages, Working

LEMMA SyncFailsKeeps == ASSUME WInv, NEW j \in Jobs, SyncFails(j) PROVE WInv'
  <1> DEFINE t == [tree[j] EXCEPT !.db.registry = tree[j].files]
  <1>1. tree' = [tree EXCEPT ![j] = t]
    BY DEF SyncFails, WInv, TypesW
  <1>2. t \in Trees
    <2>1. tree[j] \in Trees
      BY DEF WInv, TypesW
    <2>2. tree[j].files \in Nat /\ tree[j].db \in Databases
      BY <2>1 DEF Trees
    <2>3. [tree[j].db EXCEPT !.registry = tree[j].files] \in Databases
      BY <2>2 DEF Databases
    <2> QED
      BY <2>1, <2>3 DEF Trees
  <1> HIDE DEF t
  <1> QED
    BY <1>1, <1>2, JobMoves DEF SyncFails, Stages, Over, Working

LEMMA ExportKeeps == ASSUME WInv, NEW j \in Jobs, Export(j) PROVE WInv'
  <1>1. PICK by \in {j} \cup (IF tree[j].listing.of = tree[j].db THEN {tree[j].listing.by} ELSE {}) :
            tree' = [tree EXCEPT ![j].listing = [of |-> tree[j].db, by |-> by]]
    BY DEF Export
  <1> DEFINE t == [tree[j] EXCEPT !.listing = [of |-> tree[j].db, by |-> by]]
  <1>2. tree[j] \in Trees
    BY DEF WInv, TypesW
  <1>3. by = j \/ by = tree[j].listing.by
    BY <1>1
  <1>4. tree' = [tree EXCEPT ![j] = t]
    BY <1>1 DEF WInv, TypesW
  <1>5. /\ t \in Trees /\ t.files = tree[j].files /\ t.db = tree[j].db
        /\ t.listing.of = t.db /\ t.listing.by = by
    BY <1>2, <1>3 DEF Trees
  <1> HIDE DEF t
  <1>6. stage[j] = "synced" /\ stage[j] \in Working
    BY DEF Export, Working
  <1>7. \A k \in Jobs : Names(t, k) => Names(tree[j], k) \/ k = j
    BY <1>3, <1>5 DEF Names
  <1>8. Sound(j, "exported", t)
    BY <1>5, <1>6, <1>7 DEF Sound, WInv, BuiltOnBase, OnlyDoneNamed
  <1> QED
    BY <1>4, <1>5, <1>6, <1>8, JobMoves DEF Export, Stages, Working

LEMMA CommitKeeps == ASSUME WInv, NEW j \in Jobs, Commit(j) PROVE WInv'
  <1>1. tree[j] \in Trees /\ tree' = [tree EXCEPT ![j] = tree[j]]
    BY DEF Commit, WInv, TypesW
  <1>2. stage[j] = "exported" /\ stage[j] \in Working
    BY DEF Commit, Working
  <1>3. Sound(j, "committed", tree[j])
    BY <1>2 DEF Sound, WInv, BuiltOnBase, OnlyDoneNamed
  <1> QED
    BY <1>1, <1>2, <1>3, JobMoves DEF Commit, Stages, Working

LEMMA WInvStep == WInv /\ [WorkflowNext]_wvars => WInv'
  <1> SUFFICES ASSUME WInv, [WorkflowNext]_wvars
               PROVE  WInv'
    OBVIOUS
  <1>1. CASE Merge
    BY <1>1, MergeKeeps
  <1>2. ASSUME NEW j \in Jobs, Trigger(j)
        PROVE  WInv'
    BY <1>2, TriggerKeeps
  <1>3. ASSUME NEW j \in Jobs, Step(j)
        PROVE  WInv'
    <2>1. CASE Unchanged(j)
      BY <2>1, LeavingKeeps DEF Unchanged, Working
    <2> QED
      BY <1>3, <2>1, CheckoutKeeps, SyncThroughKeeps, SyncFailsKeeps, ExportKeeps, CommitKeeps, PushKeeps
         DEF Step
  <1>4. ASSUME NEW j \in Jobs, Die(j)
        PROVE  WInv'
    BY <1>4, LeavingKeeps DEF Die
  <1>5. CASE UNCHANGED wvars
    BY <1>5 DEF wvars, WInv, TypesW, Agreeing, NothingUndone, BuiltOnBase, OnlyDoneNamed, Names
  <1> QED
    BY <1>1, <1>2, <1>3, <1>4, <1>5 DEF WorkflowNext

----------------------------------------------------------------------------
(* The theorems.  None of them needs the concurrency group: a push that    *)
(* must fast-forward is enough, however many jobs are at work.             *)

(* No commit of main holds a listing exported from another database, for   *)
(* any number of jobs, merges and lost runners.                            *)
THEOREM AgreeingCorrect == WorkflowSpec => []Agreeing
  BY WInvInit, WInvStep, PTL DEF WorkflowSpec, WInv

(* No push takes back a merge or the sightings an earlier job pushed.      *)
THEOREM NothingUndoneCorrect == WorkflowSpec => []NothingUndone
  BY WInvInit, WInvStep, PTL DEF WorkflowSpec, WInv

(* A sync that failed leaves no trace on main, neither in the database nor *)
(* as the one that exported a listing.                                     *)
THEOREM OnlyGoodRunsCorrect == WorkflowSpec => []OnlyGoodRuns
  <1>1. WInv => OnlyGoodRuns
    <2> SUFFICES ASSUME WInv, NEW i \in DOMAIN commits, NEW j \in failed
                 PROVE  ~Names(commits[i], j)
      BY DEF OnlyGoodRuns, Names
    <2>1. j \in Jobs /\ stage[j] = "failed"
      BY DEF WInv, TypesW, OnlyDoneNamed
    <2> QED
      BY <2>1 DEF WInv, OnlyDoneNamed
  <1> QED
    BY <1>1, WInvInit, WInvStep, PTL DEF WorkflowSpec

=============================================================================
