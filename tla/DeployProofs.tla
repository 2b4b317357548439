---------------------------- MODULE DeployProofs ----------------------------
(***************************************************************************)
(* Proofs of the safety of deployments, for any number of commits, with    *)
(* any migrations, in whatever order their runs are tried, cut off and     *)
(* tried again.                                                            *)
(***************************************************************************)
EXTENDS Deploy, TLAPS

(* Runs are of commits that were pushed, and so is the compose file. *)
Pushed ==
  /\ checkout <= main
  /\ \A c \in Commits : run[c] # "none" => c <= main

(* Only a run that is followed, or was, has a script; past its fetch the compose *)
(* file is at least as new as its commit.                                        *)
Working ==
  \A c \in Commits :
    /\ script[c] # "off" => run[c] \in {"active", "failed"}
    /\ script[c] \notin {"off", "fetch"} => c <= checkout

(* A migration that has begun goes forward from what it found; past it the *)
(* schema has what the image counts on.                                    *)
Migrated ==
  /\ \A c \in Commits :
       /\ script[c] = "upgrade" => found[c] <= Head[c] /\ found[c] <= schema
       /\ script[c] \in {"remove", "up", "gate"} => Head[c] <= schema
  /\ SchemaSuffices

(* Who replaces the API is alone, and finds its own container at the gate. *)
Alone ==
  \A c \in Commits :
    /\ script[c] \in {"remove", "up"} => \A d \in Commits : run[d] = "active" => d = c
    /\ script[c] = "gate" /\ run[c] = "active" => container = c

IInv == TypeOK /\ Pushed /\ Working /\ Migrated /\ Alone

(* Commits are numbers, and their heads too. *)
LEMMA Numbers ==
  /\ Last \in Nat /\ Commits \subseteq Int /\ None \notin Commits /\ 0 \in Commits
  /\ \A c \in Commits : Head[c] \in Nat
BY DeployAssumption DEF Commits

(* Before the first push everything is quiet. *)
LEMMA InitIInv == Init => IInv
BY Numbers DEF Init, IInv, TypeOK, InGroup, Runs, Commands, Pushed, Working, Migrated, Alone,
   SchemaSuffices

(* A run enters the concurrency group, and may replace the one that waits. *)
LEMMA EnterKeeps ==
  ASSUME IInv, NEW c \in Commits, run[c] \notin {"pending", "waiting", "active"}, script[c] = "off",
         Enter(c), UNCHANGED server, main' \in Commits, main <= main', c <= main'
  PROVE  IInv'
BY Numbers DEF Enter, server, IInv, TypeOK, InGroup, Runs, Commands, Pushed, Working, Migrated, Alone, SchemaSuffices

(* A push starts a run. *)
LEMMA PushKeeps ==
  ASSUME IInv, Push
  PROVE  IInv'
<1> DEFINE c == main + 1
<1>1. main \in Int /\ main' = c /\ c \in Commits /\ main <= main' /\ c <= main'
  BY Numbers DEF Push, Commits, IInv, TypeOK
<1>2. run[c] = "none" /\ script[c] = "off"
  BY <1>1 DEF IInv, Pushed, Working
<1>3. Enter(c) /\ UNCHANGED server
  BY DEF Push
<1> HIDE DEF c
<1>4. QED
  BY <1>1, <1>2, <1>3, EnterKeeps

(* A run that ended is started again. *)
LEMMA RerunKeeps ==
  ASSUME IInv, NEW c \in Commits, Rerun(c)
  PROVE  IInv'
BY Numbers, EnterKeeps DEF Rerun, IInv, TypeOK, InGroup, Runs, Commands, Pushed, Working, Migrated, Alone, SchemaSuffices

(* The group is free for the run that waits. *)
LEMMA BeginKeeps ==
  ASSUME IInv, NEW c \in Commits, Begin(c)
  PROVE  IInv'
BY Numbers DEF Begin, server, IInv, TypeOK, InGroup, Runs, Commands, Pushed, Working, Migrated, Alone, SchemaSuffices

(* An approved run starts its script. *)
LEMMA ApproveKeeps ==
  ASSUME IInv, NEW c \in Commits, Approve(c)
  PROVE  IInv'
BY Numbers DEF Approve, IInv, TypeOK, InGroup, Runs, Commands, Pushed, Working, Migrated, Alone, SchemaSuffices

(* A run that is not approved ends. *)
LEMMA DeclineKeeps ==
  ASSUME IInv, NEW c \in Commits, Decline(c)
  PROVE  IInv'
BY Numbers DEF Decline, server, IInv, TypeOK, InGroup, Runs, Commands, Pushed, Working, Migrated, Alone, SchemaSuffices

(* The run ends and its script goes on. *)
LEMMA CutOffKeeps ==
  ASSUME IInv, NEW c \in Commits, CutOff(c)
  PROVE  IInv'
BY Numbers DEF CutOff, server, IInv, TypeOK, InGroup, Runs, Commands, Pushed, Working, Migrated, Alone, SchemaSuffices

(* The compose file becomes that of main. *)
LEMMA FetchKeeps ==
  ASSUME IInv, NEW c \in Commits, Fetch(c)
  PROVE  IInv'
BY Numbers DEF Fetch, Then, IInv, TypeOK, InGroup, Runs, Commands, Pushed, Working, Migrated, Alone, SchemaSuffices

(* The image is pulled. *)
LEMMA PullKeeps ==
  ASSUME IInv, NEW c \in Commits, Pull(c)
  PROVE  IInv'
BY Numbers DEF Pull, Then, IInv, TypeOK, InGroup, Runs, Commands, Pushed, Working, Migrated, Alone, SchemaSuffices

(* The migration reads the revision. *)
LEMMA BeginUpgradeKeeps ==
  ASSUME IInv, NEW c \in Commits, BeginUpgrade(c)
  PROVE  IInv'
BY Numbers DEF BeginUpgrade, IInv, TypeOK, InGroup, Runs, Commands, Pushed, Working, Migrated, Alone, SchemaSuffices

(* The migration moves the schema on. *)
LEMMA CommitUpgradeKeeps ==
  ASSUME IInv, NEW c \in Commits, CommitUpgrade(c)
  PROVE  IInv'
BY Numbers DEF CommitUpgrade, Then, StillThere, IInv, TypeOK, InGroup, Runs, Commands, Pushed, Working, Migrated, Alone, SchemaSuffices

(* The container is removed by a script that is alone. *)
LEMMA RemoveKeeps ==
  ASSUME IInv, NEW c \in Commits, Remove(c)
  PROVE  IInv'
BY Numbers DEF Remove, IInv, TypeOK, InGroup, Runs, Commands, Pushed, Working, Migrated, Alone, SchemaSuffices

(* The new container starts. *)
LEMMA UpKeeps ==
  ASSUME IInv, NEW c \in Commits, Up(c)
  PROVE  IInv'
BY Numbers DEF Up, Then, IInv, TypeOK, InGroup, Runs, Commands, Pushed, Working, Migrated, Alone, SchemaSuffices

(* The health of the container decides the run. *)
LEMMA GateKeeps ==
  ASSUME IInv, NEW c \in Commits, Gate(c)
  PROVE  IInv'
BY Numbers DEF Gate, Answers, IInv, TypeOK, InGroup, Runs, Commands, Pushed, Working, Migrated, Alone, SchemaSuffices

(* A command fails, or the script ends. *)
LEMMA StopKeeps ==
  ASSUME IInv, NEW c \in Commits, script[c] # "off", Stop(c)
  PROVE  IInv'
BY Numbers DEF Stop, IInv, TypeOK, InGroup, Runs, Commands, Pushed, Working, Migrated, Alone, SchemaSuffices

(* Every step keeps the invariant. *)
LEMMA NextKeeps == IInv /\ [Next]_vars => IInv'
<1> SUFFICES ASSUME IInv, [Next]_vars PROVE IInv'
  OBVIOUS
<1>1. CASE Push
  BY <1>1, PushKeeps
<1>2. ASSUME NEW c \in Commits, Rerun(c) \/ CutOff(c) \/ GitHub(c)
      PROVE  IInv'
  BY <1>2, RerunKeeps, CutOffKeeps, BeginKeeps, ApproveKeeps, DeclineKeeps DEF GitHub
<1>3. ASSUME NEW c \in Commits, Script(c) \/ Crash(c)
      PROVE  IInv'
  <2>1. GiveUp(c) \/ Crash(c) => script[c] # "off" /\ Stop(c)
    BY DEF GiveUp, Hopeless, Crash
  <2>2. QED
    BY <1>3, <2>1, FetchKeeps, PullKeeps, BeginUpgradeKeeps, CommitUpgradeKeeps, RemoveKeeps, UpKeeps,
       GateKeeps, StopKeeps DEF Script
<1>4. CASE UNCHANGED vars
  BY <1>4 DEF vars, IInv, TypeOK, InGroup, Pushed, Working, Migrated, Alone, SchemaSuffices
<1>5. QED
  BY <1>1, <1>2, <1>3, <1>4 DEF Next

(* The inductive invariant holds in every reachable state. *)
THEOREM Invariant == Spec => []IInv
BY InitIInv, NextKeeps, PTL DEF Spec

(* Types, and GitHub's one run at a time with at most one that waits for it. *)
THEOREM TypeCorrect == Spec => []TypeOK
<1>1. IInv => TypeOK
  BY DEF IInv
<1>2. QED
  BY <1>1, Invariant, PTL

(* The API never runs on a schema that lacks a migration its image counts on *)
(* (mfl-deploy-run.sh migrates before it replaces the container).            *)
THEOREM SchemaIsEnough == Spec => []SchemaSuffices
<1>1. IInv => SchemaSuffices
  BY DEF IInv, Migrated
<1>2. QED
  BY <1>1, Invariant, PTL

(* Only a run whose migration is in, and that is alone at work, stops or *)
(* replaces the API.                                                     *)
THEOREM ApiIsReplacedOnce == Spec => OnlyMigratedRunsReplaceTheApi
<1> DEFINE Replaced ==
      container' # container =>
        \E c \in Commits :
          /\ script[c] \in {"remove", "up"} /\ Head[c] <= schema /\ container' \in {None, c}
          /\ \A d \in Commits \ {c} : run[d] # "active"
<1>1. IInv /\ [Next]_vars => [Replaced]_container
  <2> SUFFICES ASSUME IInv, [Next]_vars, container' # container
      PROVE  Replaced
    OBVIOUS
  <2>1. PICK c \in Commits : Remove(c) \/ Up(c)
    BY DEF Next, vars, server, Push, Rerun, CutOff, GitHub, Begin, Approve, Decline, Script, Fetch, Pull,
       BeginUpgrade, CommitUpgrade, Gate, GiveUp, Crash, Stop
  <2>2. script[c] \in {"remove", "up"} /\ container' \in {None, c}
    BY <2>1 DEF Remove, Up
  <2>3. QED
    BY <2>2 DEF IInv, Migrated, Alone
<1>2. QED
  BY <1>1, Invariant, PTL DEF Spec, OnlyMigratedRunsReplaceTheApi

(* A run that succeeds has its own image running and answering, with a compose *)
(* file at least as new.                                                       *)
THEOREM SuccessIsReal == Spec => SuccessIsServed
<1> DEFINE Served ==
      \A c \in Commits :
        run[c] # "deployed" /\ run'[c] = "deployed" =>
          container = c /\ c \in Healthy /\ c <= checkout
<1>1. IInv /\ [Next]_vars => [Served]_run
  <2> SUFFICES ASSUME IInv, [Next]_vars, NEW c \in Commits, run[c] # "deployed", run'[c] = "deployed"
      PROVE  container = c /\ c \in Healthy /\ c <= checkout
    OBVIOUS
  <2>1. Gate(c) /\ run[c] = "active"
    BY DEF IInv, TypeOK, Next, vars, server, Enter, Push, Rerun, CutOff, GitHub, Begin, Approve, Decline,
       Script, Fetch, Pull, BeginUpgrade, CommitUpgrade, Remove, Up, Gate, GiveUp, Crash, Stop
  <2>2. QED
    BY <2>1 DEF Gate, Answers, IInv, Alone, Working
<1>2. QED
  BY <1>1, Invariant, PTL DEF Spec, SuccessIsServed
=============================================================================
