------------------------------- MODULE Deploy -------------------------------
(***************************************************************************)
(* How a commit reaches production: the workflow runs of                   *)
(* .github/workflows/deploy.yml, which GitHub serializes, and the script   *)
(* each approved run starts on the server over SSH                         *)
(* (deploy/mfl-deploy-run.sh): refresh the compose file, pull the image,   *)
(* migrate the schema (migrations/env.py), replace the container, wait for *)
(* it to be healthy.  Any step may fail, the server may stop, and a script *)
(* whose SSH session was cut goes on until it next prints.                 *)
(*                                                                         *)
(* A schema is the number of migrations applied; an image knows the first  *)
(* Head of them.                                                           *)
(***************************************************************************)
EXTENDS Integers

CONSTANTS
  Last,      \* commits are numbered from 0, which runs at the start
  Head,      \* the number of migrations in the repository at each commit
  Healthy,   \* the commits whose API answers its health check
  Reverts,   \* the commits that revert the one before them
  None

Commits == 0 .. Last

ASSUME DeployAssumption ==
  /\ Last \in Nat /\ Head \in [Commits -> Nat] /\ 0 \in Healthy /\ None \notin Commits

VARIABLES
  main,       \* the newest commit
  run,        \* the workflow run of each commit, as GitHub sees it
  script,     \* the command the script of each commit runs next on the server
  checkout,   \* the commit whose compose file the server has
  found,      \* the schema a migration read when it began
  schema,     \* the schema of the database
  container   \* the commit whose image is the API, None while there is none

vars == <<main, run, script, checkout, found, schema, container>>

Runs == {"none", "pending", "waiting", "active", "deployed", "failed", "cancelled"}
Commands == {"off", "fetch", "pull", "migrate", "upgrade", "remove", "up", "gate"}

InGroup == {c \in Commits : run[c] \in {"pending", "waiting", "active"}}

(* Of the runs in the concurrency group one is in progress and one waits for it, at most. *)
TypeOK ==
  /\ main \in Commits
  /\ \A c, d \in InGroup : (run[c] = "pending" <=> run[d] = "pending") => c = d
  /\ run \in [Commits -> Runs]
  /\ script \in [Commits -> Commands]
  /\ checkout \in Commits
  /\ found \in [Commits -> Nat]
  /\ schema \in Nat
  /\ container \in Commits \cup {None}

Init ==
  /\ main = 0
  /\ run = [c \in Commits |-> IF c = 0 THEN "deployed" ELSE "none"]
  /\ script = [c \in Commits |-> "off"]
  /\ checkout = 0
  /\ found = [c \in Commits |-> Head[0]]
  /\ schema = Head[0]
  /\ container = 0

-----------------------------------------------------------------------------
(* GitHub: one run of the group deploy-production at a time *)

MutEnter(c) == run' = [run EXCEPT ![c] = "waiting"]  \* no concurrency group

(* A new run waits for the one in progress, and takes the place of the one that *)
(* waited before it (cancel-in-progress: false).                                *)
Enter(c) ==
  run' = [d \in Commits |->
            IF d = c THEN IF InGroup = {} THEN "waiting" ELSE "pending"
            ELSE IF run[d] = "pending" THEN "cancelled" ELSE run[d]]

server == <<script, checkout, found, schema, container>>

Push ==
  /\ main < Last
  /\ main' = main + 1
  /\ Enter(main + 1)
  /\ UNCHANGED server

(* Re-run failed jobs, with the commit the run was for (and, a bound, not while its *)
(* first script still goes on).                                                     *)
Rerun(c) ==
  /\ run[c] = "failed" /\ script[c] = "off"
  /\ Enter(c)
  /\ UNCHANGED <<main, server>>

Begin(c) ==
  /\ run[c] = "pending" /\ InGroup = {c}
  /\ run' = [run EXCEPT ![c] = "waiting"]
  /\ UNCHANGED <<main, server>>

(* CI is green, the reviewer approves, the image is pushed.  That takes minutes, and *)
(* what a script that was cut off after its migration can still do takes seconds.    *)
Approve(c) ==
  /\ run[c] = "waiting"
  /\ \A d \in Commits : script[d] \notin {"remove", "up"}
  /\ run' = [run EXCEPT ![c] = "active"]
  /\ script' = [script EXCEPT ![c] = "fetch"]
  /\ UNCHANGED <<main, checkout, found, schema, container>>

(* Or not: CI is red, the reviewer refuses or lets the wait run out. *)
Decline(c) ==
  /\ run[c] = "waiting"
  /\ run' = [run EXCEPT ![c] = "failed"]
  /\ UNCHANGED <<main, server>>

(* The SSH session is cut, at command_timeout for one: nothing bounds the pull, or a *)
(* migration that waits for locks.                                                   *)
CutOff(c) ==
  /\ run[c] = "active"
  /\ run' = [run EXCEPT ![c] = "failed"]
  /\ UNCHANGED <<main, server>>

-----------------------------------------------------------------------------
(* The server: mfl-deploy-run.sh *)

MutThen(c, next) == script' = [script EXCEPT ![c] = next]  \* the echo goes nowhere, and nobody minds

(* The next command is announced by an echo; when standard output is gone, set -e *)
(* ends the script.                                                               *)
Then(c, next) ==
  script' = [script EXCEPT ![c] = IF run[c] = "active" THEN next ELSE "off"]

Fetch(c) ==
  /\ script[c] = "fetch"
  /\ checkout' = main
  /\ Then(c, "pull")
  /\ UNCHANGED <<main, run, found, schema, container>>

Pull(c) ==
  /\ script[c] = "pull"
  /\ Then(c, "migrate")
  /\ UNCHANGED <<main, run, checkout, found, schema, container>>

(* alembic upgrade head finds the revision the database is at, which the image *)
(* must know.                                                                  *)
BeginUpgrade(c) ==
  /\ script[c] = "migrate" /\ schema <= Head[c]
  /\ found' = [found EXCEPT ![c] = schema]
  /\ script' = [script EXCEPT ![c] = "upgrade"]
  /\ UNCHANGED <<main, run, checkout, schema, container>>

MutStillThere(c) == TRUE  \* the revision is written whatever it was

(* The revision is moved on from the one that was found, or not at all, unless there *)
(* was nothing to migrate.                                                           *)
StillThere(c) == found[c] \in {Head[c], schema}

(* All migrations in one transaction. *)
CommitUpgrade(c) ==
  /\ script[c] = "upgrade" /\ StillThere(c)
  /\ schema' = IF found[c] = Head[c] THEN schema ELSE Head[c]
  /\ Then(c, "remove")
  /\ UNCHANGED <<main, run, checkout, found, container>>

(* docker rm -f ledger-api, and no echo before the next command *)
Remove(c) ==
  /\ script[c] = "remove"
  /\ container' = None
  /\ script' = [script EXCEPT ![c] = "up"]
  /\ UNCHANGED <<main, run, checkout, found, schema>>

(* compose up -d api, with the image of c *)
Up(c) ==
  /\ script[c] = "up"
  /\ container' = c
  /\ Then(c, "gate")
  /\ UNCHANGED <<main, run, checkout, found, schema>>

MutAnswers == container # None  \* the container is up, whether or not it answers

(* The health check runs in whatever container is the API. *)
Answers == container \in Healthy

Gate(c) ==
  /\ script[c] = "gate" /\ Answers
  /\ run' = [run EXCEPT ![c] = IF @ = "active" THEN "deployed" ELSE @]
  /\ script' = [script EXCEPT ![c] = "off"]
  /\ UNCHANGED <<main, checkout, found, schema, container>>

(* The script ends with an error, and with it the run, if GitHub still waits. *)
Stop(c) ==
  /\ script' = [script EXCEPT ![c] = "off"]
  /\ run' = [run EXCEPT ![c] = IF @ = "active" THEN "failed" ELSE @]
  /\ UNCHANGED <<main, checkout, found, schema, container>>

MutHopeless(c) ==  \* the health check is tried for ever
  \/ script[c] = "migrate" /\ schema > Head[c]
  \/ script[c] = "upgrade" /\ ~StillThere(c)

(* An unknown revision, one that has moved on, thirty health checks in vain. *)
Hopeless(c) ==
  \/ script[c] = "migrate" /\ schema > Head[c]
  \/ script[c] = "upgrade" /\ ~StillThere(c)
  \/ script[c] = "gate" /\ ~Answers

GiveUp(c) == Hopeless(c) /\ Stop(c)

(* Any command fails, or the server stops. *)
Crash(c) == script[c] # "off" /\ Stop(c)

-----------------------------------------------------------------------------
GitHub(c) == Begin(c) \/ Approve(c) \/ Decline(c)

Script(c) ==
  \/ Fetch(c) \/ Pull(c) \/ BeginUpgrade(c) \/ CommitUpgrade(c) \/ Remove(c) \/ Up(c)
  \/ Gate(c) \/ GiveUp(c)

Next ==
  \/ Push
  \/ \E c \in Commits : Rerun(c) \/ CutOff(c) \/ GitHub(c) \/ Script(c) \/ Crash(c)

Spec == Init /\ [][Next]_vars

(* GitHub starts a pending run and ends one that nobody approves after 30 days; *)
(* the server runs what it was told to.                                         *)
FairSpec == Spec /\ \A c \in Commits : WF_vars(GitHub(c)) /\ WF_vars(Script(c))

-----------------------------------------------------------------------------
(* Properties *)

(* The API never runs on a schema that lacks a migration its image counts on,  *)
(* though runs fail, are cut off and tried again in any order, and two of them *)
(* may migrate at once.                                                        *)
SchemaSuffices == container # None => Head[container] <= schema

(* The API is only stopped or replaced for a commit whose migration is in, and  *)
(* while no other run is at work: whatever fails earlier leaves the API as it   *)
(* was, and a script that was cut off in its pull or its migration never comes  *)
(* back to undo a later deployment.                                             *)
OnlyMigratedRunsReplaceTheApi ==
  [][container' # container =>
       \E c \in Commits :
         /\ script[c] \in {"remove", "up"} /\ Head[c] <= schema /\ container' \in {None, c}
         /\ \A d \in Commits \ {c} : run[d] # "active"]_container

(* A run that succeeds has its own image running and answering, not one that a   *)
(* script that was cut off put there, with a compose file that is not older.     *)
SuccessIsServed ==
  [][\A c \in Commits :
       run[c] # "deployed" /\ run'[c] = "deployed" =>
         container = c /\ c \in Healthy /\ c <= checkout]_run

(* A run that waits or works ends, whatever state its predecessors left. *)
EveryRunEnds ==
  \A c \in Commits :
    run[c] \in {"pending", "waiting", "active"} ~> run[c] \in {"deployed", "failed", "cancelled"}

(* "git revert the bad commit and push (the pipeline redeploys the previous good *)
(* state)" (docs/block-8-cicd-deploy.md): a reverted migration stays applied,    *)
(* and the image of the revert does not know it.                                 *)
RevertsCanBeDeployed ==
  \A c \in Reverts : script[c] = "migrate" => schema <= Head[c]
=============================================================================
