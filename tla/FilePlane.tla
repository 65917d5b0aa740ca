------------------------------ MODULE FilePlane ------------------------------
(***************************************************************************)
(* memphant compile and memphant sync: an editable tree of files that      *)
(* mirrors the canonical projection, the user who edits it, and the        *)
(* commands that bring the edits to the server and the projection to the   *)
(* tree.  FileSync is the server.                                          *)
(*                                                                         *)
(* A file is identified by its path; its content is either what the        *)
(* renderer generated for a set of units, or an edit of the user, named by *)
(* a number.  The user may touch the tree between any two steps of a       *)
(* command, a request may outlive the command that sent it, and a command  *)
(* may die between any two of its steps.                                   *)
(***************************************************************************)
EXTENDS FileSync

CONSTANTS MaxEdits,    \* bound on the user's writes
          MaxRemovals  \* bound on the user's removals of a file

VARIABLES root,        \* the output path: "absent", "empty", or an initialised "tree"
          tree,        \* path -> content
          stray,       \* a prepared file was left behind in the tree
          recovery,    \* edits kept in durable recovery directories
          cli,         \* the running command
          outcome,     \* what the last command reported
          edits,       \* what each edit of the user says
          live,        \* history: edits the user has not overwritten himself
          removed      \* history: units whose file the user removed

treeVars == <<root, tree, stray, recovery>>
userVars == <<edits, live, removed>>
vars == <<serverVars, treeVars, userVars, cli, outcome>>

UnitFile(i)  == <<"units", i>>
InboxFile(k) == <<"inbox", k>>
Memory       == <<"MEMORY", 0>>
Manifest     == <<"manifest", 0>>
Paths == {UnitFile(i) : i \in Ids} \cup {InboxFile(k) : k \in Keys} \cup {Memory, Manifest}

Gen(S)  == [of |-> S, edit |-> 0]
Edit(e) == [of |-> {}, edit |-> e]
Missing == [of |-> {}, edit |-> -1]
IsEdit(c) == c.edit > 0

EditsIn(t) == {t[p].edit : p \in {q \in DOMAIN t : IsEdit(t[q])}}

\* render_projection: every file of the tree of a projection.
Rendered(S) == [p \in Paths |->
  IF p \in {Memory, Manifest} THEN Gen(S)
  ELSE IF \E i \in S : p = UnitFile(i) THEN Gen({p[2]})
  ELSE Missing]

(***************************************************************************)
(* Reading the tree.  Readable: what scan_sync_handles accepts; its        *)
(* entries are those of the manifest, its operations the differences.      *)
(***************************************************************************)
Entries(t) == t[Manifest].of

Drifted(t, i) == t[UnitFile(i)] # Gen({i})

Readable(t) ==
  /\ root = "tree" /\ ~stray
  /\ t[Manifest] # Missing /\ ~IsEdit(t[Manifest])
  /\ t[Memory] = t[Manifest]
  /\ \A i \in Ids : t[UnitFile(i)] # Missing =>
        /\ i \in Entries(t)
        /\ IsEdit(t[UnitFile(i)]) \/ ~Drifted(t, i)
  /\ \A k \in Keys : t[InboxFile(k)] # Missing =>
        \A i \in Entries(t) : Drifted(t, i) => units[i].key # k

\* verify / validate_export_handles: exactly a rendered tree, empty inbox.
Clean(t) == root = "tree" /\ ~stray /\ t = Rendered(Entries(t)) /\ t[Manifest] # Missing

UnitOp(t, i) ==
  IF t[UnitFile(i)] = Missing
  THEN [op |-> "forget", unit |-> i, key |-> NoKey, body |-> units[i].body, edit |-> 0]
  ELSE [op |-> "correct", unit |-> i, key |-> NoKey,
        body |-> edits[t[UnitFile(i)].edit], edit |-> t[UnitFile(i)].edit]

InboxOp(t, k) ==
  [op |-> "retain", unit |-> 0, key |-> k,
   body |-> edits[t[InboxFile(k)].edit], edit |-> t[InboxFile(k)].edit]

InboxKeys(t) == {k \in Keys : t[InboxFile(k)] # Missing}

\* In the order of the file names, which says nothing about the rows: any fixed order.
Operations(t) ==
  LET drifted == SetToSeq({i \in Entries(t) : Drifted(t, i)})
      inbox == SetToSeq(InboxKeys(t))
  IN  [n \in DOMAIN drifted |-> UnitOp(t, drifted[n])]
        \o [n \in DOMAIN inbox |-> InboxOp(t, inbox[n])]

-----------------------------------------------------------------------------
(***************************************************************************)
(* A command: what it read of the tree (seen), the projection it fetched,  *)
(* the request it sent, the file tasks that are left, the state of the     *)
(* first of them, and the edits it moved to recovery.                      *)
(***************************************************************************)
Idle == [pc |-> "idle", cmd |-> "none", seen |-> <<>>, fetched |-> {}, req |-> 0,
         todo |-> <<>>, step |-> "start", moved |-> {}]

NoOutcome == [cmd |-> "none", result |-> "none", req |-> 0]

Init ==
  /\ ServerInit
  /\ root = "absent"
  /\ tree = [p \in Paths |-> Missing]
  /\ stray = FALSE /\ recovery = {}
  /\ cli = Idle /\ outcome = NoOutcome
  /\ edits = <<>> /\ live = {} /\ removed = {}

Finish(result) ==
  /\ outcome' = [cmd |-> cli.cmd, result |-> result, req |-> cli.req]
  /\ cli' = Idle

\* The first task owns a prepared file, which is never cleaned up.
HoldsPrepared == cli.todo # <<>> /\ cli.todo[1].act = "put" /\ cli.step # "start"

Unsent == {r \in Requests : requests[r].phase = "none"}

(***************************************************************************)
(* sync: read the tree, fetch the base, plan, post, fetch again, write.    *)
(***************************************************************************)
SyncScan ==
  /\ cli.pc = "idle"
  /\ Readable(tree)
  /\ cli' = [Idle EXCEPT !.pc = "scanned", !.cmd = "sync", !.seen = tree]
  /\ outcome' = NoOutcome
  /\ UNCHANGED <<serverVars, treeVars, userVars>>

SyncUnreadable ==
  /\ cli.pc = "idle"
  /\ ~Readable(tree)
  /\ outcome' = [cmd |-> "sync", result |-> "invalid", req |-> 0]
  /\ UNCHANGED <<serverVars, treeVars, userVars, cli>>

\* revalidate_sync_state: the scan again, with the same result.
Unchanged(t) == tree = t /\ ~stray

SyncFetch ==
  /\ cli.pc = "scanned" /\ cli.cmd = "sync"
  /\ \/ Finish("unavailable")
     \/ IF Projection(units) # Entries(cli.seen) THEN Finish("conflict")
        ELSE IF ~Unchanged(cli.seen) THEN Finish("invalid")
        ELSE IF Operations(cli.seen) = <<>> THEN \E result \in {"plan", "noop"} : Finish(result)
        ELSE /\ cli' = [cli EXCEPT !.pc = "planned", !.fetched = Projection(units)]
             /\ UNCHANGED outcome
  /\ UNCHANGED <<serverVars, treeVars, userVars>>

\* Without --apply the command ends with its plan.
SyncPlanOnly ==
  /\ cli.pc = "planned"
  /\ Finish("plan")
  /\ UNCHANGED <<serverVars, treeVars, userVars>>

SyncPost ==
  /\ cli.pc = "planned"
  /\ IF ~Unchanged(cli.seen)
     THEN Finish("invalid") /\ UNCHANGED requests
     ELSE LET r == Min(Unsent) IN
            /\ Unsent # {}
            /\ requests' = [requests EXCEPT ![r] =
                 [NoRequest EXCEPT !.phase = "sent", !.base = cli.fetched,
                                   !.ops = Operations(cli.seen)]]
            /\ cli' = [cli EXCEPT !.pc = "posted", !.req = r]
            /\ UNCHANGED outcome
  /\ UNCHANGED <<units, commits, foreign, treeVars, userVars>>

\* The answer of the server, or a transport failure at any time.
SyncReply ==
  /\ cli.pc = "posted"
  /\ \/ Finish("unknown")
     \/ LET q == requests[cli.req]
        IN  /\ q.phase = "answered"
            /\ CASE q.reply = "ok" ->
                      cli' = [cli EXCEPT !.pc = "committed"] /\ UNCHANGED outcome
                 [] q.reply = "server_error" -> Finish("unknown")
                 [] OTHER -> Finish(q.reply)
  /\ UNCHANGED <<serverVars, treeVars, userVars>>

(***************************************************************************)
(* Writing a projection over the files that were seen: consumed inbox      *)
(* files, the unit files, MEMORY.md, the stale unit files, and the         *)
(* manifest last.                                                          *)
(***************************************************************************)
Consume(seen) ==
  LET ks == SetToSeq({k \in Keys : seen[InboxFile(k)] # Missing})
  IN  [n \in DOMAIN ks |-> [act |-> "consume", path |-> InboxFile(ks[n])]]
PutUnits(S) ==
  LET is == SetToSeq(S)
  IN  [n \in DOMAIN is |-> [act |-> "put", path |-> UnitFile(is[n])]]
DropStale(S) ==
  LET is == SetToSeq(S)
  IN  [n \in DOMAIN is |-> [act |-> "drop", path |-> UnitFile(is[n])]]
Put(p) == <<[act |-> "put", path |-> p]>>

\* Mutant: the stale unit files go before the index is rewritten.
WriteTasksStaleFirst(seen, S) ==
  Consume(seen) \o DropStale(Entries(seen) \ S) \o PutUnits(S) \o Put(Memory) \o Put(Manifest)

WriteTasks(seen, S) ==
  Consume(seen) \o PutUnits(S) \o Put(Memory) \o DropStale(Entries(seen) \ S) \o Put(Manifest)

SyncRefetch ==
  /\ cli.pc = "committed"
  /\ \/ Finish("postcommit")
     \/ IF ~Unchanged(cli.seen) THEN Finish("postcommit")
        ELSE /\ cli' = [cli EXCEPT !.pc = "write", !.fetched = Projection(units),
                          !.todo = WriteTasks(cli.seen, Projection(units))]
             /\ UNCHANGED outcome
  /\ UNCHANGED <<serverVars, treeVars, userVars>>

WriteFailure == IF cli.cmd = "sync" THEN "postcommit" ELSE "error"
WriteFails == Finish(WriteFailure) /\ stray' = (stray \/ HoldsPrepared)

Task == cli.todo[1]
Target == Rendered(cli.fetched)[Task.path]
Expected == cli.seen[Task.path]
Advance(step) == cli' = [cli EXCEPT !.step = step] /\ UNCHANGED <<outcome, stray>>
TaskDone == cli' = [cli EXCEPT !.todo = Tail(@), !.step = "start"] /\ UNCHANGED <<outcome, stray>>

InTask(act, step) ==
  /\ cli.pc = "write" /\ cli.todo # <<>>
  /\ Task.act \in act /\ cli.step = step

validate_current_file == tree[Task.path] = Expected

\* Before anything moves: an unchanged file only has to be still there, a
\* changed one is prepared beside it; an inbox file must be as it was read.
StartTask ==
  /\ InTask({"put", "drop", "consume"}, "start")
  /\ CASE Task.act = "put" /\ Expected = Target ->
            IF validate_current_file THEN TaskDone ELSE WriteFails
       [] Task.act = "consume" ->
            IF validate_current_file THEN Advance("ready") ELSE WriteFails
       [] Task.act = "drop" /\ Expected = Missing ->
            IF tree[Task.path] = Missing THEN TaskDone ELSE WriteFails
       [] OTHER -> Advance("ready")
  /\ UNCHANGED <<serverVars, root, tree, recovery, userVars>>

\* create_recovery_area: there is no directory to move a file to, or it is no
\* longer the one that was created, so nothing moves.
NoRecoveryArea ==
  /\ InTask({"put", "drop", "consume"}, "ready")
  /\ Expected # Missing
  /\ WriteFails
  /\ UNCHANGED <<serverVars, root, tree, recovery, userVars>>

\* What a recovery directory keeps of a file that is moved there.
Recovered(c) == IF IsEdit(c) THEN {c.edit} ELSE {}

move_to_recovery ==
  /\ tree' = [tree EXCEPT ![Task.path] = Missing]
  /\ recovery' = recovery \cup Recovered(tree[Task.path])

\* Mutant: what was moved is not compared with what was read.
DetachFileUnchecked ==
  LET found == tree[Task.path]
  IN  /\ InTask({"put", "drop", "consume"}, "ready")
      /\ Expected # Missing /\ found # Missing
      /\ move_to_recovery
      /\ cli' = [cli EXCEPT !.step = "detached",
                   !.moved = @ \cup Recovered(found)]
      /\ UNCHANGED <<serverVars, root, stray, outcome, userVars>>

\* move_to_recovery and validate_detached_file: whatever is under the name is
\* moved first, and compared with what was read afterwards.
DetachFile ==
  LET found == tree[Task.path]
  IN  /\ InTask({"put", "drop", "consume"}, "ready")
      /\ Expected # Missing
      /\ IF found = Missing
         THEN WriteFails /\ UNCHANGED <<tree, recovery>>
         ELSE /\ move_to_recovery
              /\ IF found = Expected
                 THEN /\ cli' = [cli EXCEPT !.step = "detached",
                                   !.moved = @ \cup Recovered(found)]
                      /\ UNCHANGED <<outcome, stray>>
                 ELSE WriteFails
      /\ UNCHANGED <<serverVars, root, userVars>>

\* Mutant: a plain rename.
InstallFileReplacing ==
  /\ InTask({"put"}, IF Expected = Missing THEN "ready" ELSE "detached")
  /\ tree' = [tree EXCEPT ![Task.path] = Target] /\ TaskDone
  /\ UNCHANGED <<serverVars, root, recovery, userVars>>

\* rename without replacement: a file that appeared under the name stays.
InstallFile ==
  /\ InTask({"put"}, IF Expected = Missing THEN "ready" ELSE "detached")
  /\ IF tree[Task.path] = Missing
     THEN tree' = [tree EXCEPT ![Task.path] = Target] /\ TaskDone
     ELSE WriteFails /\ UNCHANGED tree
  /\ UNCHANGED <<serverVars, root, recovery, userVars>>

ConfirmGone ==
  /\ InTask({"drop", "consume"}, "detached")
  /\ IF tree[Task.path] = Missing THEN TaskDone ELSE WriteFails
  /\ UNCHANGED <<serverVars, root, tree, recovery, userVars>>

\* validate_rendered_projection_twice: two sweeps over the finished tree.
Sweep ==
  /\ cli.pc = "write" /\ cli.todo = <<>>
  /\ IF ~(Clean(tree) /\ Entries(tree) = cli.fetched) THEN WriteFails
     ELSE IF cli.step = "start" THEN Advance("swept")
     ELSE Finish(IF cli.cmd = "sync" THEN "applied" ELSE "compiled") /\ UNCHANGED stray
  /\ UNCHANGED <<serverVars, root, tree, recovery, userVars>>

(***************************************************************************)
(* compile: inspect the output, fetch, write.  An absent output is built   *)
(* in a staging directory and renamed into place; an empty one, or one     *)
(* that validates, is written in place.                                    *)
(***************************************************************************)
CompileScan ==
  /\ cli.pc = "idle"
  /\ root \in {"absent", "empty"} \/ Clean(tree)
  /\ cli' = [Idle EXCEPT !.pc = root, !.cmd = "compile", !.seen = tree]
  /\ outcome' = NoOutcome
  /\ UNCHANGED <<serverVars, treeVars, userVars>>

CompileDirty ==
  /\ cli.pc = "idle"
  /\ root = "tree" /\ ~Clean(tree)
  /\ outcome' = [cmd |-> "compile", result |-> "dirty", req |-> 0]
  /\ UNCHANGED <<serverVars, treeVars, userVars, cli>>

CompileFetch ==
  /\ cli.cmd = "compile" /\ cli.pc \in {"empty", "tree"}
  /\ \/ Finish("error") /\ UNCHANGED root
     \/ IF root # cli.pc \/ ~Unchanged(cli.seen) THEN Finish("dirty") /\ UNCHANGED root
        ELSE /\ root' = "tree"
             /\ cli' = [cli EXCEPT !.pc = "write", !.fetched = Projection(units),
                          !.todo = WriteTasks(cli.seen, Projection(units))]
             /\ UNCHANGED outcome
  /\ UNCHANGED <<serverVars, tree, stray, recovery, userVars>>

CompileStage ==
  /\ cli.cmd = "compile" /\ cli.pc = "absent"
  /\ \/ Finish("error")
     \/ cli' = [cli EXCEPT !.pc = "staged", !.fetched = Projection(units)] /\ UNCHANGED outcome
  /\ UNCHANGED <<serverVars, treeVars, userVars>>

\* The rename takes the name only if nothing has it.
CompileInstall ==
  /\ cli.pc = "staged"
  /\ IF root = "absent"
     THEN /\ root' = "tree" /\ tree' = Rendered(cli.fetched)
          /\ cli' = [cli EXCEPT !.pc = "write"] /\ UNCHANGED outcome
     ELSE Finish("error") /\ UNCHANGED <<root, tree>>
  /\ UNCHANGED <<serverVars, stray, recovery, userVars>>

\* The command dies; nothing is undone.
Crash ==
  /\ cli.pc # "idle"
  /\ stray' = (stray \/ HoldsPrepared)
  /\ Finish("crashed")
  /\ UNCHANGED <<serverVars, root, tree, recovery, userVars>>

(***************************************************************************)
(* The user.                                                               *)
(***************************************************************************)
UserMkdir ==
  /\ root = "absent"
  /\ root' = "empty"
  /\ UNCHANGED <<serverVars, tree, stray, recovery, userVars, cli, outcome>>

UserWrite(p, b) ==
  /\ root = "tree" /\ Len(edits) < MaxEdits
  /\ edits' = Append(edits, b)
  /\ tree' = [tree EXCEPT ![p] = Edit(Len(edits) + 1)]
  /\ live' = (live \ {tree[p].edit}) \cup {Len(edits) + 1}
  /\ removed' = removed \ {i \in Ids : p = UnitFile(i)}
  /\ UNCHANGED <<serverVars, root, stray, recovery, cli, outcome>>

UserEdits ==
  \E b \in Bodies :
    \/ \E i \in Ids : i \in Entries(tree) /\ units[i].body # b /\ UserWrite(UnitFile(i), b)
    \/ \E k \in Keys : UserWrite(InboxFile(k), b)
    \/ UserWrite(Memory, b)

UserRemoves(i) ==
  /\ tree[UnitFile(i)] # Missing
  /\ Cardinality(removed) < MaxRemovals
  /\ tree' = [tree EXCEPT ![UnitFile(i)] = Missing]
  /\ live' = live \ {tree[UnitFile(i)].edit}
  /\ removed' = removed \cup {i}
  /\ UNCHANGED <<serverVars, root, stray, recovery, edits, cli, outcome>>

-----------------------------------------------------------------------------
Server == \E r \in Requests :
  Admit(r) \/ PrepareRequest(r) \/ BeginRequest(r) \/ CommitRequest(r) \/ RollbackRequest(r)

Foreign ==
  \/ \E k \in Keys, b \in Bodies : ForeignRetain(k, b)
  \/ \E i, j \in DOMAIN units, b \in Bodies : ForeignCompose(i, j, b)
  \/ \E i \in DOMAIN units : ForeignForget(i)

Command ==
  \/ SyncScan \/ SyncUnreadable \/ SyncFetch \/ SyncPlanOnly \/ SyncPost \/ SyncReply
  \/ SyncRefetch \/ StartTask \/ NoRecoveryArea \/ DetachFile \/ InstallFile \/ ConfirmGone
  \/ Sweep
  \/ CompileScan \/ CompileDirty \/ CompileFetch \/ CompileStage \/ CompileInstall \/ Crash

User == UserMkdir \/ UserEdits \/ \E i \in Ids : UserRemoves(i)

Next ==
  \/ Command
  \/ User
  \/ (Server \/ Foreign) /\ UNCHANGED <<treeVars, userVars, cli, outcome>>

Spec == Init /\ [][Next]_vars

(***************************************************************************)
(* What holds.                                                             *)
(***************************************************************************)

\* The shapes of the unit table, the requests and the tree.
TypeOK ==
  /\ units \in Seq(Unit) /\ Len(units) <= MaxUnits
  /\ \A r \in Requests : /\ requests[r].base \subseteq Ids
                         /\ Range(requests[r].ops) \subseteq Operation
  /\ \A c \in commits : c.req \in Requests /\ c.created \subseteq Ids
  /\ root \in {"absent", "empty", "tree"} /\ stray \in BOOLEAN
  /\ DOMAIN tree = Paths
  /\ recovery \cup live \subseteq 1..Len(edits) /\ edits \in Seq(Bodies)
  /\ removed \subseteq Ids

\* What the user wrote and did not himself overwrite or remove is still in the
\* tree or in a recovery directory, whatever command ran, failed or died, and
\* whenever he saved (move_to_recovery before comparison, rename_noreplace).
EditsSurvive == live \subseteq EditsIn(tree) \cup recovery

\* A tree that sync would accept lacks the file of a unit only if the user
\* removed it: no death of a command in the middle of write_rendered_projection
\* leaves a tree that reads as a request to forget.
ForgetsAreIntended ==
  Readable(tree) =>
    \A i \in Entries(tree) : tree[UnitFile(i)] = Missing => i \in removed

\* What sync reports about the server is final: after "conflict" or "invalid"
\* the request was not applied and never will be, after "applied" or a failure
\* behind the commit it was (post_file_sync, post_commit_failure).  And an edit
\* is applied twice, by a sync that was run again while the outcome of the first
\* one was unknown, only after everything that the first application created was
\* forgotten (the base fingerprint, checked in the transaction).
RerunIsSafe ==
  /\ LET done == \E c \in commits : c.req = outcome.req
     IN  /\ outcome.req # 0 /\ outcome.result \in {"conflict", "invalid"} =>
               ~done /\ requests[outcome.req].phase = "answered"
         /\ outcome.result \in {"applied", "postcommit"} => done
  /\ \A c, d \in commits : c # d /\ c.edits \cap d.edits # {} =>
       \E e \in {c, d} : \A i \in e.created : units[i].state = "deleted"

\* A command that reports success has taken nothing from the tree that the server
\* did not get: every edit it moved to recovery is part of the request it committed
\* (validate_detached_file compares what was moved with what the scan read).
NoSilentDisplacement ==
  [][outcome' # outcome /\ outcome'.result \in {"applied", "compiled"} =>
       cli.moved \subseteq UNION {c.edits : c \in {d \in commits : d.req = cli.req}}]_vars
=============================================================================
