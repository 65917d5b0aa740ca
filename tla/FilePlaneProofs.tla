-------------------------- MODULE FilePlaneProofs --------------------------
(***************************************************************************)
(* Proofs about the file plane and its server, for any number of units,    *)
(* keys, bodies, requests, edits, removals and writes of others: no        *)
(* command loses what the user wrote (NoEditIsLost); no command that dies  *)
(* leaves a tree that reads as a request to forget (ForgetsIntended); what *)
(* sync reports is final, and an edit that is sent twice leaves something  *)
(* only once (RerunsAreSafe); and a command that reports success has taken *)
(* nothing the server did not get (NoDisplacementIsSilent).                *)
(*                                                                         *)
(* The first rests on an invariant of the tree alone.  The others share    *)
(* one that spans the server and the command: the unit table, the          *)
(* requests, the tree, and the tasks that are left of a projection.        *)
(***************************************************************************)
EXTENDS FilePlane, FiniteSetTheorems, SequenceTheorems, WellFoundedInduction, TLAPS

-----------------------------------------------------------------------------
(***************************************************************************)
(* The inductive invariant.                                                *)
(***************************************************************************)

\* The tree maps the paths to contents, each of which is an edit or not one.
TreeShape ==
  /\ tree = [p \in Paths |-> tree[p]]
  /\ \A p \in Paths : tree[p].edit \in Int
  /\ edits \in Seq(Bodies)

\* Nothing is in a tree that is not there yet.
NoTreeNoFiles == root # "tree" => \A p \in Paths : ~IsEdit(tree[p])

\* A sync, and a command that writes, has a tree to work on.
WritesInATree ==
  /\ cli = [pc |-> cli.pc, cmd |-> cli.cmd, seen |-> cli.seen, fetched |-> cli.fetched,
            req |-> cli.req, todo |-> cli.todo, step |-> cli.step, moved |-> cli.moved]
  /\ cli.pc \in {"scanned", "planned", "posted", "committed", "write"} => root = "tree"

PlaneInv == TreeShape /\ NoTreeNoFiles /\ WritesInATree /\ EditsSurvive

-----------------------------------------------------------------------------
(***************************************************************************)
(* Contents and paths.                                                     *)
(***************************************************************************)

\* Generated files and absent ones are no edits.
LEMMA Contents ==
  /\ \A S : Gen(S).of = S /\ Gen(S).edit = 0 /\ ~IsEdit(Gen(S)) /\ Gen(S) # Missing
  /\ Missing.of = {} /\ Missing.edit = -1 /\ Missing.edit \in Int /\ ~IsEdit(Missing)
  /\ \A e \in Nat \ {0} : Edit(e).edit = e /\ IsEdit(Edit(e)) /\ Edit(e) # Missing
BY DEF Gen, Missing, Edit, IsEdit

\* A rendered tree holds no edit (render_projection).
LEMMA RenderedHasNoEdits ==
  ASSUME NEW S
  PROVE  /\ Rendered(S) = [p \in Paths |-> Rendered(S)[p]]
         /\ \A p \in Paths : Rendered(S)[p].edit \in {0, -1} /\ ~IsEdit(Rendered(S)[p])
BY Contents DEF Rendered

\* The edits of a tree, path by path.
LEMMA EditsInTree ==
  ASSUME NEW t, t = [p \in Paths |-> t[p]], NEW e
  PROVE  e \in EditsIn(t) <=> \E p \in Paths : IsEdit(t[p]) /\ t[p].edit = e
BY DEF EditsIn

\* The edits survive a step that takes no live edit out of the tree but into recovery,
\* and puts every new one into the tree.
LEMMA NothingLost ==
  ASSUME TreeShape, EditsSurvive, TreeShape', recovery \subseteq recovery',
         \A p \in Paths : \/ tree'[p] = tree[p]
                          \/ ~IsEdit(tree[p])
                          \/ tree[p].edit \in recovery'
                          \/ tree[p].edit \notin live',
         \A e \in live' \ live : e \in EditsIn(tree')
  PROVE  EditsSurvive'
<1> SUFFICES ASSUME NEW e \in live' PROVE e \in EditsIn(tree') \cup recovery'
  BY DEF EditsSurvive
<1>1. CASE e \notin live
  BY <1>1
<1>2. CASE e \in recovery
  BY <1>2
<1>3. CASE e \in EditsIn(tree)
  <2>1. PICK p \in Paths : IsEdit(tree[p]) /\ tree[p].edit = e
    BY <1>3, EditsInTree DEF TreeShape
  <2>2. CASE tree'[p] = tree[p]
    <3>1. e \in EditsIn(tree')
      BY <2>1, <2>2, EditsInTree DEF TreeShape
    <3> QED BY <3>1
  <2> QED BY <2>1, <2>2
<1> QED BY <1>1, <1>2, <1>3 DEF EditsSurvive

\* A step that touches one path of the tree.
LEMMA OnePath ==
  ASSUME TreeShape, NEW path, NEW c, c.edit \in Int, tree' = [tree EXCEPT ![path] = c],
         edits' \in Seq(Bodies)
  PROVE  /\ TreeShape'
         /\ \A p \in Paths : p # path => tree'[p] = tree[p]
         /\ path \in Paths => tree'[path] = c
<1>1. tree = [p \in Paths |-> tree[p]] /\ \A p \in Paths : tree[p].edit \in Int
  BY DEF TreeShape
<1>2. tree' = [p \in Paths |-> IF p = path THEN c ELSE tree[p]]
  BY <1>1
<1>3. \A p \in Paths : tree'[p] = IF p = path THEN c ELSE tree[p]
  BY <1>2
<1>4. tree' = [p \in Paths |-> tree'[p]]
  BY <1>2
<1>5. \A p \in Paths : tree'[p].edit \in Int
  BY <1>1, <1>3
<1> QED BY <1>3, <1>4, <1>5 DEF TreeShape

\* A step that changes neither the tree nor the user's record of it.
LEMMA SameTree ==
  ASSUME PlaneInv, UNCHANGED <<tree, recovery, userVars>>,
         root' = root \/ root' = "tree", WritesInATree'
  PROVE  PlaneInv'
BY DEF PlaneInv, TreeShape, NoTreeNoFiles, EditsSurvive, EditsIn, IsEdit, userVars

-----------------------------------------------------------------------------
(***************************************************************************)
(* The commands.                                                           *)
(***************************************************************************)

\* A command that ends is no longer at work.
LEMMA FinishIdle ==
  ASSUME NEW result, Finish(result)
  PROVE  WritesInATree'
BY DEF Finish, Idle, WritesInATree

\* The steps of sync that only read the tree.
LEMMA SyncSteps ==
  ASSUME PlaneInv,
         \/ SyncScan \/ SyncUnreadable \/ SyncFetch \/ SyncPlanOnly \/ SyncPost
         \/ SyncReply \/ SyncRefetch
  PROVE  PlaneInv'
<1>0. WritesInATree
  BY DEF PlaneInv
<1>1. UNCHANGED <<tree, recovery, root, userVars>>
  BY DEF SyncScan, SyncUnreadable, SyncFetch, SyncPlanOnly, SyncPost, SyncReply,
         SyncRefetch, treeVars
<1>2. ASSUME SyncScan PROVE WritesInATree'
  BY <1>2 DEF SyncScan, Readable, Idle, WritesInATree, treeVars
<1>3. ASSUME SyncUnreadable PROVE WritesInATree'
  BY <1>0, <1>1, <1>3 DEF SyncUnreadable, WritesInATree
<1>4. ASSUME SyncFetch PROVE WritesInATree'
  <2>1. CASE \E result : Finish(result)
    BY <2>1, FinishIdle
  <2>2. CASE cli' = [cli EXCEPT !.pc = "planned", !.fetched = Projection(units)]
    BY <1>0, <1>1, <1>4, <2>2 DEF SyncFetch, WritesInATree
  <2> QED BY <1>4, <2>1, <2>2 DEF SyncFetch
<1>5. ASSUME SyncPlanOnly PROVE WritesInATree'
  BY <1>5, FinishIdle DEF SyncPlanOnly
<1>6. ASSUME SyncPost PROVE WritesInATree'
  <2>1. CASE \E result : Finish(result)
    BY <2>1, FinishIdle
  <2>2. CASE \E r : cli' = [cli EXCEPT !.pc = "posted", !.req = r]
    BY <1>0, <1>1, <1>6, <2>2 DEF SyncPost, WritesInATree
  <2> QED BY <1>6, <2>1, <2>2 DEF SyncPost
<1>7. ASSUME SyncReply PROVE WritesInATree'
  <2>1. CASE \E result : Finish(result)
    BY <2>1, FinishIdle
  <2>2. CASE cli' = [cli EXCEPT !.pc = "committed"]
    BY <1>0, <1>1, <1>7, <2>2 DEF SyncReply, WritesInATree
  <2> QED BY <1>7, <2>1, <2>2 DEF SyncReply
<1>8. ASSUME SyncRefetch PROVE WritesInATree'
  <2>1. CASE \E result : Finish(result)
    BY <2>1, FinishIdle
  <2>2. CASE \E S, todo : cli' = [cli EXCEPT !.pc = "write", !.fetched = S, !.todo = todo]
    BY <1>0, <1>1, <1>8, <2>2 DEF SyncRefetch, WritesInATree
  <2> QED BY <1>8, <2>1, <2>2 DEF SyncRefetch
<1>9. WritesInATree'
  BY <1>2, <1>3, <1>4, <1>5, <1>6, <1>7, <1>8
<1> QED BY <1>1, <1>9, SameTree

\* The steps of compile that only read the tree.
LEMMA CompileSteps ==
  ASSUME PlaneInv, CompileScan \/ CompileDirty \/ CompileFetch \/ CompileStage
  PROVE  PlaneInv'
<1>0. WritesInATree
  BY DEF PlaneInv
<1>1. UNCHANGED <<tree, recovery, userVars>> /\ (root' = root \/ root' = "tree")
  BY DEF CompileScan, CompileDirty, CompileFetch, CompileStage, treeVars
<1>2. ASSUME CompileScan PROVE WritesInATree'
  BY <1>0, <1>2 DEF CompileScan, Clean, Idle, WritesInATree, treeVars
<1>3. ASSUME CompileDirty PROVE WritesInATree'
  BY <1>0, <1>3 DEF CompileDirty, WritesInATree, treeVars
<1>4. ASSUME CompileFetch PROVE WritesInATree'
  <2>1. CASE \E result : Finish(result)
    BY <2>1, FinishIdle
  <2>2. CASE /\ root' = "tree"
             /\ \E S, todo : cli' = [cli EXCEPT !.pc = "write", !.fetched = S, !.todo = todo]
    BY <1>0, <2>2 DEF WritesInATree
  <2> QED BY <1>4, <2>1, <2>2 DEF CompileFetch
<1>5. ASSUME CompileStage PROVE WritesInATree'
  <2>1. CASE \E result : Finish(result)
    BY <2>1, FinishIdle
  <2>2. CASE \E S : cli' = [cli EXCEPT !.pc = "staged", !.fetched = S]
    BY <1>0, <2>2 DEF WritesInATree
  <2> QED BY <1>5, <2>1, <2>2 DEF CompileStage
<1>6. WritesInATree'
  BY <1>2, <1>3, <1>4, <1>5
<1> QED BY <1>1, <1>6, SameTree

\* A task that goes on, ends or fails leaves the command in the tree or idle.
LEMMA TaskSteps ==
  ASSUME WritesInATree, UNCHANGED root,
         \/ WriteFails
         \/ TaskDone
         \/ \E step : Advance(step)
         \/ \E step, moved : cli' = [cli EXCEPT !.step = step, !.moved = moved]
  PROVE  WritesInATree'
<1>1. CASE WriteFails
  BY <1>1, FinishIdle DEF WriteFails
<1>2. CASE TaskDone
  BY <1>2 DEF TaskDone, WritesInATree
<1>3. CASE \E step : Advance(step)
  BY <1>3 DEF Advance, WritesInATree
<1>4. CASE \E step, moved : cli' = [cli EXCEPT !.step = step, !.moved = moved]
  BY <1>4 DEF WritesInATree
<1> QED BY <1>1, <1>2, <1>3, <1>4

\* The steps of a task, and the sweeps behind the last one, that move no file.
LEMMA IdleTaskSteps ==
  ASSUME PlaneInv, StartTask \/ NoRecoveryArea \/ ConfirmGone \/ Sweep \/ Crash
  PROVE  PlaneInv'
<1>0. WritesInATree
  BY DEF PlaneInv
<1>1. UNCHANGED <<tree, recovery, root, userVars>>
  BY DEF StartTask, NoRecoveryArea, ConfirmGone, Sweep, Crash
<1>2. ASSUME StartTask PROVE WritesInATree'
  <2>1. WriteFails \/ TaskDone \/ Advance("ready")
    BY <1>2 DEF StartTask
  <2> QED BY <1>0, <1>1, <2>1, TaskSteps
<1>3. ASSUME NoRecoveryArea PROVE WritesInATree'
  BY <1>0, <1>1, <1>3, TaskSteps DEF NoRecoveryArea
<1>4. ASSUME ConfirmGone PROVE WritesInATree'
  <2>1. WriteFails \/ TaskDone
    BY <1>4 DEF ConfirmGone
  <2> QED BY <1>0, <1>1, <2>1, TaskSteps
<1>5. ASSUME Sweep PROVE WritesInATree'
  <2>1. WriteFails \/ Advance("swept") \/ \E result : Finish(result)
    BY <1>5 DEF Sweep
  <2> QED BY <1>0, <1>1, <2>1, TaskSteps, FinishIdle
<1>6. ASSUME Crash PROVE WritesInATree'
  BY <1>6, FinishIdle DEF Crash
<1>7. WritesInATree'
  BY <1>2, <1>3, <1>4, <1>5, <1>6
<1> QED BY <1>1, <1>7, SameTree

\* Detaching a file takes whatever is under the name to recovery, before it is compared
\* with what was read (move_to_recovery, validate_detached_file).
LEMMA DetachFileSaves ==
  ASSUME PlaneInv, DetachFile
  PROVE  PlaneInv'
<1>0. /\ WritesInATree /\ TreeShape /\ EditsSurvive
      /\ UNCHANGED <<root, userVars>> /\ edits' \in Seq(Bodies)
  BY DEF PlaneInv, TreeShape, DetachFile, userVars
<1>1. WritesInATree'
  <2>1. \/ WriteFails
        \/ \E moved : cli' = [cli EXCEPT !.step = "detached", !.moved = moved]
    BY DEF DetachFile
  <2> QED BY <1>0, <2>1, TaskSteps
<1>2. CASE UNCHANGED <<tree, recovery>>
  BY <1>0, <1>1, <1>2, SameTree
<1>3. CASE move_to_recovery
  <2>1. root = "tree" /\ root' = "tree"
    BY <1>0 DEF DetachFile, InTask, WritesInATree
  <2>2. /\ TreeShape'
        /\ \A p \in Paths : p # Task.path => tree'[p] = tree[p]
    <3> DEFINE path == Task.path
    <3>1. tree' = [tree EXCEPT ![path] = Missing]
      BY <1>3 DEF move_to_recovery
    <3> HIDE DEF path
    <3>2. Missing.edit \in Int
      BY Contents
    <3>3. TreeShape' /\ \A p \in Paths : p # path => tree'[p] = tree[p]
      BY <1>0, <3>1, <3>2, OnePath
    <3> QED BY <3>3 DEF path
  <2>3. IsEdit(tree[Task.path]) => tree[Task.path].edit \in recovery'
    BY <1>3 DEF move_to_recovery, Recovered
  <2>4. recovery \subseteq recovery' /\ live' = live
    BY <1>0, <1>3 DEF move_to_recovery, userVars
  <2>5. EditsSurvive'
    BY <1>0, <2>2, <2>3, <2>4, NothingLost
  <2> QED BY <1>1, <2>1, <2>2, <2>5 DEF PlaneInv, NoTreeNoFiles
<1> QED BY <1>2, <1>3 DEF DetachFile

\* A file is installed under a name that nothing has (rename_noreplace).
LEMMA InstallFileSaves ==
  ASSUME PlaneInv, InstallFile
  PROVE  PlaneInv'
<1>0. /\ WritesInATree /\ TreeShape /\ EditsSurvive
      /\ UNCHANGED <<root, recovery, userVars>> /\ edits' \in Seq(Bodies)
  BY DEF PlaneInv, TreeShape, InstallFile, userVars
<1>1. WritesInATree'
  <2>1. WriteFails \/ TaskDone
    BY DEF InstallFile
  <2> QED BY <1>0, <2>1, TaskSteps
<1>2. CASE UNCHANGED tree
  BY <1>0, <1>1, <1>2, SameTree
<1>3. CASE tree[Task.path] = Missing /\ tree' = [tree EXCEPT ![Task.path] = Target]
  <2>1. root = "tree" /\ root' = "tree"
    BY <1>0 DEF InstallFile, InTask, WritesInATree
  <2>2. CASE Task.path \in Paths
    <3> DEFINE path == Task.path
               c == Target
    <3>1. tree' = [tree EXCEPT ![path] = c] /\ c.edit \in Int
      BY <1>3, <2>2, RenderedHasNoEdits DEF Target
    <3>2. ~IsEdit(tree[path])
      BY <1>3, Contents
    <3> HIDE DEF path, c
    <3>3. TreeShape' /\ \A p \in Paths : p # path => tree'[p] = tree[p]
      BY <1>0, <3>1, OnePath
    <3>4. EditsSurvive'
      BY <1>0, <3>2, <3>3, NothingLost DEF userVars
    <3> QED BY <1>1, <2>1, <3>3, <3>4 DEF PlaneInv, NoTreeNoFiles
  <2>3. CASE Task.path \notin Paths
    <3> DEFINE path == Task.path
               c == Target
    <3>1. tree' = [tree EXCEPT ![path] = c] /\ path \notin Paths
      BY <1>3, <2>3
    <3> HIDE DEF path, c
    <3>2. tree' = tree
      BY <1>0, <3>1 DEF TreeShape
    <3> QED BY <1>0, <1>1, <3>2, SameTree
  <2> QED BY <2>2, <2>3
<1> QED BY <1>2, <1>3 DEF InstallFile

\* The staged tree takes the name only if nothing has it.
LEMMA CompileInstallSaves ==
  ASSUME PlaneInv, CompileInstall
  PROVE  PlaneInv'
<1>0. /\ WritesInATree /\ TreeShape /\ EditsSurvive /\ NoTreeNoFiles
      /\ UNCHANGED <<recovery, userVars>>
  BY DEF PlaneInv, CompileInstall
<1>1. CASE UNCHANGED <<root, tree>> /\ Finish("error")
  BY <1>0, <1>1, FinishIdle, SameTree
<1>2. CASE /\ root = "absent" /\ root' = "tree" /\ tree' = Rendered(cli.fetched)
           /\ cli' = [cli EXCEPT !.pc = "write"]
  <2>1. WritesInATree'
    BY <1>0, <1>2 DEF WritesInATree
  <2>2. TreeShape'
    BY <1>0, <1>2, RenderedHasNoEdits DEF TreeShape, userVars
  <2>3. \A p \in Paths : ~IsEdit(tree[p])
    BY <1>0, <1>2 DEF NoTreeNoFiles
  <2>4. EditsSurvive'
    BY <1>0, <2>2, <2>3, NothingLost DEF userVars
  <2> QED BY <1>2, <2>1, <2>2, <2>4 DEF PlaneInv, NoTreeNoFiles
<1> QED BY <1>1, <1>2 DEF CompileInstall

-----------------------------------------------------------------------------
(***************************************************************************)
(* The user.                                                               *)
(***************************************************************************)

\* A new directory is empty.
LEMMA UserMkdirSaves ==
  ASSUME PlaneInv, UserMkdir
  PROVE  PlaneInv'
BY DEF UserMkdir, PlaneInv, TreeShape, NoTreeNoFiles, WritesInATree, EditsSurvive,
       EditsIn, IsEdit, userVars

\* An edit of the user replaces what he had written there before.
LEMMA UserWriteSaves ==
  ASSUME PlaneInv, NEW path \in Paths, NEW b \in Bodies, UserWrite(path, b)
  PROVE  PlaneInv'
<1> DEFINE n == Len(edits) + 1
           c == Edit(n)
<1>1. /\ TreeShape /\ EditsSurvive /\ WritesInATree /\ root = "tree" /\ root' = "tree"
      /\ cli' = cli /\ recovery' = recovery
  BY DEF UserWrite, PlaneInv
<1>2. n \in Nat \ {0} /\ edits' \in Seq(Bodies)
  BY <1>1 DEF UserWrite, TreeShape
<1>3. c.edit = n /\ c.edit \in Int /\ IsEdit(c)
  BY <1>2, Contents
<1>4. tree' = [tree EXCEPT ![path] = c] /\ live' = (live \ {tree[path].edit}) \cup {n}
  BY DEF UserWrite
<1> HIDE DEF n, c
<1>5. /\ TreeShape' /\ \A p \in Paths : p # path => tree'[p] = tree[p]
      /\ tree'[path] = c
  BY <1>1, <1>2, <1>3, <1>4, OnePath
<1>6. n \in EditsIn(tree')
  BY <1>3, <1>5, EditsInTree DEF TreeShape
<1>7. EditsSurvive'
  <2> SUFFICES ASSUME NEW e \in live' PROVE e \in EditsIn(tree') \cup recovery'
    BY DEF EditsSurvive
  <2>1. CASE e = n
    BY <1>6, <2>1
  <2>2. CASE e # n
    <3>1. e \in live /\ e # tree[path].edit
      BY <1>4, <2>2
    <3>2. CASE e \in EditsIn(tree)
      <4>1. PICK p \in Paths : IsEdit(tree[p]) /\ tree[p].edit = e
        BY <1>1, <3>2, EditsInTree DEF TreeShape
      <4>2. tree'[p] = tree[p]
        BY <1>5, <3>1, <4>1
      <4>3. e \in EditsIn(tree')
        BY <1>5, <4>1, <4>2, EditsInTree DEF TreeShape
      <4> QED BY <4>3
    <3> QED BY <1>1, <3>1, <3>2 DEF EditsSurvive
  <2> QED BY <2>1, <2>2
<1>8. WritesInATree'
  BY <1>1 DEF WritesInATree
<1> QED BY <1>1, <1>5, <1>7, <1>8 DEF PlaneInv, NoTreeNoFiles

\* A removed file is no longer the user's to lose.
LEMMA UserRemovesSaves ==
  ASSUME PlaneInv, NEW i \in Ids, UserRemoves(i)
  PROVE  PlaneInv'
<1> DEFINE path == UnitFile(i)
<1>1. /\ TreeShape /\ EditsSurvive /\ WritesInATree /\ NoTreeNoFiles /\ root' = root
      /\ cli' = cli /\ recovery' = recovery /\ edits' \in Seq(Bodies)
  BY DEF UserRemoves, PlaneInv, TreeShape
<1>2. tree' = [tree EXCEPT ![path] = Missing] /\ live' = live \ {tree[path].edit}
  BY DEF UserRemoves
<1> HIDE DEF path
<1>3. /\ TreeShape' /\ \A p \in Paths : p # path => tree'[p] = tree[p]
      /\ path \in Paths => tree'[path] = Missing
  <2>1. Missing.edit \in Int
    BY Contents
  <2> QED BY <1>1, <1>2, <2>1, OnePath
<1>4. EditsSurvive'
  BY <1>1, <1>2, <1>3, NothingLost
<1>5. WritesInATree'
  BY <1>1 DEF WritesInATree
<1>6. NoTreeNoFiles'
  BY <1>1, <1>3, Contents DEF NoTreeNoFiles, IsEdit
<1> QED BY <1>3, <1>4, <1>5, <1>6 DEF PlaneInv

-----------------------------------------------------------------------------
(***************************************************************************)
(* The theorem.                                                            *)
(***************************************************************************)

\* Every step of the specification preserves the invariant.
LEMMA PlaneNext == PlaneInv /\ [Next]_vars => PlaneInv'
<1> SUFFICES ASSUME PlaneInv, [Next]_vars PROVE PlaneInv'
  OBVIOUS
<1>1. CASE Command
  BY <1>1, SyncSteps, CompileSteps, IdleTaskSteps, DetachFileSaves, InstallFileSaves,
     CompileInstallSaves DEF Command
<1>2. CASE User
  <2>1. ASSUME UserEdits PROVE PlaneInv'
    <3>1. PICK path \in Paths, b \in Bodies : UserWrite(path, b)
      <4>1. /\ \A i \in Ids : UnitFile(i) \in Paths
            /\ \A k \in Keys : InboxFile(k) \in Paths
            /\ Memory \in Paths
        BY DEF Paths
      <4> QED BY <2>1, <4>1 DEF UserEdits
    <3> QED BY <3>1, UserWriteSaves
  <2> QED BY <1>2, <2>1, UserMkdirSaves, UserRemovesSaves DEF User
<1>3. CASE UNCHANGED <<treeVars, userVars, cli, outcome>>
  BY <1>3, SameTree DEF PlaneInv, WritesInATree, treeVars
<1>4. CASE UNCHANGED vars
  BY <1>3, <1>4 DEF vars
<1> QED BY <1>1, <1>2, <1>3, <1>4 DEF Next

\* An absent output, and nothing written yet.
LEMMA PlaneInit == Init => PlaneInv
<1> SUFFICES ASSUME Init PROVE PlaneInv
  OBVIOUS
<1>1. TreeShape /\ NoTreeNoFiles
  BY Contents DEF Init, TreeShape, NoTreeNoFiles
<1>2. WritesInATree
  BY DEF Init, WritesInATree, Idle
<1>3. EditsSurvive
  BY DEF Init, EditsSurvive
<1> QED BY <1>1, <1>2, <1>3 DEF PlaneInv

\* What the user wrote and did not himself overwrite or remove is in the tree or in a
\* recovery directory, whatever command ran, failed or died, and whenever he saved
\* (move_to_recovery before the comparison, rename_noreplace).
THEOREM NoEditIsLost == Spec => []EditsSurvive
<1>1. PlaneInv => EditsSurvive
  BY DEF PlaneInv
<1> QED BY <1>1, PlaneInit, PlaneNext, PTL DEF Spec

-----------------------------------------------------------------------------
(***************************************************************************)
(* The unit table: what a write of the server keeps of it.                 *)
(***************************************************************************)

\* A row of the table or of a working copy of it.
Row == [key : Keys \cup {NoKey}, body : Bodies, state : UnitStates,
        prev : Nat, from : SUBSET Nat]

\* A prepared operation.
Op == [op : {"correct", "retain", "forget"}, unit : Nat, key : Keys \cup {NoKey},
       body : Bodies, edit : Nat]

\* A row supersedes an earlier one, which is active no longer; beliefs that were composed
\* are no facts and never active.
RowOk(us, n) ==
  /\ us[n].prev < n
  /\ us[n].prev # 0 => us[n].from = {} /\ us[us[n].prev].state # "active"
  /\ us[n].from = {} => us[n].state \in {"active", "superseded", "deleted"}
  /\ us[n].from # {} => us[n].state \notin {"active", "superseded"}

\* What was superseded has a successor, unless the lineage was forgotten.
Succeeded(us, i) ==
  us[i].state = "superseded" => \E n \in DOMAIN us : us[n].prev = i /\ us[n].state # "deleted"

Table(us) == us \in Seq(Row) /\ \A n \in DOMAIN us : RowOk(us, n) /\ Succeeded(us, n)

\* Later tables of the same context: only the states of rows change, no row becomes active,
\* a deleted one stays so, and a row is deleted with the one it supersedes.
Later(us, ws, i) ==
  /\ ws[i] = [us[i] EXCEPT !.state = ws[i].state]
  /\ ws[i].state = "active" => us[i].state = "active"
  /\ us[i].state = "deleted" => ws[i].state = "deleted"
  /\ ws[i].state = "deleted" /\ us[i].state # "deleted" /\ us[i].prev # 0
       => ws[us[i].prev].state = "deleted"

Evolves(us, ws) == Len(us) <= Len(ws) /\ \A i \in DOMAIN us : Later(us, ws, i)

\* A table is its own successor.
LEMMA EvolvesReflexive ==
  ASSUME NEW us, Table(us)
  PROVE  Evolves(us, us)
<1>1. us \in Seq(Row) /\ \A i \in DOMAIN us : us[i] \in Row
  BY DEF Table
<1>2. \A i \in DOMAIN us : us[i] = [us[i] EXCEPT !.state = us[i].state]
  BY <1>1 DEF Row
<1> QED BY <1>1, <1>2 DEF Evolves, Later

\* A later table of a later one is a later one.
LEMMA EvolvesTransitive ==
  ASSUME NEW us, NEW vs, NEW ws, Table(us), Table(vs), Table(ws),
         Evolves(us, vs), Evolves(vs, ws)
  PROVE  Evolves(us, ws)
<1>1. us \in Seq(Row) /\ vs \in Seq(Row) /\ ws \in Seq(Row) /\ Len(us) <= Len(vs) /\ Len(vs) <= Len(ws)
  BY DEF Table, Evolves
<1>2. SUFFICES ASSUME NEW i \in DOMAIN us PROVE Later(us, ws, i)
  BY <1>1 DEF Evolves
<1>3. i \in DOMAIN vs /\ i \in DOMAIN ws /\ us[i] \in Row /\ vs[i] \in Row /\ ws[i] \in Row
  BY <1>1
<1>4. Later(us, vs, i) /\ Later(vs, ws, i) /\ RowOk(us, i)
  BY <1>3 DEF Evolves, Table
<1>5. vs[i].prev = us[i].prev
  BY <1>3, <1>4 DEF Later, Row
<1>6. ASSUME us[i].prev # 0 PROVE us[i].prev \in DOMAIN us /\ us[i].prev \in DOMAIN vs
  <2>1. us[i].prev \in Nat
    BY <1>3 DEF Row
  <2>2. us[i].prev < i
    BY <1>4 DEF RowOk
  <2>3. DOMAIN us = 1..Len(us) /\ DOMAIN vs = 1..Len(vs) /\ Len(us) \in Nat /\ Len(vs) \in Nat
    BY <1>1
  <2> QED BY ONLY <1>1, <1>2, <1>6, <2>1, <2>2, <2>3
<1>7. ASSUME us[i].prev # 0 PROVE Later(vs, ws, us[i].prev)
  BY <1>6, <1>7 DEF Evolves
<1>8. ws[i] = [us[i] EXCEPT !.state = ws[i].state]
  BY <1>3, <1>4 DEF Later, Row
<1> QED BY <1>3, <1>4, <1>5, <1>7, <1>8 DEF Later

\* The rows that are served.
LEMMA ProjectionOf ==
  ASSUME NEW us, Table(us), NEW i
  PROVE  i \in Projection(us) <=> i \in DOMAIN us /\ us[i].state = "active"
BY DEF Projection

\* Setting the state of some rows.
LEMMA SetStateOf ==
  ASSUME NEW us \in Seq(Row), NEW S, NEW st \in UnitStates
  PROVE  /\ SetState(us, S, st) \in Seq(Row) /\ Len(SetState(us, S, st)) = Len(us)
         /\ DOMAIN SetState(us, S, st) = DOMAIN us
         /\ \A i \in DOMAIN us :
              SetState(us, S, st)[i] = [us[i] EXCEPT !.state = IF i \in S THEN st ELSE us[i].state]
<1>1. \A i \in DOMAIN us : us[i] \in Row
  OBVIOUS
<1>2. \A i \in DOMAIN us : us[i] = [us[i] EXCEPT !.state = us[i].state]
  BY <1>1 DEF Row
<1>3. \A i \in DOMAIN us :
        SetState(us, S, st)[i] = [us[i] EXCEPT !.state = IF i \in S THEN st ELSE us[i].state]
  BY <1>1, <1>2 DEF SetState
<1>4. \A i \in DOMAIN us : [us[i] EXCEPT !.state = IF i \in S THEN st ELSE us[i].state] \in Row
  BY <1>1 DEF Row, UnitStates
<1>5. SetState(us, S, st) \in [1..Len(us) -> Row]
  BY <1>3, <1>4 DEF SetState
<1> QED BY <1>3, <1>5

\* Where a table is later than another, facts keep what they supersede and stay facts.
LEMMA SameColumns ==
  ASSUME NEW us, NEW ws, us \in Seq(Row), NEW i \in DOMAIN us, Later(us, ws, i)
  PROVE  ws[i].key = us[i].key /\ ws[i].prev = us[i].prev /\ ws[i].from = us[i].from
<1>1. us[i] \in Row
  OBVIOUS
<1> QED BY <1>1 DEF Later, Row

\* Every set of natural numbers has a least one.
LEMMA LeastNumber ==
  ASSUME NEW T \in SUBSET Nat, T # {}
  PROVE  \E x \in T : \A y \in T : x <= y
<1>1. IsWellFoundedOn(OpToRel(<, Nat), Nat)
  BY NatLessThanWellFounded
<1>2. PICK x \in T : \A y \in T : ~(<<y, x>> \in OpToRel(<, Nat))
  BY <1>1, WFMin
<1>3. \A y \in T : ~(y < x)
  BY <1>2 DEF OpToRel
<1> QED BY <1>3

\* The first row of a lineage.
LEMMA RootsOf ==
  ASSUME NEW us, Table(us)
  PROVE  Roots(us) = [j \in DOMAIN us |-> IF us[j].prev = 0 THEN j ELSE Roots(us)[us[j].prev]]
<1> DEFINE Upto(n) == \E r : r = [j \in 1..n |-> IF us[j].prev = 0 THEN j ELSE r[us[j].prev]]
           Bad == {n \in 0..Len(us) : ~Upto(n)}
<1>0. us \in Seq(Row) /\ Len(us) \in Nat /\ DOMAIN us = 1..Len(us)
  BY DEF Table
<1>1. Bad = {}
  <2> SUFFICES ASSUME Bad # {} PROVE FALSE
    OBVIOUS
  <2>1. PICK x \in Bad : \A y \in Bad : x <= y
    <3>1. Bad \in SUBSET Nat
      BY <1>0
    <3> HIDE DEF Bad
    <3> QED BY <3>1, LeastNumber
  <2>2. x # 0
    <3>1. <<>> = [j \in 1..0 |-> IF us[j].prev = 0 THEN j ELSE <<>>[us[j].prev]]
      OBVIOUS
    <3>2. Upto(0)
      BY <3>1
    <3> QED BY <2>1, <3>2
  <2>3. x - 1 \in 0..Len(us) /\ x \in 1..Len(us) /\ x - 1 \notin Bad
    BY <1>0, <2>1, <2>2
  <2>4. PICK r : r = [j \in 1..(x - 1) |-> IF us[j].prev = 0 THEN j ELSE r[us[j].prev]]
    BY <2>3
  <2> DEFINE s == [j \in 1..x |-> IF j = x THEN IF us[j].prev = 0 THEN j ELSE r[us[j].prev]
                                  ELSE r[j]]
  <2>5. \A j \in 1..x : us[j].prev \in Nat /\ us[j].prev < j
    <3>1. \A j \in 1..x : j \in DOMAIN us /\ us[j] \in Row
      BY <1>0, <2>3
    <3>2. \A j \in 1..x : RowOk(us, j)
      BY <3>1 DEF Table
    <3> QED BY <3>1, <3>2 DEF RowOk, Row
  <2>6. \A j \in 1..x : us[j].prev # 0 => us[j].prev \in 1..(x - 1) /\ s[us[j].prev] = r[us[j].prev]
    BY <2>3, <2>5
  <2>7. \A j \in 1..x : s[j] = IF us[j].prev = 0 THEN j ELSE s[us[j].prev]
    <3> SUFFICES ASSUME NEW j \in 1..x PROVE s[j] = IF us[j].prev = 0 THEN j ELSE s[us[j].prev]
      OBVIOUS
    <3>1. s[j] = IF us[j].prev = 0 THEN j ELSE r[us[j].prev]
      <4>1. CASE j = x
        BY <4>1
      <4>2. CASE j # x
        <5>1. j \in 1..(x - 1)
          BY <2>3, <4>2
        <5>2. r[j] = IF us[j].prev = 0 THEN j ELSE r[us[j].prev]
          BY <2>4, <5>1
        <5> QED BY <4>2, <5>2
      <4> QED BY <4>1, <4>2
    <3> QED BY <2>6, <3>1
  <2>8. s = [j \in 1..x |-> IF us[j].prev = 0 THEN j ELSE s[us[j].prev]]
    BY <2>7
  <2> HIDE DEF s
  <2>9. Upto(x)
    BY <2>8
  <2> QED BY <2>1, <2>9
<1>2. Upto(Len(us))
  BY <1>0, <1>1
<1>3. \E r : r = [j \in DOMAIN us |-> IF us[j].prev = 0 THEN j ELSE r[us[j].prev]]
  BY <1>0, <1>2
<1> QED BY <1>3 DEF Roots

\* A row is in the lineage of a row exactly if what it supersedes is.
LEMMA LineageOf ==
  ASSUME NEW us, Table(us), NEW i \in DOMAIN us
  PROVE  /\ i \in Lineage(us, i)
         /\ \A j \in DOMAIN us : us[j].prev # 0 =>
              (j \in Lineage(us, i) <=> us[j].prev \in Lineage(us, i))
<1>1. us \in Seq(Row)
  BY DEF Table
<1>2. \A j \in DOMAIN us : us[j].prev # 0 =>
        us[j].prev \in DOMAIN us /\ Roots(us)[j] = Roots(us)[us[j].prev]
  <2> SUFFICES ASSUME NEW j \in DOMAIN us, us[j].prev # 0
               PROVE us[j].prev \in DOMAIN us /\ Roots(us)[j] = Roots(us)[us[j].prev]
    OBVIOUS
  <2>1. us[j].prev \in DOMAIN us
    <3>1. us[j] \in Row /\ RowOk(us, j)
      BY <1>1 DEF Table
    <3> QED BY <1>1, <3>1 DEF RowOk, Row
  <2> QED BY <2>1, RootsOf
<1> QED BY <1>2 DEF Lineage

-----------------------------------------------------------------------------
(***************************************************************************)
(* One operation.                                                          *)
(***************************************************************************)

\* The row that a direct fact closes is the active one of its key, if there is one.
LEMMA OpenOnOf ==
  ASSUME NEW us, Table(us), NEW k
  PROVE  \/ OpenOn(us, k) = 0
         \/ OpenOn(us, k) \in Projection(us) /\ us[OpenOn(us, k)].key = k
<1> DEFINE open == {i \in Projection(us) : us[i].key = k}
<1>1. CASE open = {}
  BY <1>1 DEF OpenOn
<1>2. CASE open # {}
  <2>1. (CHOOSE i \in open : TRUE) \in open
    BY <1>2
  <2> QED BY <1>2, <2>1 DEF OpenOn
<1> QED BY <1>1, <1>2

\* What staging an operation needs.
Legal(us, o) ==
  /\ o \in Op
  /\ o.op = "correct" => o.unit \in Projection(us)
  /\ o.op = "forget" => o.unit \in DOMAIN us
  /\ o.op = "retain" => o.unit = 0 \/ o.unit \in Projection(us)

\* A forget deletes a lineage, and the beliefs composed from it.
LEMMA ForgottenOf ==
  ASSUME NEW us, Table(us), NEW i \in DOMAIN us
  PROVE  /\ Table(Forgotten(us, i)) /\ Evolves(us, Forgotten(us, i))
         /\ Len(Forgotten(us, i)) = Len(us) /\ Forgotten(us, i)[i].state = "deleted"
<1> DEFINE erased == {j \in Lineage(us, i) : us[j].state # "deleted"}
           gone == erased \cup Dependents(us, erased)
           ws == Forgotten(us, i)
<1>1. us \in Seq(Row) /\ \A n \in DOMAIN us : us[n] \in Row /\ RowOk(us, n) /\ Succeeded(us, n)
  BY DEF Table
<1>2. ws = SetState(us, gone, "deleted")
  BY DEF Forgotten
<1>3. /\ ws \in Seq(Row) /\ Len(ws) = Len(us) /\ DOMAIN ws = DOMAIN us
      /\ \A n \in DOMAIN us :
           ws[n] = [us[n] EXCEPT !.state = IF n \in gone THEN "deleted" ELSE us[n].state]
  <2>1. "deleted" \in UnitStates
    BY DEF UnitStates
  <2> HIDE DEF gone, ws
  <2> QED BY <1>1, <1>2, <2>1, SetStateOf
<1>4. \A n \in DOMAIN us : us[n].from = {} => (n \in gone <=> n \in erased)
  BY DEF Dependents
<1> HIDE DEF ws, gone
<1>5. \A n \in DOMAIN us : /\ ws[n] \in Row /\ ws[n].key = us[n].key /\ ws[n].prev = us[n].prev /\ ws[n].from = us[n].from
                           /\ ws[n].state = IF n \in gone THEN "deleted" ELSE us[n].state
  BY <1>1, <1>3 DEF Row
<1>6. \A n \in DOMAIN us : us[n].prev # 0 => us[n].prev \in DOMAIN us /\ us[n].from = {}
  BY <1>1 DEF RowOk, Row
<1>7. \A n \in DOMAIN us : us[n].prev # 0 =>
        (n \in Lineage(us, i) <=> us[n].prev \in Lineage(us, i))
  BY LineageOf
<1>8. \A n \in DOMAIN us : Later(us, ws, n)
  <2> SUFFICES ASSUME NEW n \in DOMAIN us PROVE Later(us, ws, n)
    OBVIOUS
  <2>1. ws[n] = [us[n] EXCEPT !.state = ws[n].state]
    BY <1>3, <1>5
  <2>2. ASSUME ws[n].state = "deleted", us[n].state # "deleted", us[n].prev # 0
        PROVE  ws[us[n].prev].state = "deleted"
    <3>1. n \in erased /\ us[n].prev \in DOMAIN us
      BY <1>4, <1>5, <1>6, <2>2
    <3>2. us[n].prev \in Lineage(us, i)
      BY <1>7, <2>2, <3>1
    <3>3. us[n].prev \in gone \/ us[us[n].prev].state = "deleted"
      BY <3>2 DEF gone
    <3> QED BY <1>5, <3>1, <3>3
  <2> QED BY <1>5, <2>1, <2>2 DEF Later
<1>9. ASSUME NEW n \in DOMAIN us PROVE RowOk(ws, n) /\ Succeeded(ws, n)
  <2>1. RowOk(ws, n)
    <3>1. ws[n].prev # 0 => us[n].prev \in DOMAIN us /\ ws[us[n].prev].state # "active"
      BY <1>1, <1>5, <1>6 DEF RowOk
    <3> QED BY <1>1, <1>5, <3>1 DEF RowOk
  <2>2. ASSUME ws[n].state = "superseded"
        PROVE  \E m \in DOMAIN ws : ws[m].prev = n /\ ws[m].state # "deleted"
    <3>1. us[n].state = "superseded" /\ n \notin gone /\ us[n].from = {}
      BY <1>1, <1>5, <2>2 DEF RowOk
    <3>2. PICK m \in DOMAIN us : us[m].prev = n /\ us[m].state # "deleted"
      BY <1>1, <3>1 DEF Succeeded
    <3>3. n # 0
      BY <1>1
    <3>4. us[m].from = {} /\ n \notin Lineage(us, i)
      BY <1>4, <1>6, <3>1, <3>2, <3>3 DEF gone
    <3>5. m \notin gone
      BY <1>4, <1>7, <3>2, <3>3, <3>4
    <3> QED BY <1>3, <1>5, <3>2, <3>5
  <2> QED BY <2>1, <2>2 DEF Succeeded
<1>10. Table(ws)
  BY <1>3, <1>9 DEF Table
<1>11. Evolves(us, ws)
  BY <1>1, <1>3, <1>8 DEF Evolves
<1>12. ws[i].state = "deleted"
  <2>1. i \in Lineage(us, i)
    BY LineageOf
  <2>2. i \in gone \/ us[i].state = "deleted"
    BY <2>1 DEF gone
  <2> QED BY <1>5, <2>2
<1> QED BY <1>3, <1>10, <1>11, <1>12 DEF ws

\* A table whose row old is superseded and where some beliefs are expired.
Closes(us, vs, old, stale) ==
  /\ vs \in Seq(Row) /\ Len(vs) = Len(us)
  /\ old = 0 \/ old \in Projection(us)
  /\ \A d \in stale \cap DOMAIN us : us[d].state = "candidate"
  /\ \A n \in DOMAIN us :
       vs[n] = [us[n] EXCEPT !.state = IF n = old THEN "superseded"
                                       ELSE IF n \in stale THEN "expired" ELSE us[n].state]

\* The table with a new fact in the place of row old.
Adds(us, ws, old, new) ==
  /\ Table(ws) /\ Evolves(us, ws) /\ Len(ws) = Len(us) + 1
  /\ ws[Len(us) + 1] = new
  /\ old # 0 => ws[old].state # "active"
  /\ \A n \in DOMAIN us : n # old /\ us[n].state # "superseded" => ws[n].state # "superseded"

\* A new fact takes the place of an active one, or of none; beliefs may expire with it.
LEMMA FactAdded ==
  ASSUME NEW us, NEW vs, NEW old, NEW stale, Table(us), Closes(us, vs, old, stale),
         NEW k \in Keys \cup {NoKey}, NEW b \in Bodies
  PROVE  Adds(us, Append(vs, Semantic(k, b, old)), old, Semantic(k, b, old))
<1> DEFINE new == Semantic(k, b, old)
           ws == Append(vs, new)
           N == Len(us) + 1
<1>0. /\ vs \in Seq(Row) /\ Len(vs) = Len(us)
      /\ old = 0 \/ old \in Projection(us)
      /\ \A d \in stale \cap DOMAIN us : us[d].state = "candidate"
      /\ \A n \in DOMAIN us :
           vs[n] = [us[n] EXCEPT !.state = IF n = old THEN "superseded"
                                           ELSE IF n \in stale THEN "expired" ELSE us[n].state]
  BY DEF Closes
<1>1. us \in Seq(Row) /\ Len(us) \in Nat /\ DOMAIN us = 1..Len(us)
  BY DEF Table
<1>2. \A n \in DOMAIN us : us[n] \in Row /\ RowOk(us, n) /\ Succeeded(us, n)
  BY <1>1 DEF Table
<1>3. old \in Nat /\ (old # 0 => old \in DOMAIN us /\ us[old].state = "active")
  BY <1>0, <1>1, ProjectionOf
<1>4. /\ new \in Row /\ new.prev = old /\ new.from = {} /\ new.state = "active"
  BY <1>3 DEF Semantic, Row, UnitStates
<1>5. ws \in Seq(Row) /\ Len(ws) = N /\ ws[N] = new /\ DOMAIN ws = 1..N
  BY <1>0, <1>1, <1>4
<1>6. \A n \in DOMAIN us : ws[n] = vs[n] /\ n \in DOMAIN ws /\ n # N
  BY <1>0, <1>1, <1>4
<1> HIDE DEF ws, new
<1>7. \A n \in DOMAIN us :
        /\ ws[n] \in Row /\ ws[n].key = us[n].key /\ ws[n].prev = us[n].prev /\ ws[n].from = us[n].from
        /\ ws[n] = [us[n] EXCEPT !.state = ws[n].state]
        /\ ws[n].state = IF n = old THEN "superseded" ELSE IF n \in stale THEN "expired" ELSE us[n].state
  <2> SUFFICES ASSUME NEW n \in DOMAIN us
      PROVE /\ ws[n] \in Row /\ ws[n].key = us[n].key /\ ws[n].prev = us[n].prev /\ ws[n].from = us[n].from
            /\ ws[n] = [us[n] EXCEPT !.state = ws[n].state]
            /\ ws[n].state = IF n = old THEN "superseded" ELSE IF n \in stale THEN "expired" ELSE us[n].state
    OBVIOUS
  <2> DEFINE st == IF n = old THEN "superseded" ELSE IF n \in stale THEN "expired" ELSE us[n].state
  <2>1. ws[n] = [us[n] EXCEPT !.state = st] /\ us[n] \in Row /\ ws[n] \in Row
    BY <1>0, <1>1, <1>2, <1>5, <1>6
  <2> HIDE DEF st
  <2>2. /\ ws[n].key = us[n].key /\ ws[n].prev = us[n].prev /\ ws[n].from = us[n].from
        /\ ws[n].state = st /\ ws[n] = [us[n] EXCEPT !.state = ws[n].state]
    BY <2>1 DEF Row
  <2> QED BY <2>1, <2>2 DEF st
<1>8. \A n \in DOMAIN us : n \in stale => n # old /\ us[n].from # {} /\ us[n].state = "candidate"
  BY <1>0, <1>2, <1>3 DEF RowOk
<1>9. \A n \in DOMAIN us : us[n].prev # 0 => us[n].prev \in DOMAIN us
  BY <1>1, <1>2 DEF RowOk, Row
<1>10. \A n \in DOMAIN us : Later(us, ws, n)
  <2> SUFFICES ASSUME NEW n \in DOMAIN us PROVE Later(us, ws, n)
    OBVIOUS
  <2>1. n # 0
    BY <1>1
  <2>2. n = old => us[n].state = "active"
    BY <1>3, <2>1
  <2>3. /\ ws[n] = [us[n] EXCEPT !.state = ws[n].state]
        /\ ws[n].state = IF n = old THEN "superseded" ELSE IF n \in stale THEN "expired" ELSE us[n].state
    BY <1>7
  <2>4. n \in stale => us[n].state = "candidate"
    BY <1>8
  <2> QED BY <2>2, <2>3, <2>4 DEF Later
<1>11. Evolves(us, ws)
  BY <1>1, <1>5, <1>10 DEF Evolves
<1>12. \A n \in DOMAIN us : RowOk(ws, n)
  <2> SUFFICES ASSUME NEW n \in DOMAIN us PROVE RowOk(ws, n)
    OBVIOUS
  <2>1. ASSUME ws[n].prev # 0 PROVE ws[ws[n].prev].state # "active"
    <3>1. us[n].prev \in DOMAIN us /\ us[us[n].prev].state # "active" /\ ws[n].prev = us[n].prev
      BY <1>2, <1>7, <1>9, <2>1 DEF RowOk
    <3> DEFINE p == us[n].prev
    <3>2. ws[p].state = IF p = old THEN "superseded" ELSE IF p \in stale THEN "expired" ELSE us[p].state
      BY <1>7, <3>1
    <3> QED BY <3>1, <3>2
  <2>2. ws[n].from = {} => ws[n].state \in {"active", "superseded", "deleted"}
    BY <1>2, <1>7, <1>8 DEF RowOk
  <2>3. ws[n].from # {} => ws[n].state \notin {"active", "superseded"}
    <3>1. n # 0 /\ RowOk(us, n) /\ us[n].from = ws[n].from
      <4>1. n # 0
        BY <1>1
      <4> QED BY <4>1, <1>2, <1>7
    <3>2. us[n].from # {} => n # old
      BY <1>3, <3>1 DEF RowOk
    <3>3. ws[n].state = IF n = old THEN "superseded" ELSE IF n \in stale THEN "expired" ELSE us[n].state
      BY <1>7
    <3> QED BY <3>1, <3>2, <3>3 DEF RowOk
  <2> QED BY <1>2, <1>7, <2>1, <2>2, <2>3 DEF RowOk
<1>13. RowOk(ws, N)
  <2>1. ASSUME old # 0 PROVE ws[old].state # "active"
    <3>1. ws[old].state = "superseded"
      BY <1>3, <1>7, <2>1
    <3> QED BY <3>1
  <2>2. old < N
    BY <1>1, <1>3
  <2> QED BY <1>4, <1>5, <2>1, <2>2 DEF RowOk
<1>14. \A n \in DOMAIN us : Succeeded(ws, n)
  <2> SUFFICES ASSUME NEW n \in DOMAIN us, ws[n].state = "superseded"
               PROVE  \E m \in DOMAIN ws : ws[m].prev = n /\ ws[m].state # "deleted"
    BY DEF Succeeded
  <2>1. CASE n = old
    BY <1>1, <1>4, <1>5, <2>1
  <2>2. CASE n # old
    <3>1. us[n].state = "superseded"
      BY <1>7, <2>2
    <3>2. PICK m \in DOMAIN us : us[m].prev = n /\ us[m].state # "deleted"
      BY <1>2, <3>1 DEF Succeeded
    <3>3. ws[m].prev = n /\ m \in DOMAIN ws
      BY <1>6, <1>7, <3>2
    <3>4. ws[m].state # "deleted"
      BY <1>7, <3>2
    <3> QED BY <3>3, <3>4
  <2> QED BY <2>1, <2>2
<1>15. Succeeded(ws, N)
  BY <1>4, <1>5 DEF Succeeded
<1>16. Table(ws)
  BY <1>1, <1>5, <1>12, <1>13, <1>14, <1>15 DEF Table
<1>17. /\ old # 0 => ws[old].state # "active"
       /\ \A n \in DOMAIN us : n # old /\ us[n].state # "superseded" => ws[n].state # "superseded"
  BY <1>3, <1>7
<1> QED BY <1>5, <1>11, <1>16, <1>17 DEF Adds, ws, new

\* The key that an operation writes.
KeyOf(us, o) == IF o.op = "retain" THEN o.key ELSE us[o.unit].key

\* Staging one operation: what it names is no longer active, and it adds a fact unless it forgets.
Stages1(us, o, ws) ==
  /\ Table(ws) /\ Evolves(us, ws) /\ Len(us) <= Len(ws) /\ Len(ws) <= Len(us) + 1
  /\ o.unit # 0 => ws[o.unit].state # "active"
  /\ \A n \in DOMAIN us : n # o.unit /\ us[n].state # "superseded" => ws[n].state # "superseded"
  /\ Len(ws) = Len(us) + 1 =>
       ws[Len(us) + 1].key = KeyOf(us, o) /\ ws[Len(us) + 1].prev = o.unit
         /\ ws[Len(us) + 1].from = {} /\ ws[Len(us) + 1].state = "active"

\* What one operation of a plan makes of a table.
LEMMA StagedOf ==
  ASSUME NEW us, Table(us), NEW o, Legal(us, o)
  PROVE  Stages1(us, o, Staged(us, o))
<1>1. us \in Seq(Row) /\ Len(us) \in Nat /\ DOMAIN us = 1..Len(us) /\ o \in Op
  BY DEF Table, Legal
<1>2. \A n \in DOMAIN us : us[n] \in Row
  BY <1>1
<1>3. CASE o.op = "correct"
  <2> DEFINE i == o.unit
             stale == {d \in Dependents(us, {i}) : us[d].state = "candidate"}
             vs1 == SetState(us, {i}, "superseded")
             vs == SetState(vs1, stale, "expired")
             k == us[i].key
             b == o.body
             ws == Append(vs, Semantic(k, b, i))
  <2>1. Staged(us, o) = ws
    BY <1>3 DEF Staged, Corrected
  <2>2. i \in Projection(us) /\ i \in DOMAIN us /\ us[i].state = "active" /\ i # 0
    BY <1>1, <1>3, ProjectionOf DEF Legal
  <2>3. k \in Keys \cup {NoKey} /\ b \in Bodies
    BY <1>1, <1>2, <2>2 DEF Row, Op
  <2>4. \A d \in stale \cap DOMAIN us : us[d].state = "candidate"
    OBVIOUS
  <2>5. "superseded" \in UnitStates /\ "expired" \in UnitStates
    BY DEF UnitStates
  <2>6. i \notin stale
    BY <2>2
  <2> HIDE DEF stale, i, k, b
  <2>7. /\ vs1 \in Seq(Row) /\ Len(vs1) = Len(us) /\ DOMAIN vs1 = DOMAIN us
        /\ \A n \in DOMAIN us : vs1[n] = [us[n] EXCEPT !.state = IF n \in {i} THEN "superseded" ELSE us[n].state]
    BY <1>1, <2>5, SetStateOf
  <2> HIDE DEF vs1
  <2>8. /\ vs \in Seq(Row) /\ Len(vs) = Len(us)
        /\ \A n \in DOMAIN us : vs[n] = [vs1[n] EXCEPT !.state = IF n \in stale THEN "expired" ELSE vs1[n].state]
    BY <1>1, <2>5, <2>7, SetStateOf
  <2> HIDE DEF vs
  <2>9. \A n \in DOMAIN us :
           vs[n] = [us[n] EXCEPT !.state = IF n = i THEN "superseded"
                                           ELSE IF n \in stale THEN "expired" ELSE us[n].state]
    BY <1>2, <2>6, <2>7, <2>8 DEF Row
  <2>10. Closes(us, vs, i, stale)
    BY <2>2, <2>4, <2>8, <2>9 DEF Closes
  <2>12. Adds(us, ws, i, Semantic(k, b, i))
    BY <2>3, <2>10, FactAdded
  <2>11. KeyOf(us, o) = k
    BY <1>3 DEF KeyOf, k, i
  <2> HIDE DEF ws
  <2> QED BY <1>1, <2>1, <2>11, <2>12 DEF Stages1, Adds, Semantic, i
<1>4. CASE o.op = "retain"
  <2> DEFINE i == o.unit
             vs == IF i = 0 THEN us ELSE SetState(us, {i}, "superseded")
             k == o.key
             b == o.body
             ws == Append(vs, Semantic(k, b, i))
             stale == {}
  <2>1. Staged(us, o) = ws
    BY <1>4 DEF Staged, Retained
  <2>2. i = 0 \/ i \in Projection(us)
    BY <1>4 DEF Legal
  <2>3. k \in Keys \cup {NoKey} /\ b \in Bodies
    BY <1>1 DEF Op
  <2>4. \A d \in stale \cap DOMAIN us : us[d].state = "candidate"
    OBVIOUS
  <2>5. "superseded" \in UnitStates
    BY DEF UnitStates
  <2> HIDE DEF i, k, b
  <2>7. vs \in Seq(Row) /\ Len(vs) = Len(us)
    BY <1>1, <2>5, SetStateOf
  <2>8. \A n \in DOMAIN us :
           vs[n] = [us[n] EXCEPT !.state = IF n = i THEN "superseded"
                                           ELSE IF n \in stale THEN "expired" ELSE us[n].state]
    <3>1. CASE i = 0
      BY <1>1, <1>2, <3>1 DEF Row
    <3>2. CASE i # 0
      <4>1. \A n \in DOMAIN us : vs[n] = [us[n] EXCEPT !.state = IF n \in {i} THEN "superseded" ELSE us[n].state]
        BY <1>1, <2>5, <3>2, SetStateOf
      <4> QED BY <4>1
    <3> QED BY <3>1, <3>2
  <2> HIDE DEF vs, stale
  <2>10. Closes(us, vs, i, stale)
    BY <2>2, <2>4, <2>7, <2>8 DEF Closes
  <2>12. Adds(us, ws, i, Semantic(k, b, i))
    BY <2>3, <2>10, FactAdded
  <2>11. KeyOf(us, o) = k
    BY <1>4 DEF KeyOf, k
  <2> HIDE DEF ws
  <2> QED BY <1>1, <2>1, <2>11, <2>12 DEF Stages1, Adds, Semantic, i
<1>5. CASE o.op = "forget"
  <2> DEFINE ws == Forgotten(us, o.unit)
  <2>1. Staged(us, o) = ws /\ o.unit \in DOMAIN us
    BY <1>5 DEF Staged, Legal
  <2>2. Table(ws) /\ Evolves(us, ws) /\ Len(ws) = Len(us) /\ ws[o.unit].state = "deleted"
    BY <2>1, ForgottenOf
  <2>3. \A n \in DOMAIN us : us[n].state # "superseded" => ws[n].state # "superseded"
    <3> SUFFICES ASSUME NEW n \in DOMAIN us, us[n].state # "superseded" PROVE ws[n].state # "superseded"
      OBVIOUS
    <3>1. us \in Seq(Row) /\ "deleted" \in UnitStates
      BY <1>1 DEF UnitStates
    <3>2. \A S : SetState(us, S, "deleted")[n] = [us[n] EXCEPT !.state = IF n \in S THEN "deleted" ELSE us[n].state]
      BY <3>1, SetStateOf
    <3>3. \A S : SetState(us, S, "deleted")[n].state # "superseded"
      BY <1>2, <3>2 DEF Row
    <3> QED BY <3>3 DEF Forgotten
  <2> HIDE DEF ws
  <2>4. Len(ws) # Len(us) + 1 /\ Len(us) <= Len(ws) /\ Len(ws) <= Len(us) + 1
    <3>1. \A x, y : x \in Nat /\ y = x => y # x + 1 /\ x <= y /\ y <= x + 1
      OBVIOUS
    <3> QED BY <1>1, <2>2, <3>1
  <2>5. ws[o.unit].state # "active"
    BY <2>2
  <2> QED BY <2>1, <2>2, <2>3, <2>4, <2>5 DEF Stages1
<1> QED BY <1>1, <1>3, <1>4, <1>5 DEF Op

-----------------------------------------------------------------------------
(***************************************************************************)
(* A plan: its preparation on a working copy and its staging.              *)
(***************************************************************************)

\* Staging is one operation after the other.
LEMMA StagesOf ==
  ASSUME NEW us, NEW ops, Len(ops) \in Nat
  PROVE  /\ Stages(us, ops)[0] = us
         /\ \A n \in 1..Len(ops) : Stages(us, ops)[n] = Staged(Stages(us, ops)[n - 1], ops[n])
<1> DEFINE Upto(n) == \E t : t = [m \in 0..n |-> IF m = 0 THEN us ELSE Staged(t[m - 1], ops[m])]
           Bad == {n \in Nat : ~Upto(n)}
<1>1. Bad = {}
  <2> SUFFICES ASSUME Bad # {} PROVE FALSE
    OBVIOUS
  <2>1. PICK x \in Bad : \A y \in Bad : x <= y
    <3>1. Bad \in SUBSET Nat
      OBVIOUS
    <3> HIDE DEF Bad
    <3> QED BY <3>1, LeastNumber
  <2>2. x # 0
    <3> DEFINE t == [m \in 0..0 |-> us]
    <3>1. t = [m \in 0..0 |-> IF m = 0 THEN us ELSE Staged(t[m - 1], ops[m])]
      OBVIOUS
    <3> HIDE DEF t
    <3>2. Upto(0)
      BY <3>1
    <3> QED BY <2>1, <3>2
  <2>3. x \in Nat /\ x - 1 \in Nat /\ x - 1 \notin Bad
    BY <2>1, <2>2
  <2>4. PICK t : t = [m \in 0..(x - 1) |-> IF m = 0 THEN us ELSE Staged(t[m - 1], ops[m])]
    BY <2>3
  <2> DEFINE s == [m \in 0..x |-> IF m = x THEN Staged(t[x - 1], ops[x]) ELSE t[m]]
  <2>5. \A m \in 0..x : s[m] = IF m = 0 THEN us ELSE Staged(s[m - 1], ops[m])
    <3> SUFFICES ASSUME NEW m \in 0..x PROVE s[m] = IF m = 0 THEN us ELSE Staged(s[m - 1], ops[m])
      OBVIOUS
    <3>1. CASE m = x
      <4>1. s[m - 1] = t[x - 1] /\ s[m] = Staged(t[x - 1], ops[x])
        BY <2>3, <3>1
      <4> QED BY <2>2, <3>1, <4>1
    <3>2. CASE m # x
      <4>1. m \in 0..(x - 1) /\ s[m] = t[m]
        BY <2>3, <3>2
      <4>2. t[m] = IF m = 0 THEN us ELSE Staged(t[m - 1], ops[m])
        BY <2>4, <4>1
      <4>3. m # 0 => s[m - 1] = t[m - 1]
        BY <2>3, <4>1
      <4> QED BY <4>1, <4>2, <4>3
    <3> QED BY <3>1, <3>2
  <2>6. s = [m \in 0..x |-> IF m = 0 THEN us ELSE Staged(s[m - 1], ops[m])]
    BY <2>5
  <2> HIDE DEF s
  <2>7. Upto(x)
    BY <2>6
  <2> QED BY <2>1, <2>7
<1>2. \E t : t = [m \in 0..Len(ops) |-> IF m = 0 THEN us ELSE Staged(t[m - 1], ops[m])]
  BY <1>1
<1>3. Stages(us, ops) = [m \in 0..Len(ops) |-> IF m = 0 THEN us ELSE Staged(Stages(us, ops)[m - 1], ops[m])]
  BY <1>2 DEF Stages
<1> QED BY <1>3

\* Preparation as well.
LEMMA PreparesOf ==
  ASSUME NEW us, NEW ops, Len(ops) \in Nat
  PROVE  /\ Prepares(us, ops)[0] = [ok |-> TRUE, us |-> us, ops |-> <<>>]
         /\ \A n \in 1..Len(ops) : Prepares(us, ops)[n] = PrepareStep(Prepares(us, ops)[n - 1], ops[n])
<1> DEFINE none == [ok |-> TRUE, us |-> us, ops |-> <<>>]
           Upto(n) == \E t : t = [m \in 0..n |-> IF m = 0 THEN none ELSE PrepareStep(t[m - 1], ops[m])]
           Bad == {n \in Nat : ~Upto(n)}
<1> HIDE DEF none
<1>1. Bad = {}
  <2> SUFFICES ASSUME Bad # {} PROVE FALSE
    OBVIOUS
  <2>1. PICK x \in Bad : \A y \in Bad : x <= y
    <3>1. Bad \in SUBSET Nat
      OBVIOUS
    <3> HIDE DEF Bad
    <3> QED BY <3>1, LeastNumber
  <2>2. x # 0
    <3> DEFINE t == [m \in 0..0 |-> none]
    <3>1. t = [m \in 0..0 |-> IF m = 0 THEN none ELSE PrepareStep(t[m - 1], ops[m])]
      OBVIOUS
    <3> HIDE DEF t
    <3>2. Upto(0)
      BY <3>1
    <3> QED BY <2>1, <3>2
  <2>3. x \in Nat /\ x - 1 \in Nat /\ x - 1 \notin Bad
    <3>1. x \in Nat
      OBVIOUS
    <3>2. x - 1 \in Nat /\ ~(x <= x - 1)
      BY <2>2, <3>1
    <3> HIDE DEF Bad
    <3> QED BY <2>1, <3>1, <3>2
  <2>4. PICK t : t = [m \in 0..(x - 1) |-> IF m = 0 THEN none ELSE PrepareStep(t[m - 1], ops[m])]
    BY <2>3
  <2> DEFINE s == [m \in 0..x |-> IF m = x THEN PrepareStep(t[x - 1], ops[x]) ELSE t[m]]
  <2>5. \A m \in 0..x : s[m] = IF m = 0 THEN none ELSE PrepareStep(s[m - 1], ops[m])
    <3> SUFFICES ASSUME NEW m \in 0..x PROVE s[m] = IF m = 0 THEN none ELSE PrepareStep(s[m - 1], ops[m])
      OBVIOUS
    <3>1. CASE m = x
      <4>1. s[m - 1] = t[x - 1] /\ s[m] = PrepareStep(t[x - 1], ops[x])
        BY <2>3, <3>1
      <4> QED BY <2>2, <3>1, <4>1
    <3>2. CASE m # x
      <4>1. m \in 0..(x - 1) /\ s[m] = t[m]
        BY <2>3, <3>2
      <4>2. t[m] = IF m = 0 THEN none ELSE PrepareStep(t[m - 1], ops[m])
        BY <2>4, <4>1
      <4>3. m # 0 => s[m - 1] = t[m - 1]
        BY <2>3, <4>1
      <4> QED BY <4>1, <4>2, <4>3
    <3> QED BY <3>1, <3>2
  <2>6. s = [m \in 0..x |-> IF m = 0 THEN none ELSE PrepareStep(s[m - 1], ops[m])]
    BY <2>5
  <2> HIDE DEF s
  <2>7. Upto(x)
    BY <2>6
  <2> QED BY <2>1, <2>7
<1>2. \E t : t = [m \in 0..Len(ops) |-> IF m = 0 THEN none ELSE PrepareStep(t[m - 1], ops[m])]
  BY <1>1
<1>3. Prepares(us, ops) = [m \in 0..Len(ops) |-> IF m = 0 THEN none ELSE PrepareStep(Prepares(us, ops)[m - 1], ops[m])]
  BY <1>2 DEF Prepares, none
<1>4. /\ Prepares(us, ops)[0] = none
      /\ \A n \in 1..Len(ops) : Prepares(us, ops)[n] = PrepareStep(Prepares(us, ops)[n - 1], ops[n])
  BY <1>3
<1> QED BY <1>4 DEF none

\* A plan whose operations can be staged one after the other, on rows of the snapshot.
LegalPlan(us, ops) ==
  /\ ops \in Seq(Op)
  /\ \A n \in DOMAIN ops :
       /\ ops[n].unit <= Len(us) /\ (ops[n].op # "retain" => ops[n].unit # 0)
       /\ Legal(Stages(us, ops)[n - 1], ops[n])

\* What staging such a plan gives: the rows it names are no longer active, and the facts it
\* adds supersede rows of the snapshot only.
Done(us, ops, n, t) ==
  /\ Table(t) /\ Evolves(us, t)
  /\ \A m \in 1..n : ops[m].op # "retain" => t[ops[m].unit].state # "active"
  /\ \A j \in DOMAIN t : j > Len(us) =>
       t[j].prev <= Len(us) /\ t[j].from = {} /\ t[j].state # "superseded"

\* The table after one more operation.
LEMMA StageStep ==
  ASSUME NEW us, Table(us), NEW ops, LegalPlan(us, ops), NEW n \in 1..Len(ops),
         Done(us, ops, n - 1, Stages(us, ops)[n - 1])
  PROVE  Done(us, ops, n, Stages(us, ops)[n])
<1> DEFINE t0 == Stages(us, ops)[n - 1]
           t == Stages(us, ops)[n]
           o == ops[n]
<1>1. us \in Seq(Row) /\ ops \in Seq(Op) /\ Len(us) \in Nat /\ Len(ops) \in Nat
  BY DEF Table, LegalPlan
<1>2. Table(t0) /\ Evolves(us, t0) /\ t0 \in Seq(Row) /\ Len(us) <= Len(t0) /\ Len(t0) \in Nat
  BY DEF Done, Table, Evolves
<1>3. t = Staged(t0, o)
  BY <1>1, StagesOf
<1>4. Legal(t0, o) /\ o.unit <= Len(us) /\ (o.op # "retain" => o.unit # 0) /\ o \in Op
  BY <1>1 DEF LegalPlan
<1>5. Stages1(t0, o, t)
  BY <1>2, <1>3, <1>4, StagedOf
<1>6. /\ \A m \in 1..(n - 1) : ops[m].op # "retain" => t0[ops[m].unit].state # "active"
      /\ \A j \in DOMAIN t0 : j > Len(us) =>
           t0[j].prev <= Len(us) /\ t0[j].from = {} /\ t0[j].state # "superseded"
  BY DEF Done
<1>7. \A m \in 1..Len(ops) : ops[m].op # "retain" => ops[m].unit \in 1..Len(us)
  <2>1. \A m \in 1..Len(ops) : ops[m] \in Op /\ m \in DOMAIN ops
    BY <1>1
  <2>2. \A m \in 1..Len(ops) : ops[m].unit \in Nat
    BY <2>1 DEF Op
  <2>3. \A m \in 1..Len(ops) : ops[m].unit <= Len(us) /\ (ops[m].op # "retain" => ops[m].unit # 0)
    BY <2>1 DEF LegalPlan
  <2> QED BY <1>1, <2>2, <2>3
<1>8. /\ Table(t) /\ t \in Seq(Row) /\ Len(t) \in Nat /\ Evolves(t0, t)
      /\ Len(t0) <= Len(t) /\ Len(t) <= Len(t0) + 1
  BY <1>5 DEF Stages1, Table
<1>9. Evolves(us, t)
  BY <1>2, <1>8, EvolvesTransitive
<1> HIDE DEF t0, t, o
<1>10. ASSUME NEW m \in 1..n, ops[m].op # "retain" PROVE t[ops[m].unit].state # "active"
  <2>1. CASE m = n
    BY <1>4, <1>5, <1>10, <2>1 DEF Stages1, o
  <2>2. CASE m # n
    <3>1. m \in 1..(n - 1) /\ ops[m].unit \in DOMAIN t0
      BY <1>1, <1>2, <1>7, <1>10, <2>2
    <3>2. Later(t0, t, ops[m].unit)
      BY <1>8, <3>1 DEF Evolves
    <3> QED BY <1>6, <1>10, <3>1, <3>2 DEF Later
  <2> QED BY <2>1, <2>2
<1>11. ASSUME NEW j \in DOMAIN t, j > Len(us)
       PROVE  t[j].prev <= Len(us) /\ t[j].from = {} /\ t[j].state # "superseded"
  <2>1. CASE j \in DOMAIN t0
    <3>1. Later(t0, t, j)
      BY <1>8, <2>1 DEF Evolves
    <3>2. t[j].prev = t0[j].prev /\ t[j].from = t0[j].from
      BY <1>2, <2>1, <3>1, SameColumns
    <3>3. j # o.unit
      BY <1>1, <1>4, <1>11 DEF Op
    <3>4. t0[j].state # "superseded" => t[j].state # "superseded"
      BY <1>5, <2>1, <3>3 DEF Stages1
    <3> QED BY <1>6, <1>11, <2>1, <3>2, <3>4
  <2>2. CASE j \notin DOMAIN t0
    <3>1. j = Len(t0) + 1 /\ Len(t) = Len(t0) + 1
      BY <1>2, <1>8, <2>2
    <3> QED BY <1>4, <1>5, <3>1 DEF Stages1
  <2> QED BY <2>1, <2>2
<1>12. Done(us, ops, n, t)
  BY <1>8, <1>9, <1>10, <1>11 DEF Done
<1> QED BY <1>12 DEF t

\* What a whole plan makes of a table.
LEMMA PlanStaged ==
  ASSUME NEW us, Table(us), NEW ops, LegalPlan(us, ops)
  PROVE  Done(us, ops, Len(ops), StageAll(us, ops))
<1> DEFINE Bad == {n \in 0..Len(ops) : ~Done(us, ops, n, Stages(us, ops)[n])}
<1>1. Len(ops) \in Nat
  BY DEF LegalPlan
<1>2. Bad = {}
  <2> SUFFICES ASSUME Bad # {} PROVE FALSE
    OBVIOUS
  <2>1. PICK x \in Bad : \A y \in Bad : x <= y
    <3>1. Bad \in SUBSET Nat
      BY <1>1
    <3> HIDE DEF Bad
    <3> QED BY <3>1, LeastNumber
  <2>2. x # 0
    <3>1. us \in Seq(Row) /\ Stages(us, ops)[0] = us /\ Evolves(us, us)
      BY <1>1, StagesOf, EvolvesReflexive DEF Table
    <3>2. \A j \in DOMAIN us : ~(j > Len(us))
      BY <3>1
    <3>3. Done(us, ops, 0, us)
      BY <3>1, <3>2 DEF Done
    <3> QED BY <2>1, <3>1, <3>3
  <2>3. x \in 1..Len(ops) /\ x - 1 \in 0..Len(ops) /\ x - 1 \notin Bad
    BY <1>1, <2>1, <2>2
  <2>4. Done(us, ops, x - 1, Stages(us, ops)[x - 1])
    BY <2>3
  <2>5. Done(us, ops, x, Stages(us, ops)[x])
    BY <2>3, <2>4, StageStep
  <2> QED BY <2>1, <2>5
<1> QED BY <1>1, <1>2 DEF StageAll

\* A prepared operation is the one that was sent; for a direct fact it names the row it closes.
Prepared(o, p) ==
  /\ p.op = o.op /\ p.edit = o.edit /\ p.key = o.key
  /\ o.op # "retain" => p.unit = o.unit

\* A plan on rows of the snapshot.
Plan(us, ops) ==
  /\ ops \in Seq(Op)
  /\ \A n \in DOMAIN ops : IF ops[n].op = "retain" THEN ops[n].key \in Keys ELSE ops[n].unit \in DOMAIN us

\* The n-th step of the preparation.
PreparedStep(us, o, a, b, n) ==
  /\ b.ops \in Seq(Op) /\ Len(b.ops) = n /\ Legal(a.us, b.ops[n]) /\ b.us = Staged(a.us, b.ops[n])
  /\ Prepared(o, b.ops[n]) /\ b.ops[n].unit <= Len(us) /\ (o.op # "retain" => b.ops[n].unit # 0)
  /\ \A m \in 1..(n - 1) : b.ops[m] = a.ops[m]

\* The working copy after n steps: the rows added belong to the keys of the operations.
Copied(us, ops, b, n) ==
  /\ Table(b.us) /\ Evolves(us, b.us) /\ b.ops \in Seq(Op) /\ Len(b.ops) = n
  /\ \A j \in DOMAIN b.us : j > Len(us) => \E m \in 1..n : b.us[j].key = OpKey(us, ops[m])

\* What one more operation makes of a preview.
LEMMA PrepareStepOf ==
  ASSUME NEW us, Table(us), NEW ops, Plan(us, ops), WellFormedPlan(us, ops),
         NEW n \in 1..Len(ops), NEW a, a.ok, Copied(us, ops, a, n - 1),
         NEW b, b = PrepareStep(a, ops[n]), ~Refused(a.us, ops[n])
  PROVE  PreparedStep(us, ops[n], a, b, n) /\ Copied(us, ops, b, n)
<1> DEFINE o == ops[n]
           p == IF o.op = "retain" THEN [o EXCEPT !.unit = OpenOn(a.us, o.key)] ELSE o
<1>1. /\ us \in Seq(Row) /\ Len(us) \in Nat /\ DOMAIN us = 1..Len(us)
      /\ ops \in Seq(Op) /\ Len(ops) \in Nat /\ DOMAIN ops = 1..Len(ops)
  BY DEF Table, Plan
<1>2. o \in Op /\ IF o.op = "retain" THEN o.key \in Keys ELSE o.unit \in DOMAIN us
  BY <1>1 DEF Plan
<1>3. Table(a.us) /\ Evolves(us, a.us) /\ a.ops \in Seq(Op) /\ Len(a.ops) = n - 1
  BY DEF Copied
<1>4. a.us \in Seq(Row) /\ Len(us) <= Len(a.us) /\ Len(a.us) \in Nat /\ DOMAIN (a.us) = 1..Len(a.us)
  BY <1>3 DEF Table, Evolves
<1>5. b.ok /\ b.us = Staged(a.us, p) /\ b.ops = Append(a.ops, p)
  BY DEF PrepareStep
<1>6. ASSUME o.op = "retain"
      PROVE  /\ p \in Op /\ p.unit = OpenOn(a.us, o.key) /\ p.op = "retain" /\ p.key = o.key /\ p.edit = o.edit
             /\ p.unit = 0 \/ (p.unit \in Projection(a.us) /\ a.us[p.unit].key = o.key)
  <2>1. \/ OpenOn(a.us, o.key) = 0
        \/ OpenOn(a.us, o.key) \in Projection(a.us) /\ a.us[OpenOn(a.us, o.key)].key = o.key
    BY <1>3, OpenOnOf
  <2>2. OpenOn(a.us, o.key) \in Nat
    BY <1>3, <1>4, <2>1, ProjectionOf
  <2>3. p = [o EXCEPT !.unit = OpenOn(a.us, o.key)]
    BY <1>6
  <2> DEFINE z == OpenOn(a.us, o.key)
  <2>4. o \in Op /\ z \in Nat /\ p = [o EXCEPT !.unit = z]
    BY <1>2, <2>2, <2>3
  <2>7. z = 0 \/ (z \in Projection(a.us) /\ a.us[z].key = o.key)
    BY <2>1, Zenon
  <2> HIDE DEF p, o, z
  <2>5. p \in Op /\ p.unit = z /\ p.op = o.op /\ p.key = o.key /\ p.edit = o.edit
    BY <2>4 DEF Op
  <2>6. o.op = "retain"
    BY <1>6 DEF o
  <2>8. p.unit = OpenOn(a.us, o.key)
    BY <2>5 DEF z
  <2>9. p.unit = 0 \/ (p.unit \in Projection(a.us) /\ a.us[p.unit].key = o.key)
    BY <2>5, <2>7, Zenon
  <2> QED BY <2>5, <2>6, <2>8, <2>9, Zenon
<1>7. ASSUME o.op # "retain" PROVE p = o /\ o.unit \in DOMAIN us /\ o.unit \in DOMAIN (a.us)
  BY <1>1, <1>2, <1>4, <1>7
<1>8. Legal(a.us, p)
  <2>1. CASE o.op = "retain"
    BY <1>6, <2>1 DEF Legal
  <2>2. CASE o.op = "correct"
    BY <1>2, <1>7, <2>2 DEF Legal, Refused
  <2>3. CASE o.op = "forget"
    BY <1>2, <1>7, <2>3 DEF Legal
  <2> QED BY <1>2, <2>1, <2>2, <2>3 DEF Op
<1>9. Prepared(o, p)
  BY <1>6, <1>7 DEF Prepared
<1>10. p.unit <= Len(us) /\ (o.op # "retain" => p.unit # 0)
  <2>1. CASE o.op # "retain"
    BY <1>1, <1>7, <2>1
  <2>2. CASE o.op = "retain"
    <3>1. CASE p.unit = 0
      BY <1>1, <2>2, <3>1
    <3>2. CASE p.unit # 0
      <4>1. p.unit \in DOMAIN (a.us) /\ a.us[p.unit].key = o.key
        BY <1>3, <1>6, <2>2, <3>2, ProjectionOf
      <4> SUFFICES ASSUME p.unit > Len(us) PROVE FALSE
        BY <1>1, <1>4, <2>2, <4>1
      <4>2. PICK m \in 1..(n - 1) : o.key = OpKey(us, ops[m])
        BY <4>1 DEF Copied
      <4>3. m \in DOMAIN ops /\ n \in DOMAIN ops /\ m # n
        BY <1>1
      <4>4. OpKey(us, ops[n]) = o.key
        BY <2>2 DEF OpKey
      <4>5. o.key # NoKey
        BY <1>2, <2>2, SeedsAreUnits
      <4>6. OpKey(us, ops[n]) # OpKey(us, ops[m])
        BY <4>3, <4>4, <4>5 DEF WellFormedPlan
      <4> QED BY <4>2, <4>4, <4>6
    <3> QED BY <3>1, <3>2
  <2> QED BY <2>1, <2>2
<1>11. p \in Op
  BY <1>8 DEF Legal
<1> HIDE DEF p
<1>12. /\ b.ops \in Seq(Op) /\ Len(b.ops) = n /\ b.ops[n] = p
       /\ \A m \in 1..(n - 1) : b.ops[m] = a.ops[m]
  BY <1>3, <1>5, <1>11
<1>13. PreparedStep(us, o, a, b, n)
  BY <1>5, <1>8, <1>9, <1>10, <1>12 DEF PreparedStep
<1>14. Stages1(a.us, p, b.us)
  BY <1>3, <1>5, <1>8, StagedOf
<1>15. /\ Table(b.us) /\ Evolves(a.us, b.us) /\ b.us \in Seq(Row) /\ Len(b.us) \in Nat
       /\ Len(a.us) <= Len(b.us) /\ Len(b.us) <= Len(a.us) + 1
  BY <1>14 DEF Stages1, Table
<1>16. Evolves(us, b.us)
  BY <1>3, <1>15, EvolvesTransitive
<1>17. KeyOf(a.us, p) = OpKey(us, o)
  <2>1. CASE o.op = "retain"
    BY <1>9, <2>1 DEF KeyOf, OpKey, Prepared
  <2>2. CASE o.op # "retain"
    <3>1. Later(us, a.us, o.unit)
      BY <1>3, <1>7, <2>2 DEF Evolves
    <3>2. a.us[o.unit].key = us[o.unit].key
      BY <1>1, <1>7, <2>2, <3>1, SameColumns
    <3> QED BY <1>7, <2>2, <3>2 DEF KeyOf, OpKey
  <2> QED BY <2>1, <2>2
<1>18. ASSUME NEW j \in DOMAIN (b.us), j > Len(us)
       PROVE  \E m \in 1..n : b.us[j].key = OpKey(us, ops[m])
  <2>1. CASE j \in DOMAIN (a.us)
    <3>1. PICK m \in 1..(n - 1) : a.us[j].key = OpKey(us, ops[m])
      BY <1>18, <2>1 DEF Copied
    <3>2. Later(a.us, b.us, j)
      BY <1>15, <2>1 DEF Evolves
    <3>3. b.us[j].key = a.us[j].key
      BY <1>4, <2>1, <3>2, SameColumns
    <3> QED BY <3>1, <3>3
  <2>2. CASE j \notin DOMAIN (a.us)
    <3>1. j = Len(a.us) + 1 /\ Len(b.us) = Len(a.us) + 1
      <4>1. /\ DOMAIN (a.us) = 1..Len(a.us) /\ Len(a.us) \in Nat
            /\ DOMAIN (b.us) = 1..Len(b.us) /\ Len(b.us) \in Nat
        BY <1>4, <1>15
      <4> QED BY ONLY <1>15, <1>18, <2>2, <4>1
    <3>2. b.us[j].key = OpKey(us, ops[n])
      BY <1>14, <1>17, <3>1 DEF Stages1
    <3> QED BY <3>2
  <2> QED BY <2>1, <2>2
<1>19. Copied(us, ops, b, n)
  BY <1>12, <1>15, <1>16, <1>18 DEF Copied
<1> QED BY <1>13, <1>19

\* A preparation that is not refused gives a plan that can be staged, operation by operation.
LEMMA PlanPrepared ==
  ASSUME NEW us, Table(us), NEW ops, Plan(us, ops), WellFormedPlan(us, ops),
         Prepare(us, ops).ok
  PROVE  /\ LegalPlan(us, Prepare(us, ops).ops) /\ Len(Prepare(us, ops).ops) = Len(ops)
         /\ \A n \in DOMAIN ops : Prepared(ops[n], Prepare(us, ops).ops[n])
<1> DEFINE acc == Prepares(us, ops)
           N == Len(ops)
           Ok(n) == /\ acc[n] = [ok |-> acc[n].ok, us |-> acc[n].us, ops |-> acc[n].ops]
                    /\ acc[n].ok => /\ Copied(us, ops, acc[n], n)
                                    /\ \A m \in 1..n : acc[m].ok /\ PreparedStep(us, ops[m], acc[m - 1], acc[m], m)
                                                        /\ acc[n].ops[m] = acc[m].ops[m]
           Bad == {n \in 0..N : ~Ok(n)}
<1>1. ops \in Seq(Op) /\ N \in Nat /\ DOMAIN ops = 1..N /\ us \in Seq(Row) /\ Len(us) \in Nat
  BY DEF Plan, Table
<1>2. /\ acc[0] = [ok |-> TRUE, us |-> us, ops |-> <<>>]
      /\ \A n \in 1..N : acc[n] = PrepareStep(acc[n - 1], ops[n])
  BY <1>1, PreparesOf
<1> HIDE DEF acc
<1>3. Ok(0)
  <2>1. acc[0].us = us /\ acc[0].ops = <<>> /\ acc[0].ok
    BY <1>2
  <2>2. \A j \in DOMAIN us : ~(j > Len(us))
    BY <1>1
  <2>3. Copied(us, ops, acc[0], 0)
    BY <2>1, <2>2, EvolvesReflexive DEF Copied
  <2> QED BY <1>2, <2>1, <2>3
<1>4. ASSUME NEW n \in 1..N, Ok(n - 1) PROVE Ok(n)
  <2> DEFINE a == acc[n - 1]
             b == acc[n]
  <2>1. b = PrepareStep(a, ops[n])
    BY <1>2
  <2>2. a = [ok |-> a.ok, us |-> a.us, ops |-> a.ops]
    BY <1>4
  <2>3. CASE ~a.ok \/ Refused(a.us, ops[n])
    <3>1. b = [a EXCEPT !.ok = FALSE]
      BY <2>1, <2>3 DEF PrepareStep
    <3>2. b = [ok |-> FALSE, us |-> a.us, ops |-> a.ops]
      BY <2>2, <3>1
    <3> QED BY <3>2
  <2>4. CASE a.ok /\ ~Refused(a.us, ops[n])
    <3>1. Copied(us, ops, a, n - 1) /\ \A m \in 1..(n - 1) :
            acc[m].ok /\ PreparedStep(us, ops[m], acc[m - 1], acc[m], m) /\ a.ops[m] = acc[m].ops[m]
      BY <1>4, <2>4
    <3>2. PreparedStep(us, ops[n], a, b, n) /\ Copied(us, ops, b, n)
      BY <1>1, <2>1, <2>4, <3>1, PrepareStepOf
    <3>3. b.ok /\ b = [ok |-> b.ok, us |-> b.us, ops |-> b.ops]
      BY <2>1, <2>4 DEF PrepareStep
    <3>4. ASSUME NEW m \in 1..n
          PROVE  acc[m].ok /\ PreparedStep(us, ops[m], acc[m - 1], acc[m], m) /\ b.ops[m] = acc[m].ops[m]
      <4>1. CASE m = n
        BY <3>2, <3>3, <4>1
      <4>2. CASE m # n
        <5>1. m \in 1..(n - 1)
          BY <1>1, <4>2
        <5>2. b.ops[m] = a.ops[m]
          BY <3>2, <5>1 DEF PreparedStep
        <5> QED BY <3>1, <5>1, <5>2
      <4> QED BY <4>1, <4>2
    <3> QED BY <3>2, <3>3, <3>4
  <2> QED BY <2>3, <2>4
<1>5. Bad = {}
  <2> SUFFICES ASSUME Bad # {} PROVE FALSE
    OBVIOUS
  <2>1. PICK x \in Bad : \A y \in Bad : x <= y
    <3>1. Bad \in SUBSET Nat
      BY <1>1
    <3> HIDE DEF Bad
    <3> QED BY <3>1, LeastNumber
  <2>2. x \in 0..N /\ ~Ok(x)
    OBVIOUS
  <2>3. x # 0
    BY <1>3, <2>2
  <2>4. x \in 1..N /\ x - 1 \in 0..N /\ ~(x <= x - 1)
    BY <1>1, <2>2, <2>3
  <2>5. Ok(x - 1)
    BY <2>1, <2>4
  <2> HIDE DEF Ok
  <2> QED BY <1>4, <2>2, <2>4, <2>5
<1>6. Ok(N)
  BY <1>1, <1>5
<1> DEFINE p == acc[N].ops
<1>7. Prepare(us, ops) = acc[N]
  BY DEF Prepare, acc
<1>8. p \in Seq(Op) /\ Len(p) = N
  BY <1>6, <1>7 DEF Copied
<1>9. \A m \in 1..N : PreparedStep(us, ops[m], acc[m - 1], acc[m], m) /\ p[m] = acc[m].ops[m]
  BY <1>6, <1>7
<1>10. \A m \in 1..N : /\ Legal(acc[m - 1].us, p[m]) /\ acc[m].us = Staged(acc[m - 1].us, p[m])
                       /\ Prepared(ops[m], p[m]) /\ p[m].unit <= Len(us)
                       /\ (ops[m].op # "retain" => p[m].unit # 0)
  BY <1>9 DEF PreparedStep
<1> HIDE DEF p, Ok, Bad
<1> DEFINE Off == {n \in 0..N : Stages(us, p)[n] # acc[n].us}
<1>11. /\ Stages(us, p)[0] = us
       /\ \A n \in 1..N : Stages(us, p)[n] = Staged(Stages(us, p)[n - 1], p[n])
  BY <1>1, <1>8, StagesOf
<1>12. Off = {}
  <2> SUFFICES ASSUME Off # {} PROVE FALSE
    OBVIOUS
  <2>1. PICK x \in Off : \A y \in Off : x <= y
    <3>1. Off \in SUBSET Nat
      BY <1>1
    <3> HIDE DEF Off
    <3> QED BY <3>1, LeastNumber
  <2>2. x # 0
    BY <1>2, <1>11, <2>1
  <2>3. x \in 1..N /\ x - 1 \in 0..N /\ ~(x <= x - 1)
    BY <1>1, <2>1, <2>2
  <2>4. Stages(us, p)[x - 1] = acc[x - 1].us
    BY <2>1, <2>3
  <2>5. Stages(us, p)[x] = acc[x].us
    BY <1>10, <1>11, <2>3, <2>4
  <2> QED BY <2>1, <2>5
<1>13. \A n \in 1..N : Stages(us, p)[n - 1] = acc[n - 1].us
  BY <1>1, <1>12
<1>14. LegalPlan(us, p)
  <2>1. \A n \in 1..N : p[n].op # "retain" => ops[n].op # "retain"
    BY <1>10 DEF Prepared
  <2> QED BY <1>8, <1>10, <1>13, <2>1 DEF LegalPlan
<1> QED BY <1>1, <1>7, <1>8, <1>10, <1>14 DEF p

-----------------------------------------------------------------------------
(***************************************************************************)
(* The elements of a finite set, one after the other.                      *)
(***************************************************************************)
LEMMA Listed ==
  ASSUME NEW S, IsFiniteSet(S)
  PROVE  /\ SetToSeq(S) \in Seq(S)
         /\ \A x \in S : \E n \in DOMAIN SetToSeq(S) : SetToSeq(S)[n] = x
         /\ \A m, n \in DOMAIN SetToSeq(S) : SetToSeq(S)[m] = SetToSeq(S)[n] => m = n
<1> DEFINE N == Cardinality(S)
           s == SetToSeq(S)
<1>1. N \in Nat /\ ExistsBijection(1..N, S)
  BY FS_CardinalityType
<1>2. PICK f : f \in Bijection(1..N, S)
  BY <1>1 DEF ExistsBijection
<1>3. f \in [1..N -> S] /\ IsInjective(f)
  BY <1>2 DEF Bijection, Injection, IsInjective
<1>4. s \in [1..N -> S] /\ IsInjective(s)
  BY <1>3 DEF SetToSeq
<1> HIDE DEF s
<1>5. s \in Injection(1..N, S)
  BY <1>4 DEF Injection, IsInjective
<1>6. IsFiniteSet(1..N) /\ Cardinality(1..N) = N
  BY <1>1, FS_Interval
<1>7. s \in Surjection(1..N, S)
  BY <1>5, <1>6, FS_Injection
<1>8. s \in Seq(S) /\ DOMAIN s = 1..N
  BY <1>1, <1>4
<1>9. \A x \in S : \E n \in 1..N : s[n] = x
  BY <1>7 DEF Surjection
<1>10. \A m, n \in 1..N : s[m] = s[n] => m = n
  BY <1>4 DEF IsInjective
<1> QED BY <1>8, <1>9, <1>10 DEF s

\* The least of a set of numbers is in it.
LEMMA LeastOf ==
  ASSUME NEW S \in SUBSET Nat, S # {}
  PROVE  Min(S) \in S
<1>1. \E x \in S : \A y \in S : x =< y
  BY LeastNumber
<1> QED BY <1>1 DEF Min

-----------------------------------------------------------------------------
(***************************************************************************)
(* The table after a write.                                                *)
(***************************************************************************)

\* A belief that a compile composes is no fact.
LEMMA ComposedOf ==
  ASSUME NEW us, Table(us), NEW b \in Bodies, NEW S \in SUBSET Nat, S # {}
  PROVE  Table(Append(us, Composed(b, S))) /\ Evolves(us, Append(us, Composed(b, S)))
<1> DEFINE new == Composed(b, S)
           ws == Append(us, new)
           N == Len(us) + 1
<1>1. us \in Seq(Row) /\ Len(us) \in Nat /\ DOMAIN us = 1..Len(us)
  BY DEF Table
<1>2. new \in Row /\ new.prev = 0 /\ new.from # {} /\ new.state = "candidate"
  BY DEF Composed, Row, UnitStates
<1> HIDE DEF new
<1>3. ws \in Seq(Row) /\ Len(ws) = N /\ ws[N] = new /\ DOMAIN ws = 1..N
  BY <1>1, <1>2
<1>4. \A n \in DOMAIN us : ws[n] = us[n] /\ n \in DOMAIN ws
  BY <1>1, <1>2
<1> HIDE DEF ws
<1>5. \A n \in DOMAIN us : us[n] \in Row /\ RowOk(us, n) /\ Succeeded(us, n)
  BY <1>1 DEF Table
<1>6. \A n \in DOMAIN us : us[n].prev # 0 => us[n].prev \in DOMAIN us
  BY <1>1, <1>5 DEF RowOk, Row
<1>7. \A n \in DOMAIN us : RowOk(ws, n)
  BY <1>4, <1>5, <1>6 DEF RowOk
<1>8. \A n \in DOMAIN us : Succeeded(ws, n)
  BY <1>4, <1>5 DEF Succeeded
<1>9. RowOk(ws, N) /\ Succeeded(ws, N)
  BY <1>1, <1>2, <1>3 DEF RowOk, Succeeded
<1>10. Table(ws)
  BY <1>1, <1>3, <1>7, <1>8, <1>9 DEF Table
<1>11. \A n \in DOMAIN us : us[n] = [us[n] EXCEPT !.state = us[n].state]
  BY <1>5 DEF Row
<1>12. \A n \in DOMAIN us : Later(us, ws, n)
  BY <1>4, <1>11 DEF Later
<1>13. Len(us) <= Len(ws)
  BY <1>1, <1>3
<1>14. Evolves(us, ws)
  BY <1>12, <1>13 DEF Evolves
<1> QED BY <1>10, <1>14 DEF ws, new

\* What later states of a row may be.
LEMMA LaterStates ==
  ASSUME NEW us, NEW ws, NEW i, Later(us, ws, i)
  PROVE  /\ ws[i].state = "active" => us[i].state = "active"
         /\ us[i].state = "deleted" => ws[i].state = "deleted"
         /\ ws[i].state = "deleted" /\ us[i].state # "deleted" /\ us[i].prev # 0
              => ws[us[i].prev].state = "deleted"
BY DEF Later

\* What a transaction commits: the rows it rewrote in its snapshot, which nobody else has
\* changed, and its new rows behind those that others have added meanwhile.
Merges1(us, seen, staged, R, ws) ==
  /\ R = {i \in DOMAIN seen : staged[i] # seen[i]}
  /\ \A i \in R : us[i] = seen[i]
  /\ ws \in Seq(Row) /\ Len(ws) = Len(us) + (Len(staged) - Len(seen))
  /\ \A n \in DOMAIN us : ws[n] = IF n \in R THEN staged[n] ELSE us[n]
  /\ \A n \in DOMAIN ws : n > Len(us) => ws[n] = staged[n - Len(us) + Len(seen)]

\* The rows of the merged table.
LEMMA MergedOf ==
  ASSUME NEW us, NEW seen, NEW staged, NEW R, NEW ws, NEW ops, NEW N,
         Table(us), Table(seen), Evolves(seen, us), Done(seen, ops, N, staged),
         Merges1(us, seen, staged, R, ws)
  PROVE  /\ Table(ws) /\ Evolves(us, ws)
         /\ \A n \in DOMAIN ws \ DOMAIN us : ws[n].from = {}
         /\ \A n \in DOMAIN seen : staged[n].state # "active" => ws[n].state # "active"
<1>1. /\ us \in Seq(Row) /\ Len(us) \in Nat /\ DOMAIN us = 1..Len(us)
      /\ seen \in Seq(Row) /\ Len(seen) \in Nat /\ DOMAIN seen = 1..Len(seen)
      /\ staged \in Seq(Row) /\ Len(staged) \in Nat /\ DOMAIN staged = 1..Len(staged)
      /\ ws \in Seq(Row) /\ Len(ws) \in Nat /\ DOMAIN ws = 1..Len(ws)
  BY DEF Table, Done, Merges1
<1>2. Table(staged) /\ Evolves(seen, staged) /\ Len(seen) <= Len(us) /\ Len(seen) <= Len(staged)
  BY DEF Done, Evolves
<1>3. /\ R \subseteq DOMAIN seen /\ DOMAIN seen \subseteq DOMAIN us /\ DOMAIN seen \subseteq DOMAIN staged
      /\ DOMAIN us \subseteq DOMAIN ws
  BY <1>1, <1>2 DEF Merges1
<1>4. /\ \A i \in R : us[i] = seen[i]
      /\ \A i \in DOMAIN seen \ R : staged[i] = seen[i]
      /\ \A n \in DOMAIN us : ws[n] = IF n \in R THEN staged[n] ELSE us[n]
  BY DEF Merges1
<1>5. \A n \in DOMAIN ws \ DOMAIN us :
        /\ n - Len(us) + Len(seen) \in DOMAIN staged /\ n - Len(us) + Len(seen) > Len(seen)
        /\ ws[n] = staged[n - Len(us) + Len(seen)]
  BY <1>1, <1>2 DEF Merges1
<1>6. \A n \in DOMAIN ws \ DOMAIN us :
        ws[n].prev <= Len(seen) /\ ws[n].from = {} /\ ws[n].state # "superseded"
  BY <1>5 DEF Done
<1>7. \A n \in DOMAIN us : us[n] \in Row /\ RowOk(us, n) /\ Succeeded(us, n)
  BY <1>1 DEF Table
<1>8. \A n \in DOMAIN staged : staged[n] \in Row /\ RowOk(staged, n) /\ Succeeded(staged, n)
  BY <1>1, <1>2 DEF Table
<1>9. \A n \in DOMAIN seen : /\ Later(seen, us, n) /\ Later(seen, staged, n)
                             /\ us[n].prev = seen[n].prev /\ us[n].from = seen[n].from
                             /\ staged[n].prev = seen[n].prev /\ staged[n].from = seen[n].from
  BY <1>1, <1>2, SameColumns DEF Evolves
<1>20. \A n \in DOMAIN seen :
         /\ us[n].state = "active" => seen[n].state = "active"
         /\ seen[n].state = "deleted" => us[n].state = "deleted"
         /\ us[n].state = "deleted" /\ seen[n].state # "deleted" /\ seen[n].prev # 0
              => us[seen[n].prev].state = "deleted"
  BY <1>9, LaterStates
<1>21. \A n \in DOMAIN seen :
         /\ staged[n].state = "active" => seen[n].state = "active"
         /\ seen[n].state = "deleted" => staged[n].state = "deleted"
         /\ staged[n].state = "deleted" /\ seen[n].state # "deleted" /\ seen[n].prev # 0
              => staged[seen[n].prev].state = "deleted"
  BY <1>9, LaterStates
<1>10. \A n \in DOMAIN us : ws[n] \in Row /\ ws[n].prev = us[n].prev /\ ws[n].from = us[n].from
  BY <1>1, <1>3, <1>4, <1>7, <1>8, <1>9
<1>11. \A n \in DOMAIN seen : staged[n].state # "active" => ws[n].state # "active"
  BY <1>3, <1>4, <1>20
<1>12. \A n \in DOMAIN us : us[n].state # "active" => ws[n].state # "active"
  BY <1>3, <1>4, <1>21
<1>13. \A n \in DOMAIN us : us[n].prev # 0 => us[n].prev \in DOMAIN us /\ (n \in DOMAIN seen => us[n].prev \in DOMAIN seen)
  BY <1>1, <1>7 DEF RowOk, Row
<1>14. \A n \in DOMAIN us : RowOk(ws, n)
  <2> SUFFICES ASSUME NEW n \in DOMAIN us PROVE RowOk(ws, n)
    OBVIOUS
  <2>1. ws[n].prev < n /\ (ws[n].prev # 0 => ws[n].from = {} /\ ws[ws[n].prev].state # "active")
    BY <1>7, <1>10, <1>12, <1>13 DEF RowOk
  <2>2. CASE n \in R
    BY <1>3, <1>4, <1>8, <2>1, <2>2 DEF RowOk
  <2>3. CASE n \notin R
    BY <1>4, <1>7, <2>1, <2>3 DEF RowOk
  <2> QED BY <2>2, <2>3
<1>15. \A n \in DOMAIN ws \ DOMAIN us : RowOk(ws, n) /\ Succeeded(ws, n)
  <2> SUFFICES ASSUME NEW n \in DOMAIN ws \ DOMAIN us PROVE RowOk(ws, n) /\ Succeeded(ws, n)
    OBVIOUS
  <2>1. /\ ws[n].prev <= Len(seen) /\ ws[n].from = {} /\ ws[n].state # "superseded"
        /\ ws[n] \in Row
    BY <1>1, <1>6
  <2>2. ws[n].prev < n /\ ws[n].prev \in Nat
    BY <1>1, <1>2, <2>1 DEF Row
  <2>3. ASSUME ws[n].prev # 0 PROVE ws[ws[n].prev].state # "active"
    <3>1. ws[n].prev \in DOMAIN seen
      BY <1>1, <2>1, <2>2, <2>3
    <3>2. staged[ws[n].prev].state # "active"
      BY <1>5, <1>8, <2>3 DEF RowOk
    <3> QED BY <1>11, <3>1, <3>2
  <2>4. ws[n].state \in {"active", "superseded", "deleted"}
    BY <1>5, <1>8, <2>1 DEF RowOk
  <2> QED BY <2>1, <2>2, <2>3, <2>4 DEF RowOk, Succeeded
<1>16. \A n \in DOMAIN us : Succeeded(ws, n)
  <2> SUFFICES ASSUME NEW n \in DOMAIN us, ws[n].state = "superseded"
               PROVE  \E m \in DOMAIN ws : ws[m].prev = n /\ ws[m].state # "deleted"
    BY DEF Succeeded
  <2>0. n # 0
    BY <1>1
  <2>1. CASE n \in R
    <3>1. n \in DOMAIN seen /\ n \in DOMAIN staged /\ staged[n].state = "superseded" /\ us[n] = seen[n]
      BY <1>3, <1>4, <2>1
    <3>2. PICK m \in DOMAIN staged : staged[m].prev = n /\ staged[m].state # "deleted"
      BY <1>8, <3>1 DEF Succeeded
    <3>3. CASE m \notin DOMAIN seen
      <4> DEFINE k == m - Len(seen) + Len(us)
      <4>1. k \in DOMAIN ws \ DOMAIN us /\ k - Len(us) + Len(seen) = m
        BY <1>1, <1>2, <3>3 DEF Merges1
      <4>2. ws[k] = staged[m]
        BY <1>5, <4>1
      <4> HIDE DEF k
      <4> QED BY <3>2, <4>1, <4>2
    <3>4. CASE m \in R
      BY <1>3, <1>4, <3>2, <3>4
    <3>5. CASE m \in DOMAIN seen \ R
      <4>1. ws[m] = us[m] /\ us[m].prev = n /\ seen[m].prev = n /\ seen[m].state # "deleted" /\ m \in DOMAIN ws
        BY <1>3, <1>4, <1>9, <3>2, <3>5
      <4>2. us[m].state = "deleted" => seen[n].state = "deleted"
        BY <1>20, <2>0, <3>1, <3>5, <4>1
      <4>3. seen[n].state # "deleted"
        BY <1>21, <3>1
      <4> QED BY <4>1, <4>2, <4>3
    <3> QED BY <3>3, <3>4, <3>5
  <2>2. CASE n \notin R
    <3>1. ws[n] = us[n]
      BY <1>4, <2>2
    <3>2. PICK m \in DOMAIN us : us[m].prev = n /\ us[m].state # "deleted"
      BY <1>7, <3>1 DEF Succeeded
    <3>3. CASE m \notin R
      BY <1>3, <1>4, <3>2, <3>3
    <3>4. CASE m \in R
      <4>1. /\ ws[m] = staged[m] /\ us[m] = seen[m] /\ m \in DOMAIN seen /\ m \in DOMAIN ws
            /\ staged[m].prev = n /\ seen[m].prev = n
        BY <1>3, <1>4, <1>9, <3>2, <3>4
      <4>2. n \in DOMAIN seen
        BY <1>13, <2>0, <3>2, <4>1
      <4>3. staged[m].state = "deleted" => staged[n].state = "deleted"
        BY <1>21, <2>0, <3>2, <4>1
      <4>4. staged[n].state = "deleted" => us[n].state = "deleted"
        BY <1>4, <1>20, <2>2, <4>2
      <4> QED BY <3>1, <4>1, <4>3, <4>4
    <3> QED BY <3>3, <3>4
  <2> QED BY <2>1, <2>2
<1>17. Table(ws)
  BY <1>1, <1>14, <1>15, <1>16 DEF Table
<1>18. \A n \in DOMAIN us : Later(us, ws, n)
  <2> SUFFICES ASSUME NEW n \in DOMAIN us PROVE Later(us, ws, n)
    OBVIOUS
  <2>1. CASE n \notin R
    <3>1. ws[n] = us[n] /\ us[n] = [us[n] EXCEPT !.state = us[n].state]
      BY <1>4, <1>7, <2>1 DEF Row
    <3> QED BY <3>1 DEF Later
  <2>2. CASE n \in R
    <3>1. ws[n] = staged[n] /\ us[n] = seen[n] /\ n \in DOMAIN seen /\ Later(seen, staged, n)
      BY <1>3, <1>4, <1>9, <2>2
    <3>2. ASSUME ws[n].state = "deleted", us[n].state # "deleted", us[n].prev # 0
          PROVE  ws[us[n].prev].state = "deleted"
      <4> DEFINE p == us[n].prev
      <4>1. staged[p].state = "deleted" /\ p \in DOMAIN seen /\ p \in DOMAIN us
        BY <1>13, <1>21, <3>1, <3>2
      <4>2. CASE p \in R
        BY <1>4, <4>1, <4>2
      <4>3. CASE p \notin R
        BY <1>4, <1>20, <4>1, <4>3
      <4> QED BY <4>2, <4>3
    <3> QED BY <3>1, <3>2 DEF Later
  <2> QED BY <2>1, <2>2
<1>19. Evolves(us, ws)
  <2>1. Len(us) <= Len(ws)
    BY ONLY <1>1, <1>3
  <2> QED BY ONLY <1>18, <2>1 DEF Evolves
<1> QED BY <1>6, <1>11, <1>17, <1>19

-----------------------------------------------------------------------------
(***************************************************************************)
(* The server.  The invariant says what a request knows in each of its     *)
(* phases, what a commit has left behind, and that what a pending request  *)
(* took for the projection is older than what a commit of the same edit    *)
(* has created.                                                            *)
(***************************************************************************)
Pending == {"sent", "admitted", "prepared", "begun"}

EditsOf(q) == {q.ops[n].edit : n \in DOMAIN q.ops} \ {0}
NamedBy(q) == {q.ops[n].unit : n \in {m \in DOMAIN q.ops : q.ops[m].op # "retain"}}

RequestShape(q) ==
  /\ q = [phase |-> q.phase, base |-> q.base, ops |-> q.ops, seen |-> q.seen,
          peers |-> q.peers, reply |-> q.reply]
  /\ q.phase \in {"none", "answered"} \cup Pending
  /\ q.phase = "answered" => q.reply \in {"ok", "server_error", "conflict", "invalid"}

\* What a request has in its phases: the plan as it was sent, the snapshot it was admitted
\* on, the plan as it was prepared, the snapshot of its transaction.
PlanSent(q) ==
  /\ q.ops \in Seq(Op)
  /\ \A n \in DOMAIN q.ops : IF q.ops[n].op = "retain" THEN q.ops[n].key \in Keys
                                                       ELSE q.ops[n].unit \in q.base
SnapshotIn(q, us) == Table(q.seen) /\ Evolves(q.seen, us) /\ q.base \subseteq DOMAIN (q.seen)
TransactionOf(q) ==
  Projection(q.seen) = q.base /\ \A c \in q.peers : c.created \subseteq DOMAIN (q.seen)

RequestOk(q, us) ==
  /\ RequestShape(q) /\ q.base \subseteq DOMAIN us
  /\ q.phase \in {"sent", "admitted"} => PlanSent(q)
  /\ q.phase \in {"admitted", "prepared", "begun"} => SnapshotIn(q, us)
  /\ q.phase = "admitted" => WellFormedPlan(q.seen, q.ops)
  /\ q.phase \in {"prepared", "begun"} => LegalPlan(q.seen, q.ops)
  /\ q.phase = "begun" => TransactionOf(q)

\* A commit created facts, and its request was answered.
CreatedIn(c, us) == c.created \subseteq DOMAIN us /\ \A i \in c.created : us[i].from = {}
WasAnswered(c, qs) ==
  /\ c.req \in Requests /\ qs[c.req].phase = "answered"
  /\ qs[c.req].reply \in {"ok", "server_error"}

\* Whatever is in the base is older than what the commit created.
Precedes(base, c) == \A i \in base, j \in c.created : i < j
BaseIsOlder(q, cs) ==
  q.phase \in Pending => \A c \in cs : EditsOf(q) \cap c.edits # {} => Precedes(q.base, c)

ServerInv ==
  /\ Table(units) /\ Len(units) <= MaxUnits
  /\ requests = [r \in Requests |-> requests[r]]
  /\ \A r \in Requests : RequestOk(requests[r], units) /\ BaseIsOlder(requests[r], commits)
  /\ \A c \in commits : CreatedIn(c, units) /\ WasAnswered(c, requests)

(***************************************************************************)
(* What a step of the server or of another writer does.                    *)
(***************************************************************************)

\* The plan of a request was committed as a whole.
Applies(q, r) ==
  /\ \E d \in commits' : d.req = r /\ d.edits = EditsOf(q)
  /\ \A i \in NamedBy(q) : units'[i].state # "active"

RequestMoves(r, q, q2) ==
  /\ q2.phase \in Pending =>
       q.phase \in Pending /\ EditsOf(q2) = EditsOf(q) /\ NamedBy(q2) = NamedBy(q)
  /\ q.phase \notin Pending => q2 = q
  /\ q.phase \in Pending => q2.phase # "none"
  /\ q.phase \in Pending /\ q2.phase = "answered" /\ q2.reply = "ok" => Applies(q, r)

CommitsGrow ==
  /\ commits \subseteq commits'
  /\ \A d \in commits' \ commits :
       /\ d.created \cap DOMAIN units = {}
       /\ \E r \in Requests : requests[r].phase \in Pending /\ d.edits = EditsOf(requests[r])
       /\ \A c \in commits : c.edits \cap d.edits # {} =>
            \A i \in c.created : units'[i].state = "deleted"
  /\ \A d, e \in commits' \ commits : d = e

Progress ==
  /\ Evolves(units, units') /\ CommitsGrow
  /\ \A r \in Requests : RequestMoves(r, requests[r], requests'[r])

\* What a request has seen of a table it has seen of every later one.
LEMMA RequestKept ==
  ASSUME NEW q, NEW us, NEW ws, Table(us), Table(ws), Evolves(us, ws), RequestOk(q, us)
  PROVE  RequestOk(q, ws)
<1>1. us \in Seq(Row) /\ ws \in Seq(Row) /\ DOMAIN us \subseteq DOMAIN ws
  BY DEF Table, Evolves
<1>2. SnapshotIn(q, us) => SnapshotIn(q, ws)
  BY EvolvesTransitive DEF SnapshotIn
<1> QED BY <1>1, <1>2 DEF RequestOk

\* What a commit created stays a fact, and stays deleted.
LEMMA CreatedKept ==
  ASSUME NEW c, NEW us, NEW ws, Table(us), Table(ws), Evolves(us, ws), CreatedIn(c, us)
  PROVE  /\ CreatedIn(c, ws)
         /\ \A i \in c.created : us[i].state = "deleted" => ws[i].state = "deleted"
<1>1. us \in Seq(Row) /\ ws \in Seq(Row) /\ DOMAIN us \subseteq DOMAIN ws
  BY DEF Table, Evolves
<1>2. \A i \in DOMAIN us : Later(us, ws, i)
  BY DEF Evolves
<1>3. \A i \in DOMAIN us : ws[i].from = us[i].from
  BY <1>1, <1>2, SameColumns
<1>4. \A i \in DOMAIN us : us[i].state = "deleted" => ws[i].state = "deleted"
  BY <1>2, LaterStates
<1> QED BY <1>1, <1>3, <1>4 DEF CreatedIn

\* A write of somebody else.
LEMMA OnlyUnits ==
  ASSUME ServerInv, Table(units'), Evolves(units, units'), Len(units') <= MaxUnits,
         UNCHANGED <<requests, commits>>
  PROVE  ServerInv' /\ Progress
<1>1. \A r \in Requests : RequestOk(requests[r], units')
  BY RequestKept DEF ServerInv
<1>2. \A c \in commits : CreatedIn(c, units')
  BY CreatedKept DEF ServerInv
<1>3. ServerInv'
  BY <1>1, <1>2 DEF ServerInv
<1>4. \A r \in Requests : RequestMoves(r, requests[r], requests'[r])
  <2> SUFFICES ASSUME NEW r \in Requests PROVE RequestMoves(r, requests[r], requests[r])
    OBVIOUS
  <2>1. ~(requests[r].phase \in Pending /\ requests[r].phase = "answered")
    BY DEF Pending
  <2>2. requests[r].phase \in Pending => requests[r].phase # "none"
    BY DEF Pending
  <2> QED BY <2>1, <2>2 DEF RequestMoves
<1>5. CommitsGrow
  BY DEF CommitsGrow
<1> QED BY <1>3, <1>4, <1>5 DEF Progress

\* A step of one request that writes nothing.
LEMMA OneRequest ==
  ASSUME ServerInv, NEW r \in Requests, NEW q2, requests' = [requests EXCEPT ![r] = q2],
         UNCHANGED <<units, commits>>, requests[r].phase \in Pending,
         RequestOk(q2, units), q2.base = requests[r].base, q2.phase # "none",
         q2.phase = "answered" => q2.reply # "ok",
         q2.phase \in Pending => EditsOf(q2) = EditsOf(requests[r]) /\ NamedBy(q2) = NamedBy(requests[r])
  PROVE  ServerInv' /\ Progress
<1>1. /\ requests = [s \in Requests |-> requests[s]]
      /\ requests' = [s \in Requests |-> requests'[s]]
      /\ requests'[r] = q2 /\ \A s \in Requests : s # r => requests'[s] = requests[s]
  BY DEF ServerInv
<1>2. \A s \in Requests : RequestOk(requests'[s], units)
  BY <1>1 DEF ServerInv
<1>3. \A s \in Requests : BaseIsOlder(requests'[s], commits)
  BY <1>1 DEF ServerInv, BaseIsOlder
<1>4. \A c \in commits : WasAnswered(c, requests')
  <2> SUFFICES ASSUME NEW c \in commits PROVE WasAnswered(c, requests')
    OBVIOUS
  <2>1. WasAnswered(c, requests)
    BY DEF ServerInv
  <2>2. c.req # r
    BY <2>1 DEF WasAnswered, Pending
  <2> QED BY <1>1, <2>1, <2>2 DEF WasAnswered
<1>5. ServerInv'
  BY <1>1, <1>2, <1>3, <1>4 DEF ServerInv
<1>6. \A s \in Requests : RequestMoves(s, requests[s], requests'[s])
  <2> SUFFICES ASSUME NEW s \in Requests PROVE RequestMoves(s, requests[s], requests'[s])
    OBVIOUS
  <2>1. CASE s = r
    BY <1>1, <2>1 DEF RequestMoves
  <2>2. CASE s # r
    <3>1. requests'[s] = requests[s]
      BY <1>1, <2>2
    <3>2. requests[s].phase \in Pending => requests[s].phase \notin {"none", "answered"}
      BY DEF Pending
    <3> QED BY <3>1, <3>2 DEF RequestMoves
  <2> QED BY <2>1, <2>2
<1>7. CommitsGrow
  BY DEF CommitsGrow
<1>8. Evolves(units, units')
  BY EvolvesReflexive DEF ServerInv
<1> QED BY <1>5, <1>6, <1>7, <1>8 DEF Progress

\* An answer: the handler keeps nothing.
Answered(q, reply) ==
  [phase |-> "answered", base |-> q.base, ops |-> <<>>, seen |-> <<>>, peers |-> {}, reply |-> reply]

\* The fields of a request that is answered.
LEMMA AnswerIs ==
  ASSUME ServerInv, NEW r \in Requests, NEW reply \in {"ok", "server_error", "conflict", "invalid"},
         Answer(r, reply)
  PROVE  /\ requests' = [requests EXCEPT ![r] = Answered(requests[r], reply)]
         /\ RequestOk(Answered(requests[r], reply), units)
<1> DEFINE q == requests[r]
<1>1. /\ requests = [s \in Requests |-> requests[s]]
      /\ q = [phase |-> q.phase, base |-> q.base, ops |-> q.ops, seen |-> q.seen,
              peers |-> q.peers, reply |-> q.reply]
      /\ q.base \subseteq DOMAIN units
  BY DEF ServerInv, RequestOk, RequestShape
<1>2. /\ requests' = [s \in Requests |-> requests'[s]]
      /\ \A s \in Requests : s # r => requests'[s] = requests[s]
  BY <1>1 DEF Answer
<1>3. requests'[r] = Answered(q, reply)
  <2>1. requests'[r] = [q EXCEPT !.phase = "answered", !.reply = reply, !.ops = <<>>, !.seen = <<>>, !.peers = {}]
    BY <1>1 DEF Answer
  <2> QED BY <1>1, <2>1 DEF Answered
<1>7. requests' = [requests EXCEPT ![r] = Answered(q, reply)]
  BY <1>1, <1>2, <1>3
<1>4. RequestShape(Answered(q, reply))
  BY DEF RequestShape, Answered
<1>5. Answered(q, reply).phase = "answered" /\ Answered(q, reply).base = q.base
  BY DEF Answered
<1>6. RequestOk(Answered(q, reply), units)
  BY <1>1, <1>4, <1>5 DEF RequestOk
<1> QED BY <1>6, <1>7

\* A request is answered without a commit.
LEMMA Refusal ==
  ASSUME ServerInv, NEW r \in Requests, NEW reply \in {"server_error", "conflict", "invalid"},
         requests[r].phase \in Pending, Answer(r, reply), UNCHANGED <<units, commits>>
  PROVE  ServerInv' /\ Progress
<1> DEFINE q2 == Answered(requests[r], reply)
<1>1. requests' = [requests EXCEPT ![r] = q2] /\ RequestOk(q2, units)
  BY AnswerIs
<1>2. q2.base = requests[r].base /\ q2.phase = "answered" /\ q2.reply # "ok" /\ q2.phase \notin Pending
      /\ q2.phase # "none"
  BY DEF Answered, Pending
<1> HIDE DEF q2
<1> QED BY <1>1, <1>2, OneRequest

\* A step of a request changes its phase and one more of its fields.
LEMMA SeenSet ==
  ASSUME NEW q, RequestShape(q), NEW st, NEW x, NEW w, w = [q EXCEPT !.phase = st, !.seen = x]
  PROVE  w = [phase |-> st, base |-> q.base, ops |-> q.ops, seen |-> x, peers |-> q.peers, reply |-> q.reply]
BY DEF RequestShape

\* The fields of a request whose plan was prepared.
LEMMA OpsSet ==
  ASSUME NEW q, RequestShape(q), NEW st, NEW x, NEW w, w = [q EXCEPT !.phase = st, !.ops = x]
  PROVE  w = [phase |-> st, base |-> q.base, ops |-> x, seen |-> q.seen, peers |-> q.peers, reply |-> q.reply]
BY DEF RequestShape

\* The fields of a request whose transaction has begun.
LEMMA PeersSet ==
  ASSUME NEW q, RequestShape(q), NEW st, NEW x, NEW w, w = [q EXCEPT !.phase = st, !.peers = x]
  PROVE  w = [phase |-> st, base |-> q.base, ops |-> q.ops, seen |-> q.seen, peers |-> x, reply |-> q.reply]
BY DEF RequestShape

\* The handler is entered and reads its snapshot.
LEMMA AdmitInv ==
  ASSUME ServerInv, NEW r \in Requests, Admit(r)
  PROVE  ServerInv' /\ Progress
<1> DEFINE q == requests[r]
<1>1. q.phase = "sent" /\ q.phase \in Pending /\ UNCHANGED <<units, commits>>
  BY DEF Admit, Pending
<1>2. CASE Answer(r, "invalid")
  BY <1>1, <1>2, Refusal
<1>3. CASE /\ WellFormedPlan(units, q.ops)
           /\ requests' = [requests EXCEPT ![r].phase = "admitted", ![r].seen = units]
  <2> DEFINE q2 == [q EXCEPT !.phase = "admitted", !.seen = units]
  <2>1. /\ requests = [s \in Requests |-> requests[s]] /\ RequestOk(q, units) /\ RequestShape(q)
    BY DEF ServerInv, RequestOk
  <2>2. requests' = [requests EXCEPT ![r] = q2]
    BY <1>3, <2>1
  <2>3. /\ q2 = [phase |-> "admitted", base |-> q.base, ops |-> q.ops, seen |-> units,
                 peers |-> q.peers, reply |-> q.reply]
    <3>1. q2 = [q EXCEPT !.phase = "admitted", !.seen = units]
      OBVIOUS
    <3> HIDE DEF q2, q
    <3> QED BY <2>1, <3>1, SeenSet
  <2> HIDE DEF q2
  <2>4. /\ q2.phase = "admitted" /\ q2.base = q.base /\ q2.ops = q.ops /\ q2.seen = units
        /\ RequestShape(q2)
    BY <2>3 DEF RequestShape, Pending
  <2>5. SnapshotIn(q2, units)
    BY <2>1, <2>4, EvolvesReflexive DEF SnapshotIn, ServerInv, RequestOk
  <2>6. PlanSent(q2)
    BY <1>1, <2>1, <2>4 DEF PlanSent, RequestOk
  <2>7. RequestOk(q2, units)
    BY <1>3, <2>1, <2>4, <2>5, <2>6 DEF RequestOk
  <2>8. EditsOf(q2) = EditsOf(q) /\ NamedBy(q2) = NamedBy(q)
    BY <2>4 DEF EditsOf, NamedBy
  <2> QED BY <1>1, <2>2, <2>4, <2>7, <2>8, OneRequest
<1> QED BY <1>2, <1>3 DEF Admit

\* The plan is prepared on the snapshot: its edits and the units it names stay the same.
LEMMA PrepareInv ==
  ASSUME ServerInv, NEW r \in Requests, PrepareRequest(r)
  PROVE  ServerInv' /\ Progress
<1> DEFINE q == requests[r]
           p == Prepare(q.seen, q.ops).ops
<1>1. q.phase = "admitted" /\ q.phase \in Pending /\ UNCHANGED <<units, commits>>
  BY DEF PrepareRequest, Pending
<1>2. CASE \E reply \in {"conflict", "invalid"} : Answer(r, reply)
  BY <1>1, <1>2, Refusal
<1>3. CASE /\ Prepare(q.seen, q.ops).ok
           /\ requests' = [requests EXCEPT ![r].phase = "prepared", ![r].ops = p]
  <2> DEFINE q2 == [q EXCEPT !.phase = "prepared", !.ops = p]
  <2>1. /\ requests = [s \in Requests |-> requests[s]] /\ RequestOk(q, units) /\ RequestShape(q)
        /\ PlanSent(q) /\ SnapshotIn(q, units) /\ WellFormedPlan(q.seen, q.ops)
    BY <1>1 DEF ServerInv, RequestOk
  <2>2. Plan(q.seen, q.ops) /\ Table(q.seen) /\ q.ops \in Seq(Op)
    BY <2>1 DEF Plan, PlanSent, SnapshotIn
  <2>3. /\ LegalPlan(q.seen, p) /\ Len(p) = Len(q.ops)
        /\ \A n \in DOMAIN q.ops : Prepared(q.ops[n], p[n])
    BY <1>3, <2>1, <2>2, PlanPrepared
  <2> HIDE DEF p
  <2>4. requests' = [requests EXCEPT ![r] = q2]
    BY <1>3, <2>1
  <2>5. /\ q2 = [phase |-> "prepared", base |-> q.base, ops |-> p, seen |-> q.seen,
                 peers |-> q.peers, reply |-> q.reply]
    <3>1. q2 = [q EXCEPT !.phase = "prepared", !.ops = p]
      OBVIOUS
    <3> HIDE DEF q2, q
    <3> QED BY <2>1, <3>1, OpsSet
  <2> HIDE DEF q2
  <2>6. /\ q2.phase = "prepared" /\ q2.base = q.base /\ q2.ops = p /\ q2.seen = q.seen
        /\ RequestShape(q2)
    BY <2>5 DEF RequestShape, Pending
  <2>7. SnapshotIn(q2, units)
    BY <2>1, <2>6 DEF SnapshotIn
  <2>8. RequestOk(q2, units)
    BY <2>1, <2>3, <2>6, <2>7 DEF RequestOk
  <2>9. p \in Seq(Op) /\ DOMAIN p = DOMAIN q.ops
    BY <2>2, <2>3 DEF LegalPlan
  <2>10. \A n \in DOMAIN p : p[n].op = q.ops[n].op /\ p[n].edit = q.ops[n].edit
                             /\ (q.ops[n].op # "retain" => p[n].unit = q.ops[n].unit)
    BY <2>3, <2>9 DEF Prepared
  <2>11. EditsOf(q2) = EditsOf(q)
    BY <2>6, <2>9, <2>10 DEF EditsOf
  <2>12. NamedBy(q2) = NamedBy(q)
    <3>1. \A i : i \in NamedBy(q2) <=> \E n \in DOMAIN p : p[n].op # "retain" /\ p[n].unit = i
      BY <2>6 DEF NamedBy
    <3>2. \A i : i \in NamedBy(q) <=> \E n \in DOMAIN p : q.ops[n].op # "retain" /\ q.ops[n].unit = i
      BY <2>9 DEF NamedBy
    <3>3. \A i : i \in NamedBy(q2) <=> i \in NamedBy(q)
      BY <2>10, <3>1, <3>2
    <3> QED BY <3>3
  <2> QED BY <1>1, <2>4, <2>6, <2>8, <2>11, <2>12, OneRequest
<1> QED BY <1>2, <1>3 DEF PrepareRequest

\* The transaction starts on the snapshot that was prepared on, which is the current table.
LEMMA BeginInv ==
  ASSUME ServerInv, NEW r \in Requests, BeginRequest(r)
  PROVE  ServerInv' /\ Progress
<1> DEFINE q == requests[r]
<1>1. q.phase = "prepared" /\ q.phase \in Pending /\ UNCHANGED <<units, commits>>
  BY DEF BeginRequest, Pending
<1>2. CASE Answer(r, "conflict")
  BY <1>1, <1>2, Refusal
<1>3. CASE /\ BaseStillHolds(q)
           /\ requests' = [requests EXCEPT ![r].phase = "begun", ![r].peers = commits]
  <2> DEFINE q2 == [q EXCEPT !.phase = "begun", !.peers = commits]
  <2>1. /\ requests = [s \in Requests |-> requests[s]] /\ RequestOk(q, units) /\ RequestShape(q)
        /\ SnapshotIn(q, units) /\ LegalPlan(q.seen, q.ops)
    BY <1>1 DEF ServerInv, RequestOk
  <2>2. requests' = [requests EXCEPT ![r] = q2]
    <3>1. requests'[r] = q2
      BY <1>3, <2>1
    <3>2. requests' = [s \in Requests |-> requests'[s]] /\ \A s \in Requests : s # r => requests'[s] = requests[s]
      BY <1>3, <2>1
    <3> HIDE DEF q2
    <3> QED BY <2>1, <3>1, <3>2
  <2>3. /\ q2 = [phase |-> "begun", base |-> q.base, ops |-> q.ops, seen |-> q.seen,
                 peers |-> commits, reply |-> q.reply]
    <3>1. q2 = [q EXCEPT !.phase = "begun", !.peers = commits]
      OBVIOUS
    <3> HIDE DEF q2, q
    <3> QED BY <2>1, <3>1, PeersSet
  <2> HIDE DEF q2
  <2>4. /\ q2.phase = "begun" /\ q2.base = q.base /\ q2.ops = q.ops /\ q2.seen = q.seen
        /\ q2.peers = commits /\ RequestShape(q2)
    BY <2>3 DEF RequestShape, Pending
  <2>5. SnapshotIn(q2, units)
    BY <2>1, <2>4 DEF SnapshotIn
  <2>6. TransactionOf(q2)
    <3>1. Projection(units) = q.base /\ units = q.seen
      BY <1>3 DEF BaseStillHolds
    <3>2. \A c \in commits : c.created \subseteq DOMAIN units
      BY DEF ServerInv, CreatedIn
    <3> QED BY <2>4, <3>1, <3>2 DEF TransactionOf
  <2>7. RequestOk(q2, units)
    BY <2>1, <2>4, <2>5, <2>6 DEF RequestOk
  <2>8. EditsOf(q2) = EditsOf(q) /\ NamedBy(q2) = NamedBy(q)
    BY <2>4 DEF EditsOf, NamedBy
  <2> QED BY <1>1, <2>2, <2>4, <2>7, <2>8, OneRequest
<1> QED BY <1>2, <1>3 DEF BeginRequest

\* The transaction rolls back.
LEMMA RollbackInv ==
  ASSUME ServerInv, NEW r \in Requests, RollbackRequest(r)
  PROVE  ServerInv' /\ Progress
<1>1. requests[r].phase \in Pending /\ UNCHANGED <<units, commits>>
  BY DEF RollbackRequest, Pending
<1> QED BY <1>1, Refusal DEF RollbackRequest

\* A fact that is not deleted is served, or what took its place is.
LEMMA Survivor ==
  ASSUME NEW us, Table(us), NEW i \in DOMAIN us, us[i].from = {}, us[i].state # "deleted"
  PROVE  \E j \in Projection(us) : i <= j
<1> DEFINE X == {j \in DOMAIN us : i <= j /\ us[j].from = {} /\ us[j].state # "deleted"}
           Y == {Len(us) - j : j \in X}
<1>1. us \in Seq(Row) /\ Len(us) \in Nat /\ DOMAIN us = 1..Len(us)
  BY DEF Table
<1>2. \A n \in DOMAIN us : us[n] \in Row /\ RowOk(us, n) /\ Succeeded(us, n)
  BY <1>1 DEF Table
<1>3. i \in X
  BY <1>1
<1>4. PICK j \in X : \A k \in X : k <= j
  <2>1. Y \in SUBSET Nat /\ Y # {}
    BY <1>1, <1>3
  <2>2. PICK y \in Y : \A z \in Y : y <= z
    <3> HIDE DEF Y
    <3> QED BY <2>1, LeastNumber
  <2>3. PICK j \in X : y = Len(us) - j
    BY <2>2
  <2>4. \A k \in X : Len(us) - j <= Len(us) - k
    BY <2>2, <2>3
  <2>5. \A k \in X : k \in Nat
    BY <1>1
  <2> HIDE DEF X
  <2>6. \A k \in X : k <= j
    BY <1>1, <2>4, <2>5
  <2> QED BY <2>6
<1>5. j \in DOMAIN us /\ i <= j /\ us[j].from = {} /\ us[j].state \in {"active", "superseded"}
  BY <1>2 DEF RowOk
<1>6. CASE us[j].state = "active"
  BY <1>5, <1>6, ProjectionOf
<1>7. CASE us[j].state = "superseded"
  <2>1. PICK m \in DOMAIN us : us[m].prev = j /\ us[m].state # "deleted"
    BY <1>2, <1>5, <1>7 DEF Succeeded
  <2>2. j # 0
    BY <1>1, <1>5
  <2>3. us[m].from = {} /\ j < m
    BY <1>2, <2>1, <2>2 DEF RowOk
  <2>4. m \in X /\ ~(m <= j)
    BY <1>1, <1>5, <2>1, <2>3
  <2> QED BY <1>4, <2>4
<1> QED BY <1>5, <1>6, <1>7

\* The rows behind those of the snapshot.
LEMMA MintedOf ==
  ASSUME NEW staged \in Seq(Row), NEW m \in Nat, m <= Len(staged)
  PROVE  /\ SubSeq(staged, m + 1, Len(staged)) \in Seq(Row)
         /\ Len(SubSeq(staged, m + 1, Len(staged))) = Len(staged) - m
         /\ \A n \in 1..(Len(staged) - m) : SubSeq(staged, m + 1, Len(staged))[n] = staged[n + m]
<1> DEFINE a == m + 1
           z == Len(staged)
<1>1. z \in Nat /\ a \in Int /\ z \in Int /\ z - a + 1 = z - m /\ (a <= z <=> z - m # 0)
  OBVIOUS
<1>2. \A i \in a..z : staged[i] \in Row
  OBVIOUS
<1> HIDE DEF a, z
<1>3. /\ SubSeq(staged, a, z) \in Seq(Row)
      /\ Len(SubSeq(staged, a, z)) = IF a <= z THEN z - a + 1 ELSE 0
      /\ \A i \in 1..(z - a + 1) : SubSeq(staged, a, z)[i] = staged[a + i - 1]
  BY <1>1, <1>2, SubSeqProperties
<1>4. \A i \in 1..(z - m) : a + i - 1 = i + m
  BY <1>1 DEF a
<1>5. Len(SubSeq(staged, a, z)) = z - m
  BY <1>1, <1>3
<1>6. \A n \in 1..(z - m) : SubSeq(staged, a, z)[n] = staged[n + m]
  BY <1>1, <1>3, <1>4
<1> QED BY <1>3, <1>5, <1>6 DEF a, z

\* What is committed are the rows of the plan in its snapshot, and its new rows.
LEMMA CommitMerges ==
  ASSUME NEW us \in Seq(Row), NEW seen, NEW staged, NEW R, Len(seen) \in Nat, Len(staged) \in Nat,
         R = {i \in DOMAIN seen : staged[i] # seen[i]}, \A i \in R : us[i] = seen[i],
         NEW head \in Seq(Row), Len(head) = Len(us),
         \A i \in DOMAIN us : head[i] = IF i \in R THEN staged[i] ELSE us[i],
         NEW minted \in Seq(Row), Len(minted) = Len(staged) - Len(seen),
         \A n \in 1..Len(minted) : minted[n] = staged[n + Len(seen)],
         NEW ws \in Seq(Row), Len(ws) = Len(head) + Len(minted),
         \A i \in 1..(Len(head) + Len(minted)) :
            ws[i] = IF i <= Len(head) THEN head[i] ELSE minted[i - Len(head)]
  PROVE  Merges1(us, seen, staged, R, ws)
<1>4. Len(us) \in Nat /\ Len(minted) \in Nat /\ DOMAIN us = 1..Len(us) /\ DOMAIN ws = 1..Len(ws)
  OBVIOUS
<1>5. \A n \in DOMAIN us : ws[n] = IF n \in R THEN staged[n] ELSE us[n]
  <2> SUFFICES ASSUME NEW n \in DOMAIN us PROVE ws[n] = IF n \in R THEN staged[n] ELSE us[n]
    OBVIOUS
  <2>1. n \in 1..(Len(us) + Len(minted)) /\ n <= Len(us)
    BY <1>4
  <2>2. ws[n] = head[n]
    BY <2>1
  <2> QED BY <2>2
<1>6. \A n \in DOMAIN ws : n > Len(us) => ws[n] = staged[n - Len(us) + Len(seen)]
  <2> SUFFICES ASSUME NEW n \in DOMAIN ws, n > Len(us) PROVE ws[n] = staged[n - Len(us) + Len(seen)]
    OBVIOUS
  <2>1. n \in 1..(Len(us) + Len(minted)) /\ ~(n <= Len(us)) /\ n - Len(us) \in 1..Len(minted)
    BY <1>4
  <2>2. ws[n] = minted[n - Len(us)]
    BY <2>1
  <2> QED BY <2>1, <2>2
<1> QED BY <1>5, <1>6 DEF Merges1

\* A transaction whose base is older than what another commit has created finds all of that deleted.
LEMMA Shadowed ==
  ASSUME NEW q, NEW us, NEW c, Table(us), SnapshotIn(q, us), TransactionOf(q), c \in q.peers,
         CreatedIn(c, us), Precedes(q.base, c)
  PROVE  \A i \in c.created : us[i].state = "deleted"
<1> SUFFICES ASSUME NEW i \in c.created PROVE us[i].state = "deleted"
  OBVIOUS
<1>1. /\ Table(q.seen) /\ q.seen \in Seq(Row) /\ i \in DOMAIN q.seen /\ Later(q.seen, us, i)
      /\ us[i].from = {} /\ i \in Nat
  BY DEF SnapshotIn, TransactionOf, Evolves, CreatedIn, Table
<1>2. q.seen[i].from = {}
  BY <1>1, SameColumns
<1>3. ASSUME q.seen[i].state # "deleted" PROVE FALSE
  <2>1. PICK j \in Projection(q.seen) : i <= j
    BY <1>1, <1>2, <1>3, Survivor
  <2>2. j \in q.base /\ j \in Nat
    BY <1>1, <2>1, ProjectionOf DEF TransactionOf
  <2>3. j < i
    BY <2>2 DEF Precedes
  <2> QED BY <1>1, <2>1, <2>2, <2>3
<1> QED BY <1>1, <1>3, LaterStates

\* A commit.
LEMMA CommitInv ==
  ASSUME ServerInv, NEW r \in Requests, CommitRequest(r)
  PROVE  ServerInv' /\ Progress
<1> DEFINE q == requests[r]
           staged == StageAll(q.seen, q.ops)
           R == Rewritten(q, staged)
           head == [i \in DOMAIN units |-> IF i \in R THEN staged[i] ELSE units[i]]
           minted == SubSeq(staged, Len(q.seen) + 1, Len(staged))
           merged == head \o minted
           d == [req |-> r, edits |-> EditsOf(q), created |-> DOMAIN merged \ DOMAIN units]
<1>1. /\ q.phase = "begun" /\ ~Conflicts(q, staged) /\ Len(merged) <= MaxUnits /\ units' = merged
      /\ commits' = commits \cup {d}
      /\ \E reply \in {"ok", "server_error"} : Answer(r, reply)
  BY DEF CommitRequest, EditsOf
<1>2. /\ Table(units) /\ requests = [s \in Requests |-> requests[s]] /\ RequestOk(q, units)
      /\ SnapshotIn(q, units) /\ LegalPlan(q.seen, q.ops) /\ TransactionOf(q) /\ BaseIsOlder(q, commits)
      /\ q.base \subseteq DOMAIN units
  BY <1>1 DEF ServerInv, RequestOk
<1>3. Table(q.seen) /\ Evolves(q.seen, units)
  BY <1>2 DEF SnapshotIn
<1>4. Done(q.seen, q.ops, Len(q.ops), staged)
  BY <1>2, <1>3, PlanStaged
<1>5. q.peers = commits /\ \A i \in R : units[i] = q.seen[i]
  BY <1>1 DEF Conflicts
<1>6. R = {i \in DOMAIN q.seen : staged[i] # q.seen[i]}
  BY DEF Rewritten
<1> HIDE DEF staged, R
<1>7. /\ units \in Seq(Row) /\ q.seen \in Seq(Row) /\ staged \in Seq(Row)
      /\ Len(q.seen) <= Len(staged) /\ Len(q.seen) <= Len(units)
  BY <1>2, <1>3, <1>4 DEF Table, Done, Evolves
<1>8. Merges1(units, q.seen, staged, R, merged)
  <2>1. Len(q.seen) \in Nat /\ Len(staged) \in Nat /\ DOMAIN units = 1..Len(units) /\ Len(units) \in Nat
        /\ DOMAIN q.seen = 1..Len(q.seen) /\ DOMAIN staged = 1..Len(staged)
    BY <1>7
  <2>2. \A i \in DOMAIN units : head[i] \in Row
    BY <1>6, <1>7, <2>1
  <2>3. head \in Seq(Row) /\ Len(head) = Len(units)
    BY <2>1, <2>2
  <2>4. \A i \in DOMAIN units : head[i] = IF i \in R THEN staged[i] ELSE units[i]
    OBVIOUS
  <2> HIDE DEF head
  <2>5. /\ minted \in Seq(Row) /\ Len(minted) = Len(staged) - Len(q.seen)
        /\ \A n \in 1..(Len(staged) - Len(q.seen)) : minted[n] = staged[n + Len(q.seen)]
    BY <1>7, <2>1, MintedOf
  <2> HIDE DEF minted
  <2>6. \A n \in 1..Len(minted) : minted[n] = staged[n + Len(q.seen)]
    BY <2>5
  <2>7. /\ merged \in Seq(Row) /\ Len(merged) = Len(head) + Len(minted)
        /\ \A i \in 1..(Len(head) + Len(minted)) :
             merged[i] = IF i <= Len(head) THEN head[i] ELSE minted[i - Len(head)]
    <3>1. head \in Seq(Row) /\ minted \in Seq(Row)
      BY <2>3, <2>5
    <3> QED BY ONLY <3>1, ConcatProperties
  <2> HIDE DEF merged
  <2>8. \A i \in R : units[i] = q.seen[i]
    BY <1>5
  <2> HIDE DEF q
  <2> QED BY ONLY <1>6, <1>7, <2>1, <2>3, <2>4, <2>5, <2>6, <2>7, <2>8, CommitMerges
<1> HIDE DEF merged
<1>9. /\ Table(units') /\ Evolves(units, units')
      /\ \A n \in DOMAIN units' \ DOMAIN units : units'[n].from = {}
      /\ \A n \in DOMAIN q.seen : staged[n].state # "active" => units'[n].state # "active"
  BY <1>1, <1>2, <1>3, <1>4, <1>8, MergedOf
<1>10. PICK reply \in {"ok", "server_error"} : Answer(r, reply)
  BY <1>1
<1> DEFINE q2 == Answered(q, reply)
<1>11. requests' = [requests EXCEPT ![r] = q2] /\ RequestOk(q2, units)
  BY <1>10, AnswerIs
<1>12. q2.base = q.base /\ q2.phase = "answered" /\ q2.reply = reply
  BY DEF Answered
<1> HIDE DEF q2
<1>13. /\ requests' = [s \in Requests |-> requests'[s]]
       /\ requests'[r] = q2 /\ \A s \in Requests : s # r => requests'[s] = requests[s]
  BY <1>2, <1>11
<1>14. d.req = r /\ d.edits = EditsOf(q) /\ d.created = DOMAIN units' \ DOMAIN units
  BY <1>1
<1> HIDE DEF d
<1>15. q.phase \in Pending /\ q2.phase \notin Pending /\ q2.phase # "none"
  BY <1>1, <1>12 DEF Pending
<1>16. \A c \in commits : c.edits \cap d.edits # {} => \A i \in c.created : units'[i].state = "deleted"
  <2> SUFFICES ASSUME NEW c \in commits, c.edits \cap d.edits # {}
               PROVE  \A i \in c.created : units'[i].state = "deleted"
    OBVIOUS
  <2>1. Precedes(q.base, c)
    BY <1>2, <1>14, <1>15 DEF BaseIsOlder
  <2>2. CreatedIn(c, units)
    BY DEF ServerInv
  <2>3. \A i \in c.created : units[i].state = "deleted"
    BY <1>2, <1>5, <2>1, <2>2, Shadowed
  <2> QED BY <1>2, <1>9, <2>2, <2>3, CreatedKept
<1>17. ServerInv'
  <2>1. \A s \in Requests : RequestOk(requests'[s], units')
    BY <1>2, <1>9, <1>11, <1>13, RequestKept DEF ServerInv
  <2>2. \A s \in Requests : BaseIsOlder(requests'[s], commits')
    <3> SUFFICES ASSUME NEW s \in Requests, s # r, requests[s].phase \in Pending, NEW c \in commits',
                        EditsOf(requests[s]) \cap c.edits # {}
                 PROVE  Precedes(requests[s].base, c)
      BY <1>13, <1>15 DEF BaseIsOlder
    <3>1. CASE c \in commits
      BY <3>1 DEF ServerInv, BaseIsOlder
    <3>2. CASE c = d
      <4>1. requests[s].base \subseteq DOMAIN units
        BY DEF ServerInv, RequestOk
      <4>2. DOMAIN units = 1..Len(units) /\ DOMAIN units' = 1..Len(units') /\ Len(units) \in Nat /\ Len(units') \in Nat
        BY <1>2, <1>9 DEF Table
      <4> QED BY <1>14, <3>2, <4>1, <4>2 DEF Precedes
    <3> QED BY <1>1, <3>1, <3>2
  <2>3. \A c \in commits' : CreatedIn(c, units')
    <3>1. \A c \in commits : CreatedIn(c, units')
      BY <1>2, <1>9, CreatedKept DEF ServerInv
    <3>2. CreatedIn(d, units')
      BY <1>9, <1>14 DEF CreatedIn
    <3> QED BY <1>1, <3>1, <3>2
  <2>4. \A c \in commits' : WasAnswered(c, requests')
    <3>1. ASSUME NEW c \in commits PROVE WasAnswered(c, requests')
      <4>1. WasAnswered(c, requests)
        BY DEF ServerInv
      <4>2. c.req # r
        BY <1>1, <4>1 DEF WasAnswered
      <4> QED BY <1>13, <4>1, <4>2 DEF WasAnswered
    <3>2. WasAnswered(d, requests')
      BY <1>12, <1>13, <1>14 DEF WasAnswered
    <3> QED BY <1>1, <3>1, <3>2
  <2>5. Len(units') <= MaxUnits
    BY <1>1
  <2> QED BY <1>9, <1>13, <2>1, <2>2, <2>3, <2>4, <2>5 DEF ServerInv
<1>18. Applies(q, r)
  <2>1. \E c \in commits' : c.req = r /\ c.edits = EditsOf(q)
    BY <1>1, <1>14
  <2>2. ASSUME NEW i \in NamedBy(q) PROVE units'[i].state # "active"
    <3>1. PICK n \in DOMAIN q.ops : q.ops[n].op # "retain" /\ q.ops[n].unit = i
      BY DEF NamedBy
    <3>2. q.ops[n] \in Op /\ n \in 1..Len(q.ops) /\ i <= Len(q.seen) /\ i # 0
      BY <1>2, <3>1 DEF LegalPlan
    <3>3. i \in DOMAIN q.seen
      BY <1>7, <3>1, <3>2 DEF Op
    <3>4. staged[i].state # "active"
      BY <1>4, <3>1, <3>2 DEF Done
    <3> QED BY <1>9, <3>3, <3>4
  <2> QED BY <2>1, <2>2 DEF Applies
<1>19. \A s \in Requests : RequestMoves(s, requests[s], requests'[s])
  <2> SUFFICES ASSUME NEW s \in Requests PROVE RequestMoves(s, requests[s], requests'[s])
    OBVIOUS
  <2>1. CASE s = r
    BY <1>13, <1>15, <1>18, <2>1 DEF RequestMoves
  <2>2. CASE s # r
    <3>1. requests'[s] = requests[s]
      BY <1>13, <2>2
    <3>2. requests[s].phase \in Pending => requests[s].phase \notin {"none", "answered"}
      BY DEF Pending
    <3> QED BY <3>1, <3>2 DEF RequestMoves
  <2> QED BY <2>1, <2>2
<1>20. CommitsGrow
  BY <1>1, <1>14, <1>15, <1>16 DEF CommitsGrow
<1> QED BY <1>9, <1>17, <1>19, <1>20 DEF Progress

\* The writes of others.
LEMMA RetainInv ==
  ASSUME ServerInv, NEW k \in Keys, NEW b \in Bodies, ForeignRetain(k, b)
  PROVE  ServerInv' /\ Progress
<1> DEFINE o == [op |-> "retain", unit |-> OpenOn(units, k), key |-> k, body |-> b, edit |-> 0]
<1>1. Table(units) /\ units \in Seq(Row) /\ Len(units) < MaxUnits /\ UNCHANGED <<requests, commits>>
  BY DEF ServerInv, Table, ForeignRetain, ForeignWrite
<1>2. OpenOn(units, k) = 0 \/ (OpenOn(units, k) \in Projection(units) /\ OpenOn(units, k) \in Nat)
  BY <1>1, OpenOnOf, ProjectionOf
<1>3. o \in Op
  BY <1>2 DEF Op
<1>4. Legal(units, o)
  BY <1>2, <1>3 DEF Legal
<1>5. units' = Staged(units, o)
  BY DEF ForeignRetain, Staged
<1> HIDE DEF o
<1>6. Stages1(units, o, units')
  BY <1>1, <1>4, <1>5, StagedOf
<1>7. Table(units') /\ Evolves(units, units') /\ Len(units') <= Len(units) + 1
  BY <1>6 DEF Stages1
<1>8. Len(units') <= MaxUnits
  BY <1>1, <1>7, SeedsAreUnits DEF Table
<1> QED BY <1>1, <1>7, <1>8, OnlyUnits

\* Another writer composes a belief.
LEMMA ComposeInv ==
  ASSUME ServerInv, NEW i \in DOMAIN units, NEW j \in DOMAIN units, NEW b \in Bodies, ForeignCompose(i, j, b)
  PROVE  ServerInv' /\ Progress
<1>1. Table(units) /\ units \in Seq(Row) /\ Len(units) < MaxUnits /\ UNCHANGED <<requests, commits>>
      /\ units' = Append(units, Composed(b, {i, j}))
  BY DEF ServerInv, Table, ForeignCompose, ForeignWrite
<1>2. {i, j} \in SUBSET Nat /\ {i, j} # {}
  BY <1>1
<1>3. Table(units') /\ Evolves(units, units')
  BY <1>1, <1>2, ComposedOf
<1>4. Composed(b, {i, j}) \in Row
  BY <1>2 DEF Composed, Row, UnitStates
<1>5. Len(units') = Len(units) + 1
  BY <1>1, <1>4
<1>6. Len(units') <= MaxUnits
  BY <1>1, <1>5, SeedsAreUnits
<1> QED BY <1>1, <1>3, <1>6, OnlyUnits

\* Another writer forgets a fact.
LEMMA ForgetInv ==
  ASSUME ServerInv, NEW i \in DOMAIN units, ForeignForget(i)
  PROVE  ServerInv' /\ Progress
<1>1. Table(units) /\ Len(units) <= MaxUnits /\ UNCHANGED <<requests, commits>> /\ units' = Forgotten(units, i)
  BY DEF ServerInv, ForeignForget, ForeignWrite
<1> QED BY <1>1, ForgottenOf, OnlyUnits

\* Every step of the server and of the other writers.
LEMMA ServerStep ==
  ASSUME ServerInv, Server \/ Foreign
  PROVE  ServerInv' /\ Progress
BY AdmitInv, PrepareInv, BeginInv, CommitInv, RollbackInv, RetainInv, ComposeInv, ForgetInv DEF Server, Foreign

\* A step of the client that sends nothing.
LEMMA ServerStays ==
  ASSUME ServerInv, UNCHANGED <<units, requests, commits>>
  PROVE  ServerInv' /\ Progress
<1>1. Evolves(units, units') /\ Table(units') /\ Len(units') <= MaxUnits
  BY EvolvesReflexive DEF ServerInv
<1> QED BY <1>1, OnlyUnits DEF ServerInv

-----------------------------------------------------------------------------
(***************************************************************************)
(* The client.  The files of a tree, what a command has read of it, and    *)
(* what its request has done.                                              *)
(***************************************************************************)

\* What may be under a path: the manifest is never edited and names rows of the table, and
\* nothing but edits is in the inbox.
FileOk(p, c, rows, made) ==
  /\ c.edit \in Int /\ c.edit <= made
  /\ p = Manifest => ~IsEdit(c) /\ c.of \subseteq 1..rows
  /\ (\E k \in Keys : p = InboxFile(k)) => c = Missing \/ IsEdit(c)
Files(t, rows, made) == t = [p \in Paths |-> t[p]] /\ \A p \in Paths : FileOk(p, t[p], rows, made)

\* An edit that was never sent.
Fresh(e, cs, qs) ==
  /\ \A c \in cs : e \notin c.edits
  /\ \A r \in Requests : qs[r].phase \in Pending => e \notin EditsOf(qs[r])

\* Every edit that was sent was made.
SentEdits ==
  /\ edits \in Seq(Bodies)
  /\ \A e \in Int : e > Len(edits) => Fresh(e, commits, requests)

\* A tree whose index and manifest agree lacks the file of a unit only if the user removed it.
Intended ==
  tree[Manifest] # Missing /\ tree[Memory] = tree[Manifest] =>
    \A i \in Entries(tree) : tree[UnitFile(i)] = Missing => i \in removed

\* Whatever the manifest names is older than what a commit of an edit in the tree has created.
TreeIsOlder ==
  \A c \in commits : EditsIn(tree) \cap c.edits # {} => Precedes(Entries(tree), c)

TreeInv ==
  /\ Files(tree, Len(units), Len(edits)) /\ (root # "tree" => \A p \in Paths : tree[p] = Missing)
  /\ SentEdits /\ Intended /\ TreeIsOlder

\* The units whose file differs from what was generated, in a tree that sync or compile accepts.
Changed(t) == {i \in Entries(t) : Drifted(t, i)}
SeenOk(t, rows, made) ==
  /\ Files(t, rows, made) /\ t[Memory] = t[Manifest]
  /\ \A i \in Ids : t[UnitFile(i)] # Missing => i \in Entries(t) /\ (IsEdit(t[UnitFile(i)]) \/ ~Drifted(t, i))
Untouched(t) == EditsIn(t) = {} /\ Changed(t) = {}

\* The request took effect with every edit of the tree that was read.
TookEffect(r, t, us, cs) ==
  /\ \E c \in cs : c.req = r /\ EditsIn(t) \subseteq c.edits
  /\ \A i \in Changed(t) : us[i].state # "active"

\* A command in its phases.
SyncPhases == {"scanned", "planned", "posted", "committed"}
CompilePhases == {"absent", "empty", "tree", "staged"}
CliOk ==
  /\ cli = [pc |-> cli.pc, cmd |-> cli.cmd, seen |-> cli.seen, fetched |-> cli.fetched,
            req |-> cli.req, todo |-> cli.todo, step |-> cli.step, moved |-> cli.moved]
  /\ cli.pc \in SyncPhases \cup CompilePhases \cup {"idle", "write"}
  /\ cli.pc = "idle" => cli = Idle
  /\ cli.pc \in SyncPhases => cli.cmd = "sync"
  /\ cli.pc \in CompilePhases => cli.cmd = "compile"
  /\ cli.pc = "write" => cli.cmd \in {"sync", "compile"}
  /\ cli.pc # "write" => cli.todo = <<>> /\ cli.step = "start" /\ cli.moved = {}
  /\ cli.cmd = "compile" \/ cli.pc \in {"idle", "scanned", "planned"} => cli.req = 0
  /\ cli.pc \in {"posted", "committed"} \/ (cli.pc = "write" /\ cli.cmd = "sync") => cli.req \in Requests
ReadOk ==
  /\ cli.pc # "idle" => SeenOk(cli.seen, Len(units), Len(edits)) /\ (cli.cmd = "compile" => Untouched(cli.seen))
  /\ cli.pc \in {"planned", "posted"} => cli.fetched = Entries(cli.seen)
  /\ cli.pc \in {"staged", "write"} => cli.fetched \subseteq DOMAIN units
  /\ cli.pc \in SyncPhases \cup {"write"} => root = "tree"
LinkOk ==
  /\ cli.pc = "posted" =>
       /\ requests[cli.req].phase # "none"
       /\ requests[cli.req].phase \in Pending =>
            EditsIn(cli.seen) \subseteq EditsOf(requests[cli.req]) /\ Changed(cli.seen) \subseteq NamedBy(requests[cli.req])
       /\ requests[cli.req].phase = "answered" /\ requests[cli.req].reply = "ok" => TookEffect(cli.req, cli.seen, units, commits)
  /\ cli.pc = "committed" \/ (cli.pc = "write" /\ cli.cmd = "sync") => TookEffect(cli.req, cli.seen, units, commits)

(***************************************************************************)
(* The tasks that write a projection.                                      *)
(***************************************************************************)
PutMemory == [act |-> "put", path |-> Memory]
PutManifest == [act |-> "put", path |-> Manifest]
PutUnit(i) == [act |-> "put", path |-> UnitFile(i)]
DropUnit(i) == [act |-> "drop", path |-> UnitFile(i)]
TakeInbox(k) == [act |-> "consume", path |-> InboxFile(k)]
Works(t, S) ==
  {TakeInbox(k) : k \in InboxKeys(t)} \cup {PutUnit(i) : i \in S} \cup {PutMemory}
    \cup {DropUnit(i) : i \in Entries(t) \ S} \cup {PutManifest}

\* The order of the tasks.
Rank(w) == IF w.act = "consume" THEN 1 ELSE IF w.act = "drop" THEN 4
           ELSE IF w.path = Memory THEN 3 ELSE IF w.path = Manifest THEN 5 ELSE 2
Left(todo, w) == \E n \in DOMAIN todo : todo[n] = w
Queue(todo, t, S) ==
  /\ todo \in Seq(Works(t, S))
  /\ \A m, n \in DOMAIN todo : m < n => todo[m] # todo[n] /\ Rank(todo[m]) <= Rank(todo[n])
  /\ todo # <<>> => Left(todo, PutManifest)

\* The first task has moved its file away.
Detached(p) == cli.todo # <<>> /\ Task.path = p /\ cli.step = "detached"

\* A file that the command rewrites: as it was read, absent, or as it is generated.
Rewrites(w, p) ==
  tree[p] = IF ~Left(cli.todo, w) THEN Gen(cli.fetched)
            ELSE IF Detached(p) THEN Missing ELSE cli.seen[p]
StepOk ==
  cli.todo # <<>> => /\ cli.step \in {"start", "ready", "detached"}
                     /\ cli.step # "start" /\ Task.act = "put" => Expected # Target
PutsAreKept ==
  \A i \in cli.fetched : ~Left(cli.todo, PutUnit(i)) /\ tree[UnitFile(i)] = Missing => i \in removed
DropsComeLate ==
  \A i \in Entries(cli.seen) : tree[UnitFile(i)] = Missing =>
    i \in removed \/ (i \notin cli.fetched /\ ~Left(cli.todo, PutMemory))
OldEditsGo ==
  \A p \in Paths : IsEdit(tree[p]) =>
    \/ Fresh(tree[p].edit, commits, requests)
    \/ tree[p] = cli.seen[p] /\ \E n \in DOMAIN cli.todo : cli.todo[n].path = p
Writing ==
  /\ Queue(cli.todo, cli.seen, cli.fetched) /\ StepOk
  /\ \A i \in Changed(cli.seen) : i \notin cli.fetched
  /\ cli.moved \subseteq EditsIn(cli.seen)
  /\ Rewrites(PutManifest, Manifest)
  /\ IsEdit(tree[Memory]) \/ Rewrites(PutMemory, Memory)
  /\ PutsAreKept /\ DropsComeLate /\ OldEditsGo

CliInv == CliOk /\ ReadOk /\ LinkOk /\ (cli.pc = "write" => Writing)

\* What was reported stays true of the request.
OutcomeOk ==
  /\ outcome.req # 0 /\ outcome.result \in {"conflict", "invalid"} =>
       /\ outcome.req \in Requests /\ requests[outcome.req].phase = "answered"
       /\ requests[outcome.req].reply \in {"conflict", "invalid"}
  /\ outcome.result \in {"applied", "postcommit"} => \E c \in commits : c.req = outcome.req

\* Of two commits of the same edit one has left nothing.
Superseded ==
  \A c, d \in commits : c # d /\ c.edits \cap d.edits # {} =>
    \E e \in {c, d} : \A i \in e.created : units[i].state = "deleted"

SyncInv == ServerInv /\ TreeInv /\ CliInv /\ OutcomeOk /\ Superseded

(***************************************************************************)
(* Contents, paths and trees.                                              *)
(***************************************************************************)
\* Paths of different kinds are different.
LEMMA PathsApart ==
  /\ \A i, j : UnitFile(i) = UnitFile(j) => i = j
  /\ \A i, k : UnitFile(i) # InboxFile(k)
  /\ \A i : UnitFile(i) # Memory /\ UnitFile(i) # Manifest
  /\ \A k : InboxFile(k) # Memory /\ InboxFile(k) # Manifest
  /\ Memory # Manifest
BY DEF UnitFile, InboxFile, Memory, Manifest

\* The paths, by kind.
LEMMA PathsAre ==
  /\ \A i \in Ids : UnitFile(i) \in Paths
  /\ \A k \in Keys : InboxFile(k) \in Paths
  /\ Memory \in Paths /\ Manifest \in Paths
  /\ \A p \in Paths : \/ p = Memory \/ p = Manifest
                      \/ \E i \in Ids : p = UnitFile(i)
                      \/ \E k \in Keys : p = InboxFile(k)
BY DEF Paths

\* A rendered tree (render_projection).
LEMMA RenderedAt ==
  ASSUME NEW S
  PROVE  /\ Rendered(S) = [p \in Paths |-> Rendered(S)[p]]
         /\ Rendered(S)[Memory] = Gen(S) /\ Rendered(S)[Manifest] = Gen(S)
         /\ \A i \in Ids : Rendered(S)[UnitFile(i)] = IF i \in S THEN Gen({i}) ELSE Missing
         /\ \A k \in Keys : Rendered(S)[InboxFile(k)] = Missing
         /\ \A p \in Paths : ~IsEdit(Rendered(S)[p]) /\ Rendered(S)[p].edit \in {0, -1}
<1>1. Rendered(S) = [p \in Paths |-> Rendered(S)[p]]
  BY DEF Rendered
<1>2. Rendered(S)[Memory] = Gen(S) /\ Rendered(S)[Manifest] = Gen(S)
  BY PathsAre DEF Rendered
<1>3. ASSUME NEW i \in Ids PROVE Rendered(S)[UnitFile(i)] = IF i \in S THEN Gen({i}) ELSE Missing
  <2>1. UnitFile(i) \in Paths /\ UnitFile(i) \notin {Memory, Manifest} /\ UnitFile(i)[2] = i
    BY PathsAre, PathsApart DEF UnitFile
  <2>2. (\E j \in S : UnitFile(i) = UnitFile(j)) <=> i \in S
    BY PathsApart
  <2> QED BY <2>1, <2>2 DEF Rendered
<1>4. ASSUME NEW k \in Keys PROVE Rendered(S)[InboxFile(k)] = Missing
  <2>1. InboxFile(k) \in Paths /\ InboxFile(k) \notin {Memory, Manifest} /\ ~\E i \in S : InboxFile(k) = UnitFile(i)
    BY PathsAre, PathsApart
  <2> QED BY <2>1 DEF Rendered
<1>5. \A p \in Paths : ~IsEdit(Rendered(S)[p]) /\ Rendered(S)[p].edit \in {0, -1}
  BY Contents DEF Rendered
<1> QED BY <1>1, <1>2, <1>3, <1>4, <1>5

\* A rendered tree of rows is one that any command accepts, and nobody has touched it.
LEMMA RenderedOk ==
  ASSUME NEW n \in Nat, NEW m \in Nat, NEW S \in SUBSET (1..n), n <= MaxUnits
  PROVE  /\ SeenOk(Rendered(S), n, m) /\ Untouched(Rendered(S)) /\ Entries(Rendered(S)) = S
<1> DEFINE t == Rendered(S)
<1>1. /\ t = [p \in Paths |-> t[p]] /\ t[Memory] = Gen(S) /\ t[Manifest] = Gen(S)
      /\ \A i \in Ids : t[UnitFile(i)] = IF i \in S THEN Gen({i}) ELSE Missing
      /\ \A k \in Keys : t[InboxFile(k)] = Missing
      /\ \A p \in Paths : ~IsEdit(t[p]) /\ t[p].edit \in {0, -1}
  BY RenderedAt
<1> HIDE DEF t
<1>2. Entries(t) = S
  BY <1>1, Contents DEF Entries
<1>3. ASSUME NEW p \in Paths PROVE FileOk(p, t[p], n, m)
  <2>1. t[p].edit \in Int /\ t[p].edit <= m
    BY <1>1
  <2>2. p = Manifest => ~IsEdit(t[p]) /\ t[p].of \subseteq 1..n
    BY <1>1, Contents
  <2>3. (\E k \in Keys : p = InboxFile(k)) => t[p] = Missing
    BY <1>1
  <2> QED BY <2>1, <2>2, <2>3 DEF FileOk
<1>4. SeenOk(t, n, m)
  BY <1>1, <1>2, <1>3 DEF SeenOk, Files, Drifted
<1>5. EditsIn(t) = {}
  BY <1>1, EditsInTree
<1>6. Changed(t) = {}
  <2>1. S \subseteq Ids
    BY SeedsAreUnits DEF Ids
  <2> QED BY <1>1, <1>2, <2>1 DEF Changed, Drifted
<1> QED BY <1>2, <1>4, <1>5, <1>6 DEF t, Untouched

(***************************************************************************)
(* What the client knows stays true while the server moves on.             *)
(***************************************************************************)
LEMMA FilesKept ==
  ASSUME NEW t, NEW n \in Nat, NEW n2 \in Nat, NEW m \in Nat, NEW m2 \in Nat, n <= n2, m <= m2
  PROVE  /\ Files(t, n, m) => Files(t, n2, m2)
         /\ SeenOk(t, n, m) => SeenOk(t, n2, m2)
<1>1. \A p \in Paths : FileOk(p, t[p], n, m) => FileOk(p, t[p], n2, m2)
  BY DEF FileOk
<1>2. Files(t, n, m) => Files(t, n2, m2)
  BY <1>1 DEF Files
<1> QED BY <1>2 DEF SeenOk

\* The table and the commits only grow.
LEMMA Growth ==
  ASSUME ServerInv, ServerInv', Progress
  PROVE  /\ Len(units) \in Nat /\ Len(units') \in Nat /\ Len(units) <= Len(units')
         /\ DOMAIN units = 1..Len(units) /\ DOMAIN units' = 1..Len(units')
         /\ commits \subseteq commits' /\ Len(units) <= MaxUnits /\ MaxUnits \in Nat
BY SeedsAreUnits DEF ServerInv, Progress, CommitsGrow, Evolves, Table

\* The server makes no edit old.
LEMMA FreshKept ==
  ASSUME Progress, NEW e, Fresh(e, commits, requests)
  PROVE  Fresh(e, commits', requests')
<1>1. ASSUME NEW c \in commits' PROVE e \notin c.edits
  <2>1. CASE c \in commits
    BY <2>1 DEF Fresh
  <2>2. CASE c \in commits' \ commits
    <3>1. PICK r \in Requests : requests[r].phase \in Pending /\ c.edits = EditsOf(requests[r])
      BY <2>2 DEF Progress, CommitsGrow
    <3> QED BY <3>1 DEF Fresh
  <2> QED BY <2>1, <2>2
<1>2. ASSUME NEW r \in Requests, requests'[r].phase \in Pending PROVE e \notin EditsOf(requests'[r])
  <2>1. requests[r].phase \in Pending /\ EditsOf(requests'[r]) = EditsOf(requests[r])
    BY <1>2 DEF Progress, RequestMoves
  <2> QED BY <2>1 DEF Fresh
<1> QED BY <1>1, <1>2 DEF Fresh

\* What took effect stays in effect.
LEMMA EffectKept ==
  ASSUME Progress, NEW r, NEW t, Changed(t) \subseteq DOMAIN units, TookEffect(r, t, units, commits)
  PROVE  TookEffect(r, t, units', commits')
<1>1. \A i \in Changed(t) : units'[i].state # "active"
  BY LaterStates DEF Progress, Evolves, TookEffect
<1> QED BY <1>1 DEF TookEffect, Progress, CommitsGrow

\* What was reported stays true.
LEMMA OutcomeKept ==
  ASSUME Progress, OutcomeOk, outcome' = outcome
  PROVE  OutcomeOk'
<1>1. ASSUME outcome.req # 0, outcome.result \in {"conflict", "invalid"}
      PROVE  /\ outcome.req \in Requests /\ requests'[outcome.req].phase = "answered"
             /\ requests'[outcome.req].reply \in {"conflict", "invalid"}
  <2>1. /\ outcome.req \in Requests /\ requests[outcome.req].phase = "answered"
        /\ requests[outcome.req].reply \in {"conflict", "invalid"}
    BY <1>1 DEF OutcomeOk
  <2>2. requests'[outcome.req] = requests[outcome.req]
    BY <2>1 DEF Progress, RequestMoves, Pending
  <2> QED BY <2>1, <2>2
<1>2. outcome.result \in {"applied", "postcommit"} => \E c \in commits' : c.req = outcome.req
  BY DEF OutcomeOk, Progress, CommitsGrow
<1> QED BY <1>1, <1>2 DEF OutcomeOk

\* Two commits of an edit still have left something only once.
LEMMA SupersededKept ==
  ASSUME ServerInv, ServerInv', Progress, Superseded
  PROVE  Superseded'
<1>1. ASSUME NEW c \in commits PROVE \A i \in c.created : units[i].state = "deleted" => units'[i].state = "deleted"
  <2>1. Table(units) /\ Table(units') /\ Evolves(units, units') /\ CreatedIn(c, units)
    BY DEF ServerInv, Progress
  <2> QED BY <2>1, CreatedKept
<1> SUFFICES ASSUME NEW c \in commits', NEW d \in commits', c # d, c.edits \cap d.edits # {}
             PROVE  \E e \in {c, d} : \A i \in e.created : units'[i].state = "deleted"
  BY DEF Superseded
<1>2. CASE c \in commits /\ d \in commits
  BY <1>1, <1>2 DEF Superseded
<1>3. CASE c \in commits /\ d \notin commits
  BY <1>3 DEF Progress, CommitsGrow
<1>4. CASE c \notin commits /\ d \in commits
  BY <1>4 DEF Progress, CommitsGrow
<1>5. CASE c \notin commits /\ d \notin commits
  BY <1>5 DEF Progress, CommitsGrow
<1> QED BY <1>2, <1>3, <1>4, <1>5

\* A commit creates rows that are younger than those of the table.
LEMMA NewIsYounger ==
  ASSUME ServerInv, ServerInv', Progress, NEW S \in SUBSET (1..Len(units)), NEW d \in commits' \ commits
  PROVE  Precedes(S, d)
<1>1. d.created \cap DOMAIN units = {} /\ d.created \subseteq DOMAIN units'
  BY DEF ServerInv, CreatedIn, Progress, CommitsGrow
<1> QED BY <1>1, Growth DEF Precedes

\* The tree keeps its invariant while the server moves on.
LEMMA TreeKept ==
  ASSUME ServerInv, ServerInv', Progress, TreeInv, UNCHANGED <<tree, edits, removed>>,
         root' = root \/ root' = "tree"
  PROVE  TreeInv'
<1>1. edits \in Seq(Bodies) /\ Len(edits) \in Nat
  BY DEF TreeInv, SentEdits
<1>2. Files(tree, Len(units'), Len(edits))
  BY <1>1, Growth, FilesKept DEF TreeInv
<1>3. \A e \in Int : e > Len(edits) => Fresh(e, commits', requests')
  BY FreshKept DEF TreeInv, SentEdits
<1>4. Entries(tree) \in SUBSET (1..Len(units))
  BY PathsAre DEF TreeInv, Files, FileOk, Entries
<1>5. \A c \in commits' : EditsIn(tree) \cap c.edits # {} => Precedes(Entries(tree), c)
  BY <1>4, NewIsYounger DEF TreeInv, TreeIsOlder
<1> QED BY <1>1, <1>2, <1>3, <1>5 DEF TreeInv, SentEdits, Intended, TreeIsOlder, Entries, EditsIn

\* The units that changed are among those of the manifest.
LEMMA ChangedRows ==
  ASSUME NEW t, NEW n, NEW m, SeenOk(t, n, m)
  PROVE  Changed(t) \subseteq 1..n /\ Entries(t) \in SUBSET (1..n)
BY PathsAre DEF SeenOk, Files, FileOk, Changed, Entries

\* A command keeps its tie to its request while the server moves on.
LEMMA LinkKept ==
  ASSUME ServerInv, ServerInv', Progress, CliInv, cli' = cli
  PROVE  LinkOk'
<1> DEFINE r == cli.req
           t == cli.seen
<1>1. cli.pc # "idle" => Changed(t) \subseteq DOMAIN units
  BY Growth, ChangedRows DEF CliInv, ReadOk
<1>2. ASSUME cli.pc # "idle", TookEffect(r, t, units, commits) PROVE TookEffect(r, t, units', commits')
  BY <1>1, <1>2, EffectKept
<1>3. ASSUME cli.pc = "posted"
      PROVE  /\ requests'[r].phase # "none"
             /\ requests'[r].phase \in Pending => EditsIn(t) \subseteq EditsOf(requests'[r]) /\ Changed(t) \subseteq NamedBy(requests'[r])
             /\ requests'[r].phase = "answered" /\ requests'[r].reply = "ok" => TookEffect(r, t, units', commits')
  <2>1. r \in Requests
    BY <1>3 DEF CliInv, CliOk
  <2>2. RequestMoves(r, requests[r], requests'[r])
    BY <2>1 DEF Progress
  <2>3. /\ requests[r].phase # "none"
        /\ requests[r].phase \in Pending => EditsIn(t) \subseteq EditsOf(requests[r]) /\ Changed(t) \subseteq NamedBy(requests[r])
        /\ requests[r].phase = "answered" /\ requests[r].reply = "ok" => TookEffect(r, t, units, commits)
    BY <1>3 DEF CliInv, LinkOk
  <2>4. CASE requests[r].phase \notin Pending
    BY <1>2, <1>3, <2>2, <2>3, <2>4 DEF RequestMoves
  <2>5. CASE requests[r].phase \in Pending
    <3>1. requests'[r].phase # "none"
      BY <2>2, <2>5 DEF RequestMoves
    <3>2. requests'[r].phase \in Pending => EditsOf(requests'[r]) = EditsOf(requests[r]) /\ NamedBy(requests'[r]) = NamedBy(requests[r])
      BY <2>2 DEF RequestMoves
    <3>3. ASSUME requests'[r].phase = "answered", requests'[r].reply = "ok" PROVE TookEffect(r, t, units', commits')
      <4>1. Applies(requests[r], r)
        BY <2>2, <2>5, <3>3 DEF RequestMoves
      <4> QED BY <2>3, <2>5, <4>1 DEF Applies, TookEffect
    <3> QED BY <2>3, <2>5, <3>1, <3>2, <3>3
  <2> QED BY <2>4, <2>5
<1>4. cli.pc = "committed" \/ (cli.pc = "write" /\ cli.cmd = "sync") => TookEffect(r, t, units', commits')
  BY <1>2 DEF CliInv, LinkOk
<1> QED BY <1>3, <1>4 DEF LinkOk

\* A step of the server, seen from a command.
LEMMA CommandWaits ==
  ASSUME SyncInv, ServerInv', Progress, UNCHANGED <<tree, root, edits, removed, cli>>
  PROVE  CliInv'
<1>1. ServerInv /\ TreeInv /\ CliInv
  BY DEF SyncInv
<1>2. LinkOk'
  BY <1>1, LinkKept
<1>3. CliOk'
  BY <1>1 DEF CliInv, CliOk
<1>4. Len(edits) \in Nat
  BY <1>1 DEF TreeInv, SentEdits
<1>5. ReadOk'
  <2>1. SeenOk(cli.seen, Len(units), Len(edits)) => SeenOk(cli.seen, Len(units'), Len(edits))
    <3>1. Len(units) \in Nat /\ Len(units') \in Nat /\ Len(units) <= Len(units') /\ Len(edits) <= Len(edits)
      BY <1>1, <1>4, Growth
    <3> QED BY <1>4, <3>1, FilesKept
  <2>2. DOMAIN units \subseteq DOMAIN units'
    BY <1>1, Growth
  <2>3. ReadOk
    BY <1>1 DEF CliInv
  <2> QED BY <2>1, <2>2, <2>3 DEF ReadOk
<1>6. ASSUME cli.pc = "write" PROVE Writing'
  <2>1. Writing
    BY <1>1, <1>6 DEF CliInv
  <2>2. OldEditsGo'
    BY <1>1, <2>1, FreshKept DEF Writing, OldEditsGo
  <2> QED BY <2>1, <2>2 DEF Writing, StepOk, Rewrites, Detached, PutsAreKept, DropsComeLate, Task, Target, Expected, Rendered
<1> QED BY <1>2, <1>3, <1>5, <1>6 DEF CliInv

\* The whole invariant holds after a step of the server.
LEMMA ClientWaits ==
  ASSUME SyncInv, ServerInv', Progress, UNCHANGED <<tree, root, edits, removed, cli, outcome>>
  PROVE  SyncInv'
<1>1. ServerInv /\ TreeInv /\ OutcomeOk /\ Superseded
  BY DEF SyncInv
<1>2. TreeInv' /\ OutcomeOk' /\ Superseded'
  BY <1>1, TreeKept, OutcomeKept, SupersededKept
<1> QED BY <1>2, CommandWaits DEF SyncInv

\* A step of the client that sends nothing.
LEMMA ServerRests ==
  ASSUME SyncInv, UNCHANGED <<units, requests, commits>>
  PROVE  ServerInv' /\ Progress /\ Superseded'
BY ServerStays, SupersededKept DEF SyncInv

(***************************************************************************)
(* The queue of tasks.                                                     *)
(***************************************************************************)

\* The tasks, by rank.
LEMMA Ranks ==
  /\ \A k : TakeInbox(k).act = "consume" /\ TakeInbox(k).path = InboxFile(k) /\ Rank(TakeInbox(k)) = 1
  /\ \A i : PutUnit(i).act = "put" /\ PutUnit(i).path = UnitFile(i) /\ Rank(PutUnit(i)) = 2
  /\ PutMemory.act = "put" /\ PutMemory.path = Memory /\ Rank(PutMemory) = 3
  /\ \A i : DropUnit(i).act = "drop" /\ DropUnit(i).path = UnitFile(i) /\ Rank(DropUnit(i)) = 4
  /\ PutManifest.act = "put" /\ PutManifest.path = Manifest /\ Rank(PutManifest) = 5
BY PathsApart DEF TakeInbox, PutUnit, PutMemory, DropUnit, PutManifest, Rank

\* The tasks of a command, by kind.
LEMMA WorkIs ==
  ASSUME NEW t, NEW S, NEW w
  PROVE  w \in Works(t, S) <=> \/ \E k \in InboxKeys(t) : w = TakeInbox(k)
                               \/ \E i \in S : w = PutUnit(i)
                               \/ w = PutMemory
                               \/ \E i \in Entries(t) \ S : w = DropUnit(i)
                               \/ w = PutManifest
BY DEF Works

\* The rank of the index and that of the manifest tell their tasks.
LEMMA RankIs ==
  ASSUME NEW t, NEW S, NEW w \in Works(t, S)
  PROVE  Rank(w) \in 1..5 /\ (Rank(w) = 5 => w = PutManifest) /\ (Rank(w) = 3 => w = PutMemory)
BY WorkIs, Ranks

\* There is one task for a path.
LEMMA SamePath ==
  ASSUME NEW t, NEW S, NEW v \in Works(t, S), NEW w \in Works(t, S), v.path = w.path
  PROVE  v = w
<1>1. CASE \E k \in InboxKeys(t) : v = TakeInbox(k)
  BY <1>1, WorkIs, Ranks, PathsApart DEF InboxFile, TakeInbox
<1>2. CASE \E i \in S : v = PutUnit(i)
  BY <1>2, WorkIs, Ranks, PathsApart
<1>3. CASE v = PutMemory
  BY <1>3, WorkIs, Ranks, PathsApart
<1>4. CASE \E i \in Entries(t) \ S : v = DropUnit(i)
  BY <1>4, WorkIs, Ranks, PathsApart
<1>5. CASE v = PutManifest
  BY <1>5, WorkIs, Ranks, PathsApart
<1> QED BY <1>1, <1>2, <1>3, <1>4, <1>5, WorkIs

\* The first task is done.
LEMMA QueueTail ==
  ASSUME NEW todo, NEW t, NEW S, Queue(todo, t, S), todo # <<>>
  PROVE  /\ Queue(Tail(todo), t, S) /\ todo[1] \in Works(t, S)
         /\ \A w : Left(Tail(todo), w) <=> Left(todo, w) /\ w # todo[1]
         /\ \A w : Left(todo, w) => w \in Works(t, S) /\ Rank(todo[1]) <= Rank(w)
<1> DEFINE rest == Tail(todo)
<1>1. /\ todo \in Seq(Works(t, S)) /\ Len(todo) \in Nat \ {0} /\ DOMAIN todo = 1..Len(todo)
      /\ \A m, n \in DOMAIN todo : m < n => todo[m] # todo[n] /\ Rank(todo[m]) <= Rank(todo[n])
  BY DEF Queue
<1>2. /\ rest \in Seq(Works(t, S)) /\ Len(rest) = Len(todo) - 1
      /\ \A n \in 1..Len(rest) : rest[n] = todo[n + 1]
  BY <1>1
<1>3. DOMAIN rest = 1..Len(rest) /\ Len(rest) \in Nat
  BY <1>2
<1> HIDE DEF rest
<1>4. todo[1] \in Works(t, S) /\ \A n \in DOMAIN todo : todo[n] \in Works(t, S) /\ Rank(todo[n]) \in Int
  BY <1>1, RankIs
<1>5. \A n \in DOMAIN todo : Rank(todo[1]) <= Rank(todo[n])
  <2> SUFFICES ASSUME NEW n \in DOMAIN todo PROVE Rank(todo[1]) <= Rank(todo[n])
    OBVIOUS
  <2>1. CASE n = 1
    BY <1>4, <2>1
  <2>2. CASE n # 1
    <3>1. 1 \in DOMAIN todo /\ 1 < n
      BY <1>1, <2>2
    <3> QED BY <1>1, <3>1
  <2> QED BY <2>1, <2>2
<1>6. \A m, n \in DOMAIN rest : m < n => rest[m] # rest[n] /\ Rank(rest[m]) <= Rank(rest[n])
  <2> SUFFICES ASSUME NEW m \in DOMAIN rest, NEW n \in DOMAIN rest, m < n
               PROVE  rest[m] # rest[n] /\ Rank(rest[m]) <= Rank(rest[n])
    OBVIOUS
  <2>1. m + 1 \in DOMAIN todo /\ n + 1 \in DOMAIN todo /\ m + 1 < n + 1 /\ rest[m] = todo[m + 1] /\ rest[n] = todo[n + 1]
    BY <1>1, <1>2, <1>3
  <2> QED BY <1>1, <2>1
<1>7. ASSUME NEW w PROVE Left(rest, w) <=> Left(todo, w) /\ w # todo[1]
  <2>1. ASSUME Left(rest, w) PROVE Left(todo, w) /\ w # todo[1]
    <3>1. PICK n \in DOMAIN rest : rest[n] = w
      BY <2>1 DEF Left
    <3>2. n + 1 \in DOMAIN todo /\ 1 \in DOMAIN todo /\ 1 < n + 1 /\ todo[n + 1] = w
      BY <1>1, <1>2, <1>3, <3>1
    <3>3. todo[1] # todo[n + 1]
      BY <1>1, <3>2
    <3> QED BY <3>2, <3>3 DEF Left
  <2>2. ASSUME Left(todo, w), w # todo[1] PROVE Left(rest, w)
    <3>1. PICK n \in DOMAIN todo : todo[n] = w
      BY <2>2 DEF Left
    <3>2. n - 1 \in DOMAIN rest /\ rest[n - 1] = todo[n - 1 + 1] /\ n - 1 + 1 = n
      BY <1>1, <1>2, <1>3, <2>2, <3>1
    <3>3. rest[n - 1] = w
      BY <3>1, <3>2
    <3> QED BY <3>2, <3>3 DEF Left
  <2> QED BY <2>1, <2>2
<1>8. ASSUME rest # <<>> PROVE Left(rest, PutManifest)
  <2>1. Left(todo, PutManifest)
    BY DEF Queue
  <2>2. 1 \in DOMAIN rest
    BY <1>2, <1>3, <1>8
  <2>3. 1 \in DOMAIN todo /\ 2 \in DOMAIN todo
    BY <1>1, <1>2, <1>3, <2>2
  <2>4. ASSUME todo[1] = PutManifest PROVE FALSE
    <3>1. Rank(todo[1]) <= Rank(todo[2]) /\ todo[1] # todo[2]
      BY <1>1, <2>3
    <3>2. Rank(todo[2]) = 5
      BY <1>4, <2>3, <2>4, <3>1, Ranks, RankIs
    <3> QED BY <1>4, <2>3, <2>4, <3>1, <3>2, RankIs
  <2> QED BY <1>7, <2>1, <2>4
<1>9. Queue(rest, t, S)
  BY <1>2, <1>6, <1>8 DEF Queue
<1>10. \A w : Left(todo, w) => w \in Works(t, S) /\ Rank(todo[1]) <= Rank(w)
  BY <1>4, <1>5 DEF Left
<1> QED BY <1>4, <1>7, <1>9, <1>10 DEF rest

\* A list of tasks without repetition, in order, with ranks from a to b.
Batch(s, W, a, b) ==
  /\ s \in Seq(W) /\ \A w \in W : Left(s, w) /\ Rank(w) \in Int /\ a <= Rank(w) /\ Rank(w) <= b
  /\ \A m, n \in DOMAIN s : m < n => s[m] # s[n] /\ Rank(s[m]) <= Rank(s[n])

\* The tasks of one kind.
LEMMA OneKind ==
  ASSUME NEW A, NEW ks \in Seq(A), \A x \in A : \E n \in DOMAIN ks : ks[n] = x,
         \A m, n \in DOMAIN ks : ks[m] = ks[n] => m = n,
         NEW F, \A x, y \in A : F[x] = F[y] => x = y,
         NEW r \in Int, \A x \in A : Rank(F[x]) = r,
         NEW s, s = [n \in DOMAIN ks |-> F[ks[n]]]
  PROVE  Batch(s, {F[x] : x \in A}, r, r)
<1>1. Len(ks) \in Nat /\ DOMAIN ks = 1..Len(ks) /\ \A n \in DOMAIN ks : ks[n] \in A
  OBVIOUS
<1>2. DOMAIN s = DOMAIN ks /\ \A n \in DOMAIN ks : s[n] = F[ks[n]]
  OBVIOUS
<1>3. s \in Seq({F[x] : x \in A})
  BY <1>1
<1>4. \A w \in {F[x] : x \in A} : Left(s, w)
  <2> SUFFICES ASSUME NEW x \in A PROVE Left(s, F[x])
    OBVIOUS
  <2>1. PICK n \in DOMAIN ks : ks[n] = x
    OBVIOUS
  <2> QED BY <1>2, <2>1 DEF Left
<1>5. \A m, n \in DOMAIN s : m < n => s[m] # s[n] /\ Rank(s[m]) <= Rank(s[n])
  <2> SUFFICES ASSUME NEW m \in DOMAIN s, NEW n \in DOMAIN s, m < n
               PROVE  s[m] # s[n] /\ Rank(s[m]) <= Rank(s[n])
    OBVIOUS
  <2>1. m \in DOMAIN ks /\ n \in DOMAIN ks /\ m # n /\ ks[m] \in A /\ ks[n] \in A
    BY <1>1, <1>2
  <2>2. ks[m] # ks[n]
    BY <2>1
  <2>3. Rank(s[m]) = r /\ Rank(s[n]) = r
    BY <1>2, <2>1
  <2> QED BY <1>2, <2>1, <2>2, <2>3
<1> QED BY <1>3, <1>4, <1>5 DEF Batch

\* A single task.
LEMMA OneTask ==
  ASSUME NEW w, NEW r \in Int, Rank(w) = r
  PROVE  Batch(<<w>>, {w}, r, r)
BY DEF Batch, Left

\* One list behind another.
LEMMA Batches ==
  ASSUME NEW s, NEW u, NEW V, NEW W, NEW a \in Int, NEW b \in Int, NEW c \in Int, NEW d \in Int,
         Batch(s, V, a, b), Batch(u, W, c, d), a <= b, b < c, c <= d
  PROVE  Batch(s \o u, V \cup W, a, d)
<1>1. s \in Seq(V \cup W) /\ u \in Seq(V \cup W)
  <2>1. s \in Seq(V) /\ u \in Seq(W)
    BY DEF Batch
  <2> QED BY <2>1
<1>2. /\ s \o u \in Seq(V \cup W) /\ Len(s \o u) = Len(s) + Len(u)
      /\ \A i \in 1..(Len(s) + Len(u)) : (s \o u)[i] = IF i <= Len(s) THEN s[i] ELSE u[i - Len(s)]
  BY <1>1, ConcatProperties
<1>3. PICK z : z = s \o u
  OBVIOUS
<1>4. /\ z \in Seq(V \cup W) /\ DOMAIN z = 1..(Len(s) + Len(u)) /\ Len(s) \in Nat /\ Len(u) \in Nat
      /\ DOMAIN s = 1..Len(s) /\ DOMAIN u = 1..Len(u)
  BY <1>1, <1>2, <1>3
<1>5. /\ \A n \in DOMAIN s : n \in DOMAIN z /\ z[n] = s[n]
      /\ \A n \in DOMAIN u : n + Len(s) \in DOMAIN z /\ z[n + Len(s)] = u[n]
      /\ \A n \in DOMAIN z : n \in DOMAIN s \/ (n - Len(s) \in DOMAIN u /\ z[n] = u[n - Len(s)])
  BY <1>2, <1>3, <1>4
<1>6. /\ \A n \in DOMAIN s : s[n] \in V
      /\ \A n \in DOMAIN u : u[n] \in W
  BY DEF Batch
<1>7. /\ \A w \in V : Left(s, w) /\ Rank(w) \in Int /\ a <= Rank(w) /\ Rank(w) <= b
      /\ \A w \in W : Left(u, w) /\ Rank(w) \in Int /\ c <= Rank(w) /\ Rank(w) <= d
  BY DEF Batch
<1>8. \A w \in V \cup W : Left(z, w)
  BY <1>5, <1>7 DEF Left
<1>9. \A w \in V \cup W : Rank(w) \in Int /\ a <= Rank(w) /\ Rank(w) <= d
  BY <1>7
<1>10. \A m, n \in DOMAIN z : m < n => z[m] # z[n] /\ Rank(z[m]) <= Rank(z[n])
  <2> SUFFICES ASSUME NEW m \in DOMAIN z, NEW n \in DOMAIN z, m < n
               PROVE  z[m] # z[n] /\ Rank(z[m]) <= Rank(z[n])
    OBVIOUS
  <2>1. CASE n \in DOMAIN s
    <3>1. m \in DOMAIN s /\ z[m] = s[m] /\ z[n] = s[n]
      BY <1>4, <1>5, <2>1
    <3> QED BY <2>1, <3>1 DEF Batch
  <2>2. CASE n \notin DOMAIN s /\ m \in DOMAIN s
    <3>1. z[m] = s[m] /\ z[n] = u[n - Len(s)] /\ n - Len(s) \in DOMAIN u
      BY <1>5, <2>2
    <3>2. s[m] \in V /\ u[n - Len(s)] \in W
      BY <1>6, <2>2, <3>1
    <3>3. Rank(s[m]) < Rank(u[n - Len(s)])
      BY <1>7, <3>2
    <3> QED BY <1>7, <3>1, <3>2, <3>3
  <2>3. CASE n \notin DOMAIN s /\ m \notin DOMAIN s
    <3>1. /\ z[m] = u[m - Len(s)] /\ m - Len(s) \in DOMAIN u
          /\ z[n] = u[n - Len(s)] /\ n - Len(s) \in DOMAIN u /\ m - Len(s) < n - Len(s)
      BY <1>4, <1>5, <2>3
    <3> QED BY <3>1 DEF Batch
  <2> QED BY <2>1, <2>2, <2>3
<1>11. Batch(z, V \cup W, a, d)
  BY <1>4, <1>8, <1>9, <1>10 DEF Batch
<1> QED BY <1>3, <1>11

\* The sets that are listed are finite.
LEMMA FiniteParts ==
  /\ \A S \in SUBSET Ids : IsFiniteSet(S)
  /\ \A t : IsFiniteSet(InboxKeys(t))
<1>1. IsFiniteSet(Ids)
  BY SeedsAreUnits, FS_Interval DEF Ids
<1>2. \A S \in SUBSET Ids : IsFiniteSet(S)
  BY <1>1, FS_Subset
<1>3. \A t : InboxKeys(t) \subseteq Keys
  BY DEF InboxKeys
<1>4. \A t : IsFiniteSet(InboxKeys(t))
  BY <1>3, FS_Subset, SeedsAreUnits
<1> QED BY <1>2, <1>4

\* The inbox files that were read, as tasks.
LEMMA ConsumeBatch ==
  ASSUME NEW t
  PROVE  Batch(Consume(t), {TakeInbox(k) : k \in InboxKeys(t)}, 1, 1)
<1> DEFINE A == InboxKeys(t)
           ks == SetToSeq(A)
           F == [k \in A |-> TakeInbox(k)]
<1>1. /\ ks \in Seq(A) /\ \A x \in A : \E n \in DOMAIN ks : ks[n] = x
      /\ \A m, n \in DOMAIN ks : ks[m] = ks[n] => m = n
  BY FiniteParts, Listed
<1>2. \A x \in A : F[x] = TakeInbox(x) /\ Rank(F[x]) = 1
  BY Ranks
<1>3. \A x, y \in A : F[x] = F[y] => x = y
  <2>1. \A x, y : TakeInbox(x) = TakeInbox(y) => InboxFile(x) = InboxFile(y)
    BY Ranks
  <2>2. \A x, y : InboxFile(x) = InboxFile(y) => x = y
    BY DEF InboxFile
  <2> QED BY <1>2, <2>1, <2>2
<1>4. \A n \in DOMAIN ks : ks[n] \in A
  BY <1>1
<1>5. Consume(t) = [n \in DOMAIN ks |-> F[ks[n]]]
  <2>1. Consume(t) = [n \in DOMAIN ks |-> TakeInbox(ks[n])]
    BY DEF Consume, InboxKeys, TakeInbox
  <2> QED BY <1>4, <2>1
<1>6. {F[x] : x \in A} = {TakeInbox(k) : k \in A}
  BY <1>2
<1> HIDE DEF F, ks, A
<1>7. Batch(Consume(t), {F[x] : x \in A}, 1, 1)
  BY <1>1, <1>2, <1>3, <1>5, OneKind
<1>8. Batch(Consume(t), {TakeInbox(k) : k \in A}, 1, 1)
  BY <1>6, <1>7
<1> QED BY <1>8 DEF A

\* The unit files of the projection, as tasks.
LEMMA PutBatch ==
  ASSUME NEW S \in SUBSET Ids
  PROVE  Batch(PutUnits(S), {PutUnit(i) : i \in S}, 2, 2)
<1> DEFINE ks == SetToSeq(S)
           F == [k \in S |-> PutUnit(k)]
<1>1. /\ ks \in Seq(S) /\ \A x \in S : \E n \in DOMAIN ks : ks[n] = x
      /\ \A m, n \in DOMAIN ks : ks[m] = ks[n] => m = n
  BY FiniteParts, Listed
<1>2. \A x \in S : F[x] = PutUnit(x) /\ Rank(F[x]) = 2
  BY Ranks
<1>3. \A x, y \in S : F[x] = F[y] => x = y
  <2>1. \A x, y : PutUnit(x) = PutUnit(y) => UnitFile(x) = UnitFile(y)
    BY Ranks
  <2> QED BY <1>2, <2>1, PathsApart
<1>4. \A n \in DOMAIN ks : ks[n] \in S
  BY <1>1
<1>5. PutUnits(S) = [n \in DOMAIN ks |-> F[ks[n]]]
  <2>1. PutUnits(S) = [n \in DOMAIN ks |-> PutUnit(ks[n])]
    BY DEF PutUnits, PutUnit
  <2> QED BY <1>4, <2>1
<1>6. {F[x] : x \in S} = {PutUnit(k) : k \in S}
  BY <1>2
<1> HIDE DEF F, ks
<1>7. Batch(PutUnits(S), {F[x] : x \in S}, 2, 2)
  BY <1>1, <1>2, <1>3, <1>5, OneKind
<1> QED BY <1>6, <1>7

\* The unit files that are stale, as tasks.
LEMMA DropBatch ==
  ASSUME NEW S \in SUBSET Ids
  PROVE  Batch(DropStale(S), {DropUnit(i) : i \in S}, 4, 4)
<1> DEFINE ks == SetToSeq(S)
           F == [k \in S |-> DropUnit(k)]
<1>1. /\ ks \in Seq(S) /\ \A x \in S : \E n \in DOMAIN ks : ks[n] = x
      /\ \A m, n \in DOMAIN ks : ks[m] = ks[n] => m = n
  BY FiniteParts, Listed
<1>2. \A x \in S : F[x] = DropUnit(x) /\ Rank(F[x]) = 4
  BY Ranks
<1>3. \A x, y \in S : F[x] = F[y] => x = y
  <2>1. \A x, y : DropUnit(x) = DropUnit(y) => UnitFile(x) = UnitFile(y)
    BY Ranks
  <2> QED BY <1>2, <2>1, PathsApart
<1>4. \A n \in DOMAIN ks : ks[n] \in S
  BY <1>1
<1>5. DropStale(S) = [n \in DOMAIN ks |-> F[ks[n]]]
  <2>1. DropStale(S) = [n \in DOMAIN ks |-> DropUnit(ks[n])]
    BY DEF DropStale, DropUnit
  <2> QED BY <1>4, <2>1
<1>6. {F[x] : x \in S} = {DropUnit(k) : k \in S}
  BY <1>2
<1> HIDE DEF F, ks
<1>7. Batch(DropStale(S), {F[x] : x \in S}, 4, 4)
  BY <1>1, <1>2, <1>3, <1>5, OneKind
<1> QED BY <1>6, <1>7

\* What a command sets out to write: every task once, in order, the manifest last.
LEMMA QueueStart ==
  ASSUME NEW t, NEW S \in SUBSET Ids, Entries(t) \in SUBSET Ids
  PROVE  /\ Queue(WriteTasks(t, S), t, S)
         /\ \A w \in Works(t, S) : Left(WriteTasks(t, S), w)
<1> DEFINE V1 == {TakeInbox(k) : k \in InboxKeys(t)}
           V2 == {PutUnit(i) : i \in S}
           V4 == {DropUnit(i) : i \in Entries(t) \ S}
           s1 == Consume(t)
           s2 == PutUnits(S)
           s3 == Put(Memory)
           s4 == DropStale(Entries(t) \ S)
           s5 == Put(Manifest)
<1>1. Batch(s1, V1, 1, 1) /\ Batch(s2, V2, 2, 2) /\ Batch(s4, V4, 4, 4)
  BY ConsumeBatch, PutBatch, DropBatch
<1>2. s3 = <<PutMemory>> /\ s5 = <<PutManifest>>
  BY DEF Put, PutMemory, PutManifest
<1>3. Batch(s3, {PutMemory}, 3, 3) /\ Batch(s5, {PutManifest}, 5, 5)
  BY <1>2, Ranks, OneTask
<1>4. WriteTasks(t, S) = (((s1 \o s2) \o s3) \o s4) \o s5
  BY DEF WriteTasks
<1>5. Works(t, S) = (((V1 \cup V2) \cup {PutMemory}) \cup V4) \cup {PutManifest}
  BY DEF Works
<1> HIDE DEF V1, V2, V4, s1, s2, s3, s4, s5
<1>6. Batch(s1 \o s2, V1 \cup V2, 1, 2)
  BY <1>1, Batches
<1>7. Batch((s1 \o s2) \o s3, (V1 \cup V2) \cup {PutMemory}, 1, 3)
  BY <1>3, <1>6, Batches
<1>8. Batch(((s1 \o s2) \o s3) \o s4, ((V1 \cup V2) \cup {PutMemory}) \cup V4, 1, 4)
  BY <1>1, <1>7, Batches
<1>9. Batch(WriteTasks(t, S), Works(t, S), 1, 5)
  BY <1>3, <1>4, <1>5, <1>8, Batches
<1>10. PutManifest \in Works(t, S)
  BY <1>5
<1> QED BY <1>9, <1>10 DEF Batch, Queue

\* The plan of a tree: an operation for each changed unit and for each file of the inbox.
LEMMA OperationsOf ==
  ASSUME ServerInv, NEW t, SeenOk(t, Len(units), Len(edits)), edits \in Seq(Bodies)
  PROVE  LET q == [NoRequest EXCEPT !.phase = "sent", !.base = Entries(t), !.ops = Operations(t)]
         IN  PlanSent(q) /\ EditsIn(t) = EditsOf(q) /\ Changed(t) = NamedBy(q)
<1> DEFINE q == [NoRequest EXCEPT !.phase = "sent", !.base = Entries(t), !.ops = Operations(t)]
           A == Changed(t)
           B == InboxKeys(t)
           ks == SetToSeq(A)
           ls == SetToSeq(B)
           s == [n \in DOMAIN ks |-> UnitOp(t, ks[n])]
           u == [n \in DOMAIN ls |-> InboxOp(t, ls[n])]
           o == Operations(t)
<1>1. q.base = Entries(t) /\ q.ops = o
  BY DEF NoRequest
<1>2. /\ Len(units) \in Nat /\ DOMAIN units = 1..Len(units) /\ units \in Seq(Row) /\ Len(edits) \in Nat
      /\ \A e \in 1..Len(edits) : edits[e] \in Bodies
  BY DEF ServerInv, Table
<1>3. Entries(t) \subseteq DOMAIN units /\ A \subseteq DOMAIN units /\ A \in SUBSET Ids
  <2>1. Entries(t) \subseteq DOMAIN units /\ A \subseteq DOMAIN units
    BY <1>2, ChangedRows
  <2>2. DOMAIN units \subseteq Ids
    BY <1>2, SeedsAreUnits DEF ServerInv, Ids
  <2> QED BY <2>1, <2>2
<1>4. /\ ks \in Seq(A) /\ \A x \in A : \E n \in DOMAIN ks : ks[n] = x
      /\ ls \in Seq(B) /\ \A x \in B : \E n \in DOMAIN ls : ls[n] = x
  BY <1>3, FiniteParts, Listed
<1>5. o = s \o u
  BY DEF Operations, Changed
<1>6. ASSUME NEW i \in A
      PROVE  /\ UnitOp(t, i) \in Op /\ UnitOp(t, i).op # "retain" /\ UnitOp(t, i).unit = i /\ i \in Entries(t)
             /\ IF IsEdit(t[UnitFile(i)]) THEN UnitOp(t, i).edit = t[UnitFile(i)].edit ELSE UnitOp(t, i).edit = 0
  <2>1. i \in Entries(t) /\ Drifted(t, i) /\ i \in Ids /\ i \in Nat /\ units[i] \in Row
    BY <1>2, <1>3 DEF Changed
  <2>2. CASE t[UnitFile(i)] = Missing
    <3>1. units[i].body \in Bodies
      BY <2>1 DEF Row
    <3> QED BY <2>1, <2>2, <3>1, Contents DEF UnitOp, Op
  <2>3. CASE t[UnitFile(i)] # Missing
    <3>1. IsEdit(t[UnitFile(i)]) /\ FileOk(UnitFile(i), t[UnitFile(i)], Len(units), Len(edits))
      BY <2>1, <2>3, PathsAre DEF SeenOk, Files
    <3>2. t[UnitFile(i)].edit \in 1..Len(edits)
      BY <1>2, <3>1 DEF FileOk, IsEdit
    <3>3. edits[t[UnitFile(i)].edit] \in Bodies
      BY <1>2, <3>2
    <3> QED BY <1>2, <2>1, <2>3, <3>1, <3>2, <3>3 DEF UnitOp, Op
  <2> QED BY <2>2, <2>3
<1>7. ASSUME NEW k \in B
      PROVE  /\ InboxOp(t, k) \in Op /\ InboxOp(t, k).op = "retain" /\ InboxOp(t, k).key = k /\ k \in Keys
             /\ IsEdit(t[InboxFile(k)]) /\ InboxOp(t, k).edit = t[InboxFile(k)].edit
  <2>1. k \in Keys /\ t[InboxFile(k)] # Missing
    BY DEF InboxKeys
  <2>2. IsEdit(t[InboxFile(k)]) /\ FileOk(InboxFile(k), t[InboxFile(k)], Len(units), Len(edits))
    BY <2>1, PathsAre DEF SeenOk, Files, FileOk
  <2>3. t[InboxFile(k)].edit \in 1..Len(edits)
    BY <1>2, <2>2 DEF FileOk, IsEdit
  <2>4. edits[t[InboxFile(k)].edit] \in Bodies
    BY <1>2, <2>3
  <2> QED BY <2>1, <2>2, <2>3, <2>4 DEF InboxOp, Op
<1> HIDE DEF A, B, ks, ls, o, q
<1>8. /\ s \in Seq(Op) /\ u \in Seq(Op) /\ DOMAIN s = DOMAIN ks /\ DOMAIN u = DOMAIN ls
      /\ \A n \in DOMAIN ks : s[n] = UnitOp(t, ks[n]) /\ ks[n] \in A
      /\ \A n \in DOMAIN ls : u[n] = InboxOp(t, ls[n]) /\ ls[n] \in B
  <2>1. /\ \A n \in DOMAIN ks : ks[n] \in A
        /\ \A n \in DOMAIN ls : ls[n] \in B
        /\ DOMAIN ks = 1..Len(ks) /\ DOMAIN ls = 1..Len(ls) /\ Len(ks) \in Nat /\ Len(ls) \in Nat
    BY <1>4
  <2>2. \A n \in 1..Len(ks) : UnitOp(t, ks[n]) \in Op
    BY <1>6, <2>1
  <2>3. \A n \in 1..Len(ls) : InboxOp(t, ls[n]) \in Op
    BY <1>7, <2>1
  <2>4. s = [n \in 1..Len(ks) |-> UnitOp(t, ks[n])] /\ u = [n \in 1..Len(ls) |-> InboxOp(t, ls[n])]
    BY <2>1
  <2>5. s \in Seq(Op)
    BY <2>1, <2>2, <2>4
  <2>6. u \in Seq(Op)
    BY <2>1, <2>3, <2>4
  <2> QED BY <2>1, <2>4, <2>5, <2>6
<1> HIDE DEF s, u
<1>9. /\ o \in Seq(Op) /\ Len(o) = Len(s) + Len(u)
      /\ \A i \in 1..(Len(s) + Len(u)) : o[i] = IF i <= Len(s) THEN s[i] ELSE u[i - Len(s)]
  BY <1>5, <1>8, ConcatProperties
<1>10. /\ \A n \in DOMAIN s : n \in DOMAIN o /\ o[n] = s[n]
       /\ \A n \in DOMAIN u : n + Len(s) \in DOMAIN o /\ o[n + Len(s)] = u[n]
       /\ \A n \in DOMAIN o : (n \in DOMAIN s /\ o[n] = s[n]) \/ (n - Len(s) \in DOMAIN u /\ o[n] = u[n - Len(s)])
  BY <1>8, <1>9
<1>11. \A n \in DOMAIN o : \/ \E i \in A : o[n] = UnitOp(t, i)
                           \/ \E k \in B : o[n] = InboxOp(t, k)
  BY <1>8, <1>10
<1>12. /\ \A i \in A : \E n \in DOMAIN o : o[n] = UnitOp(t, i)
       /\ \A k \in B : \E n \in DOMAIN o : o[n] = InboxOp(t, k)
  BY <1>4, <1>8, <1>10
<1>13. PlanSent(q)
  BY <1>1, <1>6, <1>7, <1>9, <1>11 DEF PlanSent
<1>14. Changed(t) = NamedBy(q)
  <2>1. \A i : i \in NamedBy(q) <=> \E n \in DOMAIN o : o[n].op # "retain" /\ o[n].unit = i
    BY <1>1 DEF NamedBy
  <2>2. \A i : i \in NamedBy(q) <=> i \in A
    BY <1>6, <1>7, <1>11, <1>12, <2>1
  <2> QED BY <2>2 DEF A
<1>15. EditsIn(t) = EditsOf(q)
  <2>1. \A e : e \in EditsOf(q) <=> e # 0 /\ \E n \in DOMAIN o : o[n].edit = e
    BY <1>1 DEF EditsOf
  <2>2. t = [p \in Paths |-> t[p]] /\ t[Memory] = t[Manifest] /\ ~IsEdit(t[Manifest])
    BY PathsAre DEF SeenOk, Files, FileOk
  <2>3. \A e : e \in EditsIn(t) <=> \E p \in Paths : IsEdit(t[p]) /\ t[p].edit = e
    BY <2>2, EditsInTree
  <2>4. ASSUME NEW p \in Paths, IsEdit(t[p]) PROVE t[p].edit \in EditsOf(q)
    <3>1. t[p].edit # 0
      BY <2>4 DEF IsEdit
    <3>2. CASE \E i \in Ids : p = UnitFile(i)
      <4>1. PICK i \in Ids : p = UnitFile(i)
        BY <3>2
      <4>2. i \in A
        BY <2>4, <4>1, Contents DEF SeenOk, A, Changed, Drifted
      <4> QED BY <1>6, <1>12, <2>1, <2>4, <3>1, <4>1, <4>2
    <3>3. CASE \E k \in Keys : p = InboxFile(k)
      <4>1. PICK k \in Keys : p = InboxFile(k)
        BY <3>3
      <4>2. k \in B
        BY <2>4, <4>1, Contents DEF B, InboxKeys
      <4> QED BY <1>7, <1>12, <2>1, <3>1, <4>1, <4>2
    <3> QED BY <2>2, <2>4, <3>2, <3>3, PathsAre
  <2>5. ASSUME NEW e \in EditsOf(q) PROVE e \in EditsIn(t)
    <3>1. PICK n \in DOMAIN o : o[n].edit = e /\ e # 0
      BY <2>1, <2>5
    <3>2. CASE \E i \in A : o[n] = UnitOp(t, i)
      <4>1. PICK i \in A : o[n] = UnitOp(t, i)
        BY <3>2
      <4>2. i \in Ids
        BY <1>3
      <4> QED BY <1>6, <2>3, <3>1, <4>1, <4>2, PathsAre
    <3>3. CASE \E k \in B : o[n] = InboxOp(t, k)
      BY <1>7, <2>3, <3>1, <3>3, PathsAre
    <3> QED BY <1>11, <3>2, <3>3
  <2> QED BY <2>3, <2>4, <2>5
<1> QED BY <1>13, <1>14, <1>15 DEF q

-----------------------------------------------------------------------------
(***************************************************************************)
(* The commands.                                                           *)
(***************************************************************************)

\* What a command reports must be true of its request.
Reports(result) ==
  /\ cli.req # 0 /\ result \in {"conflict", "invalid"} =>
       /\ cli.req \in Requests /\ requests[cli.req].phase = "answered"
       /\ requests[cli.req].reply \in {"conflict", "invalid"}
  /\ result \in {"applied", "postcommit"} => \E c \in commits : c.req = cli.req

\* No command is running.
LEMMA IdleInv ==
  ASSUME cli' = Idle
  PROVE  CliInv'
<1>1. /\ Idle.pc = "idle" /\ Idle.cmd = "none" /\ Idle.req = 0 /\ Idle.todo = <<>> /\ Idle.step = "start" /\ Idle.moved = {}
      /\ Idle = [pc |-> Idle.pc, cmd |-> Idle.cmd, seen |-> Idle.seen, fetched |-> Idle.fetched,
                 req |-> Idle.req, todo |-> Idle.todo, step |-> Idle.step, moved |-> Idle.moved]
  BY DEF Idle
<1>2. CliOk'
  BY <1>1 DEF CliOk, SyncPhases, CompilePhases
<1>3. ReadOk' /\ LinkOk'
  BY <1>1 DEF ReadOk, LinkOk, SyncPhases
<1> QED BY <1>1, <1>2, <1>3 DEF CliInv

\* A command ends with a report that is true of its request.
LEMMA Ends ==
  ASSUME SyncInv, NEW result, Finish(result), Reports(result),
         UNCHANGED <<units, requests, commits>>, TreeInv'
  PROVE  SyncInv'
<1>1. ServerInv' /\ Superseded'
  BY ServerRests
<1>2. CliInv'
  BY IdleInv DEF Finish
<1>3. outcome'.req = cli.req /\ outcome'.result = result
  BY DEF Finish
<1>4. OutcomeOk'
  BY <1>3 DEF OutcomeOk, Reports
<1> QED BY <1>1, <1>2, <1>4 DEF SyncInv

\* A command ends and leaves the tree as it is.
LEMMA EndsQuietly ==
  ASSUME SyncInv, NEW result, Finish(result), Reports(result),
         UNCHANGED <<units, requests, commits, tree, root, edits, removed>>
  PROVE  SyncInv'
<1>1. TreeInv'
  BY ServerRests, TreeKept DEF SyncInv
<1> QED BY <1>1, Ends

\* A command goes on, and the tree is as it was.
LEMMA GoesOn ==
  ASSUME SyncInv, UNCHANGED <<units, requests, commits, tree, edits, removed>>,
         root' = root \/ root' = "tree", CliInv', OutcomeOk'
  PROVE  SyncInv'
BY ServerRests, TreeKept DEF SyncInv

\* Nothing new is reported and the server rests.
LEMMA OutcomeStays ==
  ASSUME SyncInv, UNCHANGED <<requests, commits, outcome>>
  PROVE  OutcomeOk'
BY DEF SyncInv, OutcomeOk

\* A report that names no request says nothing about one.
LEMMA NothingReported ==
  ASSUME outcome' = NoOutcome \/ (outcome'.req = 0 /\ outcome'.result \in {"invalid", "dirty"})
  PROVE  OutcomeOk'
BY DEF OutcomeOk, NoOutcome

\* The fields of a command.
LEMMA CliFields ==
  ASSUME SyncInv
  PROVE  /\ cli = [pc |-> cli.pc, cmd |-> cli.cmd, seen |-> cli.seen, fetched |-> cli.fetched,
                   req |-> cli.req, todo |-> cli.todo, step |-> cli.step, moved |-> cli.moved]
         /\ CliOk /\ ReadOk /\ LinkOk
BY DEF SyncInv, CliInv, CliOk

\* sync has read the tree.
LEMMA SyncScanInv ==
  ASSUME SyncInv, SyncScan
  PROVE  SyncInv'
<1>1. /\ UNCHANGED <<units, requests, commits, tree, root, edits, removed>> /\ Readable(tree) /\ outcome' = NoOutcome
      /\ cli' = [Idle EXCEPT !.pc = "scanned", !.cmd = "sync", !.seen = tree]
  BY DEF SyncScan, serverVars, treeVars, userVars
<1>2. cli' = [pc |-> "scanned", cmd |-> "sync", seen |-> tree, fetched |-> {}, req |-> 0,
              todo |-> <<>>, step |-> "start", moved |-> {}]
  BY <1>1 DEF Idle
<1>3. SeenOk(tree, Len(units), Len(edits)) /\ root = "tree"
  BY <1>1 DEF SyncInv, TreeInv, Readable, SeenOk
<1>4. CliOk'
  BY <1>2 DEF CliOk, SyncPhases, CompilePhases
<1>5. ReadOk' /\ LinkOk' /\ cli'.pc # "write"
  BY <1>1, <1>2, <1>3 DEF ReadOk, LinkOk, SyncPhases
<1>6. CliInv' /\ OutcomeOk'
  BY <1>1, <1>4, <1>5, NothingReported DEF CliInv
<1> QED BY <1>1, <1>6, GoesOn

\* compile has inspected its output.
LEMMA CompileScanInv ==
  ASSUME SyncInv, CompileScan
  PROVE  SyncInv'
<1>1. /\ UNCHANGED <<units, requests, commits, tree, root, edits, removed>> /\ outcome' = NoOutcome
      /\ root \in {"absent", "empty"} \/ Clean(tree)
      /\ cli' = [Idle EXCEPT !.pc = root, !.cmd = "compile", !.seen = tree]
  BY DEF CompileScan, serverVars, treeVars, userVars
<1>2. cli' = [pc |-> root, cmd |-> "compile", seen |-> tree, fetched |-> {}, req |-> 0,
              todo |-> <<>>, step |-> "start", moved |-> {}]
  BY <1>1 DEF Idle
<1>3. root \in {"absent", "empty", "tree"}
  BY <1>1 DEF Clean
<1>4. SeenOk(tree, Len(units), Len(edits)) /\ Untouched(tree)
  <2>1. Len(units) \in Nat /\ Len(units) <= MaxUnits /\ Len(edits) \in Nat /\ Files(tree, Len(units), Len(edits))
    BY DEF SyncInv, ServerInv, Table, TreeInv, SentEdits
  <2>2. CASE root # "tree"
    <3>1. \A p \in Paths : tree[p] = Missing
      BY <2>2 DEF SyncInv, TreeInv
    <3>2. Entries(tree) = {} /\ tree[Memory] = tree[Manifest] /\ \A i \in Ids : tree[UnitFile(i)] = Missing
      BY <3>1, Contents, PathsAre DEF Entries
    <3>3. EditsIn(tree) = {}
      BY <2>1, <3>1, Contents, EditsInTree DEF Files
    <3> QED BY <2>1, <3>2, <3>3 DEF SeenOk, Untouched, Changed
  <2>3. CASE Clean(tree)
    <3>1. tree = Rendered(Entries(tree)) /\ Entries(tree) \in SUBSET (1..Len(units))
      BY <2>1, <2>3, PathsAre DEF Clean, Files, FileOk, Entries
    <3> DEFINE S == Entries(tree)
    <3>2. SeenOk(Rendered(S), Len(units), Len(edits)) /\ Untouched(Rendered(S))
      <4> HIDE DEF S
      <4> QED BY <2>1, <3>1, RenderedOk DEF S
    <3> HIDE DEF S
    <3>3. tree = Rendered(S)
      BY <3>1 DEF S
    <3> QED BY <3>2, <3>3
  <2> QED BY <1>1, <2>2, <2>3
<1>5. CliOk'
  BY <1>2, <1>3 DEF CliOk, SyncPhases, CompilePhases
<1>6. ReadOk' /\ LinkOk' /\ cli'.pc # "write"
  BY <1>1, <1>2, <1>3, <1>4 DEF ReadOk, LinkOk, SyncPhases
<1>7. CliInv' /\ OutcomeOk'
  BY <1>1, <1>5, <1>6, NothingReported DEF CliInv
<1> QED BY <1>1, <1>7, GoesOn

\* A scan that is refused.
LEMMA RefusedInv ==
  ASSUME SyncInv, SyncUnreadable \/ CompileDirty
  PROVE  SyncInv'
<1>1. UNCHANGED <<units, requests, commits, tree, root, edits, removed, cli>>
      /\ outcome'.req = 0 /\ outcome'.result \in {"invalid", "dirty"}
  BY DEF SyncUnreadable, CompileDirty, serverVars, treeVars, userVars
<1>2. CliInv'
  BY <1>1, ServerRests, CommandWaits
<1> QED BY <1>1, <1>2, NothingReported, GoesOn

\* The base is what the tree was made from.
LEMMA SyncFetchInv ==
  ASSUME SyncInv, SyncFetch \/ SyncPlanOnly
  PROVE  SyncInv'
<1>1. UNCHANGED <<units, requests, commits, tree, root, edits, removed>> /\ cli.pc \in {"scanned", "planned"}
  BY DEF SyncFetch, SyncPlanOnly, serverVars, treeVars, userVars
<1>2. cli.req = 0
  BY <1>1, CliFields DEF CliOk
<1>3. CASE \E result \in {"unavailable", "conflict", "invalid", "plan", "noop"} : Finish(result)
  <2>1. PICK result \in {"unavailable", "conflict", "invalid", "plan", "noop"} : Finish(result)
    BY <1>3
  <2>2. Reports(result)
    BY <1>2, <2>1 DEF Reports
  <2> QED BY <1>1, <2>1, <2>2, EndsQuietly
<1>4. CASE /\ cli.pc = "scanned" /\ Projection(units) = Entries(cli.seen)
           /\ cli' = [cli EXCEPT !.pc = "planned", !.fetched = Projection(units)] /\ UNCHANGED outcome
  <2>1. cli' = [pc |-> "planned", cmd |-> cli.cmd, seen |-> cli.seen, fetched |-> Projection(units),
                req |-> cli.req, todo |-> cli.todo, step |-> cli.step, moved |-> cli.moved]
    BY <1>4, CliFields
  <2>2. CliOk'
    BY <1>4, <2>1, CliFields DEF CliOk, SyncPhases, CompilePhases
  <2>3. ReadOk' /\ LinkOk' /\ cli'.pc # "write"
    BY <1>1, <1>4, <2>1, CliFields DEF ReadOk, LinkOk, SyncPhases
  <2>4. CliInv' /\ OutcomeOk'
    BY <1>1, <1>4, <2>2, <2>3, OutcomeStays DEF CliInv
  <2> QED BY <1>1, <2>4, GoesOn
<1> QED BY <1>3, <1>4 DEF SyncFetch, SyncPlanOnly

\* The answer.
LEMMA SyncReplyInv ==
  ASSUME SyncInv, SyncReply
  PROVE  SyncInv'
<1> DEFINE r == cli.req
<1>1. UNCHANGED <<units, requests, commits, tree, root, edits, removed>> /\ cli.pc = "posted"
  BY DEF SyncReply, serverVars, treeVars, userVars
<1>2. r \in Requests /\ RequestShape(requests[r])
  BY <1>1, CliFields DEF CliOk, SyncInv, ServerInv, RequestOk
<1>3. CASE Finish("unknown")
  BY <1>1, <1>3, EndsQuietly DEF Reports
<1>4. CASE /\ requests[r].phase = "answered" /\ requests[r].reply = "ok"
           /\ cli' = [cli EXCEPT !.pc = "committed"] /\ UNCHANGED outcome
  <2>1. cli' = [pc |-> "committed", cmd |-> cli.cmd, seen |-> cli.seen, fetched |-> cli.fetched,
                req |-> cli.req, todo |-> cli.todo, step |-> cli.step, moved |-> cli.moved]
    BY <1>4, CliFields
  <2>2. CliOk'
    BY <1>1, <2>1, CliFields DEF CliOk, SyncPhases, CompilePhases
  <2>3. ReadOk' /\ LinkOk' /\ cli'.pc # "write"
    BY <1>1, <1>4, <2>1, CliFields DEF ReadOk, LinkOk, SyncPhases
  <2>4. CliInv' /\ OutcomeOk'
    BY <1>1, <1>4, <2>2, <2>3, OutcomeStays DEF CliInv
  <2> QED BY <1>1, <2>4, GoesOn
<1>5. CASE /\ requests[r].phase = "answered" /\ requests[r].reply \notin {"ok", "server_error"}
           /\ Finish(requests[r].reply)
  <2>1. requests[r].reply \in {"conflict", "invalid"}
    BY <1>2, <1>5 DEF RequestShape
  <2>2. Reports(requests[r].reply)
    BY <1>2, <1>5, <2>1 DEF Reports
  <2> QED BY <1>1, <1>5, <2>2, EndsQuietly
<1> QED BY <1>3, <1>4, <1>5 DEF SyncReply

\* A request is sent: its plan carries the edits of the tree, and its base is what the manifest names.
LEMMA PostInv ==
  ASSUME SyncInv, NEW r \in Requests, requests[r].phase = "none", cli.pc = "planned", tree = cli.seen,
         NEW q, q = [NoRequest EXCEPT !.phase = "sent", !.base = Entries(tree), !.ops = Operations(tree)],
         requests' = [requests EXCEPT ![r] = q], cli' = [cli EXCEPT !.pc = "posted", !.req = r],
         UNCHANGED <<units, commits, tree, root, edits, removed, outcome>>
  PROVE  SyncInv'
<1>1. /\ ServerInv /\ TreeInv /\ OutcomeOk /\ Superseded /\ CliOk /\ ReadOk
      /\ requests = [s \in Requests |-> requests[s]] /\ edits \in Seq(Bodies) /\ Len(edits) \in Nat
  BY CliFields DEF SyncInv, ServerInv, TreeInv, SentEdits
<1>2. SeenOk(tree, Len(units), Len(edits)) /\ cli.fetched = Entries(tree) /\ root = "tree"
  BY <1>1 DEF ReadOk, SyncPhases
<1>3. PlanSent(q) /\ EditsIn(tree) = EditsOf(q) /\ Changed(tree) = NamedBy(q)
  BY <1>1, <1>2, OperationsOf
<1>4. q = [phase |-> "sent", base |-> Entries(tree), ops |-> Operations(tree), seen |-> <<>>, peers |-> {}, reply |-> "none"]
  BY DEF NoRequest
<1>5. q.phase = "sent" /\ q.base = Entries(tree) /\ RequestShape(q) /\ q.phase \in Pending
  BY <1>4 DEF RequestShape, Pending
<1>6. Entries(tree) \subseteq DOMAIN units
  BY <1>1, <1>2, ChangedRows DEF ServerInv, Table
<1>7. RequestOk(q, units)
  BY <1>3, <1>5, <1>6 DEF RequestOk
<1>8. BaseIsOlder(q, commits)
  BY <1>1, <1>3, <1>5 DEF BaseIsOlder, TreeInv, TreeIsOlder
<1>9. /\ requests' = [s \in Requests |-> requests'[s]]
      /\ requests'[r] = q /\ \A s \in Requests : s # r => requests'[s] = requests[s]
  BY <1>1
<1>10. ServerInv'
  <2>1. \A s \in Requests : RequestOk(requests'[s], units) /\ BaseIsOlder(requests'[s], commits)
    BY <1>1, <1>7, <1>8, <1>9 DEF ServerInv
  <2>2. ASSUME NEW c \in commits PROVE WasAnswered(c, requests')
    <3>1. WasAnswered(c, requests)
      BY <1>1 DEF ServerInv
    <3>2. c.req # r
      BY <3>1 DEF WasAnswered
    <3> QED BY <1>9, <3>1, <3>2 DEF WasAnswered
  <2> QED BY <1>1, <1>9, <2>1, <2>2 DEF ServerInv
<1>11. TreeInv'
  <2>1. \A e \in EditsIn(tree) : e <= Len(edits)
    BY <1>2, EditsInTree DEF SeenOk, Files, FileOk
  <2>2. ASSUME NEW e \in Int, e > Len(edits) PROVE Fresh(e, commits, requests')
    <3>1. Fresh(e, commits, requests)
      BY <1>1, <2>2 DEF TreeInv, SentEdits
    <3>2. e \notin EditsOf(q)
      BY <1>1, <1>3, <2>1, <2>2
    <3> QED BY <1>9, <3>1, <3>2 DEF Fresh
  <2>3. SentEdits'
    BY <1>1, <2>2 DEF SentEdits
  <2> QED BY <1>1, <2>3 DEF TreeInv, Intended, TreeIsOlder, EditsIn, Entries
<1>12. cli' = [pc |-> "posted", cmd |-> cli.cmd, seen |-> cli.seen, fetched |-> cli.fetched,
               req |-> r, todo |-> cli.todo, step |-> cli.step, moved |-> cli.moved]
  BY CliFields
<1>13. CliOk'
  BY <1>1, <1>12 DEF CliOk, SyncPhases, CompilePhases
<1>14. ReadOk' /\ cli'.pc # "write"
  BY <1>1, <1>12 DEF ReadOk, SyncPhases
<1>15. LinkOk'
  <2>1. cli'.pc = "posted" /\ cli'.req = r /\ cli'.seen = tree
    BY <1>12
  <2>2. q.phase # "answered" /\ q.phase # "none"
    BY <1>5
  <2>3. requests'[cli'.req] = q
    BY <1>9, <2>1
  <2> QED BY ONLY <1>3, <2>1, <2>2, <2>3 DEF LinkOk
<1>16. OutcomeOk'
  <2>1. ASSUME outcome.req # 0, outcome.result \in {"conflict", "invalid"}
        PROVE  /\ outcome.req \in Requests /\ requests'[outcome.req].phase = "answered"
               /\ requests'[outcome.req].reply \in {"conflict", "invalid"}
    <3>1. outcome.req \in Requests /\ requests[outcome.req].phase = "answered"
          /\ requests[outcome.req].reply \in {"conflict", "invalid"}
      BY <1>1, <2>1 DEF OutcomeOk
    <3> QED BY <1>9, <3>1
  <2> QED BY <1>1, <2>1 DEF OutcomeOk
<1>17. Superseded'
  BY <1>1 DEF Superseded
<1> QED BY <1>10, <1>11, <1>13, <1>14, <1>15, <1>16, <1>17 DEF SyncInv, CliInv

\* sync posts its plan, or finds that the tree has changed.
LEMMA SyncPostInv ==
  ASSUME SyncInv, SyncPost
  PROVE  SyncInv'
<1>1. UNCHANGED <<units, commits, tree, root, edits, removed>> /\ cli.pc = "planned"
  BY DEF SyncPost, serverVars, treeVars, userVars
<1>2. CASE Finish("invalid") /\ UNCHANGED requests
  <2>1. cli.req = 0
    BY <1>1, CliFields DEF CliOk
  <2> QED BY <1>1, <1>2, <2>1, EndsQuietly DEF Reports
<1>3. CASE /\ Unchanged(cli.seen) /\ Unsent # {} /\ UNCHANGED outcome
           /\ requests' = [requests EXCEPT ![Min(Unsent)] =
                [NoRequest EXCEPT !.phase = "sent", !.base = cli.fetched, !.ops = Operations(cli.seen)]]
           /\ cli' = [cli EXCEPT !.pc = "posted", !.req = Min(Unsent)]
  <2> DEFINE r == Min(Unsent)
             q == [NoRequest EXCEPT !.phase = "sent", !.base = Entries(tree), !.ops = Operations(tree)]
  <2>1. Unsent \in SUBSET Nat
    BY RequestsAreNumbered DEF Unsent
  <2>2. r \in Unsent
    BY <1>3, <2>1, LeastOf
  <2>3. r \in Requests /\ requests[r].phase = "none"
    BY <2>2 DEF Unsent
  <2>4. tree = cli.seen /\ cli.fetched = Entries(tree)
    BY <1>1, <1>3, CliFields DEF Unchanged, ReadOk
  <2>5. requests' = [requests EXCEPT ![r] = q] /\ cli' = [cli EXCEPT !.pc = "posted", !.req = r]
    BY <1>3, <2>4
  <2> HIDE DEF r, q
  <2>6. q = [NoRequest EXCEPT !.phase = "sent", !.base = Entries(tree), !.ops = Operations(tree)]
    BY DEF q
  <2> QED BY <1>1, <1>3, <2>3, <2>4, <2>5, <2>6, PostInv
<1> QED BY <1>2, <1>3 DEF SyncPost

-----------------------------------------------------------------------------
(***************************************************************************)
(* Writing a projection.                                                   *)
(***************************************************************************)

\* A command starts to write over a tree that is as it was read.
LEMMA WriteStarts ==
  ASSUME SyncInv, cli.pc \in {"committed", "empty", "tree"}, tree = cli.seen,
         NEW S, S = Projection(units), \A i \in Changed(tree) : i \notin S,
         cli' = [cli EXCEPT !.pc = "write", !.fetched = S, !.todo = WriteTasks(cli.seen, S)],
         UNCHANGED <<units, requests, commits, tree, edits, removed>>, root' = "tree"
  PROVE  CliInv'
<1>1. /\ ServerInv /\ TreeInv /\ CliOk /\ ReadOk /\ LinkOk
  BY CliFields DEF SyncInv
<1>2. /\ SeenOk(tree, Len(units), Len(edits)) /\ (cli.cmd = "compile" => Untouched(tree))
      /\ cli.step = "start" /\ cli.moved = {}
  BY <1>1 DEF CliOk, ReadOk
<1>3. cli' = [pc |-> "write", cmd |-> cli.cmd, seen |-> tree, fetched |-> S,
              req |-> cli.req, todo |-> WriteTasks(tree, S), step |-> "start", moved |-> {}]
  BY <1>2, CliFields
<1>4. /\ S \subseteq DOMAIN units /\ Entries(tree) \subseteq DOMAIN units /\ DOMAIN units \subseteq Ids
  <2>1. DOMAIN units = 1..Len(units) /\ Len(units) \in Nat /\ Len(units) <= MaxUnits
    BY <1>1 DEF ServerInv, Table
  <2>2. Entries(tree) \subseteq 1..Len(units)
    BY <1>2, ChangedRows
  <2> QED BY <2>1, <2>2, SeedsAreUnits DEF Projection, Ids
<1>5. Queue(WriteTasks(tree, S), tree, S) /\ \A w \in Works(tree, S) : Left(WriteTasks(tree, S), w)
  BY <1>4, QueueStart
<1>6. CliOk'
  BY <1>1, <1>3 DEF CliOk, SyncPhases, CompilePhases
<1>7. ReadOk'
  BY <1>1, <1>2, <1>3, <1>4 DEF ReadOk, SyncPhases
<1>8. LinkOk'
  <2>1. cli.cmd = "sync" => cli.pc = "committed"
    BY <1>1 DEF CliOk, CompilePhases
  <2> QED BY <1>1, <1>3, <2>1 DEF LinkOk
<1>9. Writing'
  <2> DEFINE todo == WriteTasks(tree, S)
  <2> HIDE DEF todo
  <2>1. cli'.seen = tree /\ cli'.fetched = S /\ cli'.todo = todo /\ cli'.step = "start" /\ cli'.moved = {}
    BY ONLY <1>3 DEF todo
  <2>2. Queue(todo, tree, S) /\ \A w \in Works(tree, S) : Left(todo, w)
    BY <1>5 DEF todo
  <2>3. StepOk'
    BY <2>1 DEF StepOk
  <2>4. Rewrites(PutManifest, Manifest)' /\ Rewrites(PutMemory, Memory)'
    <3>1. Left(todo, PutManifest) /\ Left(todo, PutMemory)
      BY <2>2, WorkIs
    <3> QED BY <2>1, <3>1 DEF Rewrites, Detached
  <2>5. PutsAreKept'
    <3>1. \A i \in S : Left(todo, PutUnit(i))
      BY <2>2, WorkIs
    <3> QED BY <2>1, <3>1 DEF PutsAreKept
  <2>6. DropsComeLate'
    <3>1. \A i \in Entries(tree) : tree[Manifest] # Missing
      BY Contents DEF Entries
    <3>2. tree[Memory] = tree[Manifest]
      BY <1>2 DEF SeenOk
    <3>3. \A i \in Entries(tree) : tree[UnitFile(i)] = Missing => i \in removed
      BY <1>1, <3>1, <3>2 DEF TreeInv, Intended
    <3> QED BY <2>1, <3>3 DEF DropsComeLate, Entries
  <2>7. OldEditsGo'
    <3>1. ASSUME NEW p \in Paths, IsEdit(tree[p]) PROVE \E n \in DOMAIN todo : todo[n].path = p
      <4>1. CASE p = Manifest \/ p = Memory
        BY <1>2, <3>1, <4>1, PathsAre DEF SeenOk, Files, FileOk
      <4>2. CASE \E i \in Ids : p = UnitFile(i)
        <5>1. PICK i \in Ids : p = UnitFile(i)
          BY <4>2
        <5>2. i \in Entries(tree) /\ Drifted(tree, i)
          BY <1>2, <3>1, <5>1, Contents DEF SeenOk, Drifted
        <5>3. i \in Entries(tree) \ S
          BY <5>2 DEF Changed
        <5>4. Left(todo, DropUnit(i))
          BY <2>2, <5>3, WorkIs
        <5> QED BY <5>1, <5>4, Ranks DEF Left
      <4>3. CASE \E k \in Keys : p = InboxFile(k)
        <5>1. PICK k \in Keys : p = InboxFile(k)
          BY <4>3
        <5>2. k \in InboxKeys(tree)
          BY <3>1, <5>1, Contents DEF InboxKeys
        <5>3. Left(todo, TakeInbox(k))
          BY <2>2, <5>2, WorkIs
        <5> QED BY <5>1, <5>3, Ranks DEF Left
      <4> QED BY <4>1, <4>2, <4>3, PathsAre
    <3> QED BY <2>1, <3>1 DEF OldEditsGo
  <2> QED BY <2>1, <2>2, <2>3, <2>4, <2>5, <2>6, <2>7 DEF Writing, Changed, Entries, Drifted
<1> QED BY <1>6, <1>7, <1>8, <1>9 DEF CliInv

\* sync fetches the projection behind its commit and starts to write.
LEMMA SyncRefetchInv ==
  ASSUME SyncInv, SyncRefetch
  PROVE  SyncInv'
<1>1. UNCHANGED <<units, requests, commits, tree, root, edits, removed>> /\ cli.pc = "committed"
  BY DEF SyncRefetch, serverVars, treeVars, userVars
<1>2. TookEffect(cli.req, cli.seen, units, commits) /\ root = "tree"
  BY <1>1, CliFields DEF LinkOk, ReadOk, SyncPhases
<1>3. CASE Finish("postcommit")
  BY <1>1, <1>2, <1>3, EndsQuietly DEF Reports, TookEffect
<1>4. CASE /\ tree = cli.seen /\ UNCHANGED outcome
           /\ cli' = [cli EXCEPT !.pc = "write", !.fetched = Projection(units),
                        !.todo = WriteTasks(cli.seen, Projection(units))]
  <2>1. \A i \in Changed(tree) : i \notin Projection(units)
    BY <1>2, <1>4 DEF TookEffect, Projection
  <2>2. CliInv' /\ OutcomeOk'
    BY <1>1, <1>2, <1>4, <2>1, WriteStarts, OutcomeStays
  <2> QED BY <1>1, <2>2, GoesOn
<1> QED BY <1>3, <1>4 DEF SyncRefetch, Unchanged

\* compile fetches the projection and starts to write in place.
LEMMA CompileFetchInv ==
  ASSUME SyncInv, CompileFetch
  PROVE  SyncInv'
<1>1. UNCHANGED <<units, requests, commits, tree, edits, removed>> /\ cli.pc \in {"empty", "tree"} /\ cli.cmd = "compile"
  BY DEF CompileFetch, serverVars, treeVars, userVars
<1>2. cli.req = 0
  BY <1>1, CliFields DEF CliOk
<1>3. CASE \E result \in {"error", "dirty"} : Finish(result) /\ UNCHANGED root
  <2>1. PICK result \in {"error", "dirty"} : Finish(result) /\ UNCHANGED root
    BY <1>3
  <2>2. Reports(result)
    BY <1>2, <2>1 DEF Reports
  <2> QED BY <1>1, <2>1, <2>2, EndsQuietly
<1>4. CASE /\ tree = cli.seen /\ UNCHANGED outcome /\ root' = "tree"
           /\ cli' = [cli EXCEPT !.pc = "write", !.fetched = Projection(units),
                        !.todo = WriteTasks(cli.seen, Projection(units))]
  <2>1. \A i \in Changed(tree) : i \notin Projection(units)
    BY <1>1, <1>4, CliFields DEF ReadOk, Untouched
  <2>2. CliInv' /\ OutcomeOk'
    BY <1>1, <1>4, <2>1, WriteStarts, OutcomeStays
  <2> QED BY <1>1, <1>4, <2>2, GoesOn
<1> QED BY <1>3, <1>4 DEF CompileFetch, Unchanged

\* compile fetches the projection into a staging directory.
LEMMA CompileStageInv ==
  ASSUME SyncInv, CompileStage
  PROVE  SyncInv'
<1>1. UNCHANGED <<units, requests, commits, tree, root, edits, removed>> /\ cli.pc = "absent"
  BY DEF CompileStage, serverVars, treeVars, userVars
<1>2. CASE Finish("error")
  BY <1>1, <1>2, EndsQuietly DEF Reports
<1>3. CASE cli' = [cli EXCEPT !.pc = "staged", !.fetched = Projection(units)] /\ UNCHANGED outcome
  <2>1. cli' = [pc |-> "staged", cmd |-> cli.cmd, seen |-> cli.seen, fetched |-> Projection(units),
                req |-> cli.req, todo |-> cli.todo, step |-> cli.step, moved |-> cli.moved]
    BY <1>3, CliFields
  <2>2. CliOk'
    BY <1>1, <2>1, CliFields DEF CliOk, SyncPhases, CompilePhases
  <2>3. ReadOk' /\ LinkOk' /\ cli'.pc # "write"
    BY <1>1, <2>1, CliFields DEF ReadOk, LinkOk, SyncPhases, Projection
  <2>4. CliInv' /\ OutcomeOk'
    BY <1>1, <1>3, <2>2, <2>3, OutcomeStays DEF CliInv
  <2> QED BY <1>1, <2>4, GoesOn
<1> QED BY <1>2, <1>3 DEF CompileStage

\* The command dies.
LEMMA CrashInv ==
  ASSUME SyncInv, Crash
  PROVE  SyncInv'
<1>1. UNCHANGED <<units, requests, commits, tree, root, edits, removed>> /\ Finish("crashed")
  BY DEF Crash, serverVars, userVars
<1> QED BY <1>1, EndsQuietly DEF Reports

\* The index and the manifest of a tree that is being written agree only before the index is
\* rewritten and after the manifest is, or when nothing changes.
LEMMA AgreeingTree ==
  ASSUME NEW t, NEW gone, NEW todo, NEW seen, NEW S,
         todo # <<>> => Left(todo, PutManifest), ~IsEdit(t[Manifest]),
         t[Manifest] = Missing \/ t[Manifest] = IF Left(todo, PutManifest) THEN seen[Manifest] ELSE Gen(S),
         \/ IsEdit(t[Memory]) \/ t[Memory] = Missing
         \/ t[Memory] = IF Left(todo, PutMemory) THEN seen[Memory] ELSE Gen(S),
         \A i \in S : ~Left(todo, PutUnit(i)) /\ t[UnitFile(i)] = Missing => i \in gone,
         \A i \in Entries(seen) : t[UnitFile(i)] = Missing => i \in gone \/ (i \notin S /\ ~Left(todo, PutMemory)),
         t[Manifest] # Missing, t[Memory] = t[Manifest],
         NEW i \in Entries(t), t[UnitFile(i)] = Missing
  PROVE  i \in gone
<1>1. CASE ~Left(todo, PutManifest)
  <2>1. i \in S
    BY <1>1, Contents DEF Entries
  <2>2. todo = <<>>
    BY <1>1
  <2>3. ~Left(todo, PutUnit(i))
    BY <2>2 DEF Left
  <2> QED BY <2>1, <2>3
<1>2. CASE Left(todo, PutManifest)
  <2>1. i \in Entries(seen)
    BY <1>2 DEF Entries
  <2>2. CASE i \notin S /\ ~Left(todo, PutMemory)
    <3>1. t[Memory] = Gen(S)
      BY <2>2
    <3>2. i \in S
      BY <3>1, Contents DEF Entries
    <3> QED BY <2>2, <3>2
  <2> QED BY <2>1, <2>2
<1> QED BY <1>1, <1>2

\* What is known of a command that writes.
LEMMA WritingFacts ==
  ASSUME SyncInv, cli.pc = "write"
  PROVE  /\ Writing /\ ServerInv /\ TreeInv /\ Files(tree, Len(units), Len(edits))
         /\ tree = [p \in Paths |-> tree[p]] /\ ~IsEdit(tree[Manifest]) /\ Len(edits) \in Nat
         /\ SeenOk(cli.seen, Len(units), Len(edits)) /\ cli.fetched \subseteq DOMAIN units
         /\ cli.fetched \subseteq Ids /\ Entries(cli.seen) \subseteq Ids /\ root = "tree"
         /\ cli.fetched \subseteq 1..Len(units)
<1>1. Writing /\ ServerInv /\ TreeInv /\ ReadOk
  BY DEF SyncInv, CliInv
<1>2. /\ Len(units) \in Nat /\ DOMAIN units = 1..Len(units) /\ Len(units) <= MaxUnits
  BY <1>1 DEF ServerInv, Table
<1>3. DOMAIN units \subseteq Ids
  BY <1>2, SeedsAreUnits DEF Ids
<1>4. SeenOk(cli.seen, Len(units), Len(edits)) /\ cli.fetched \subseteq DOMAIN units /\ root = "tree"
  BY <1>1 DEF ReadOk
<1>5. Entries(cli.seen) \subseteq DOMAIN units
  BY <1>2, <1>4, ChangedRows
<1>6. Files(tree, Len(units), Len(edits)) /\ Len(edits) \in Nat
  BY <1>1 DEF TreeInv, SentEdits
<1>7. tree = [p \in Paths |-> tree[p]] /\ ~IsEdit(tree[Manifest])
  BY <1>6, PathsAre DEF Files, FileOk
<1> QED BY <1>1, <1>2, <1>3, <1>4, <1>5, <1>6, <1>7

\* The first task is one of the work, and the rest comes after it.
LEMMA FirstTask ==
  ASSUME SyncInv, cli.pc = "write", cli.todo # <<>>
  PROVE  /\ Task \in Works(cli.seen, cli.fetched) /\ Task.path \in Paths /\ Left(cli.todo, Task)
         /\ \A w : Left(cli.todo, w) => w \in Works(cli.seen, cli.fetched) /\ Rank(Task) <= Rank(w)
<1>1. Queue(cli.todo, cli.seen, cli.fetched) /\ cli.fetched \subseteq Ids /\ Entries(cli.seen) \subseteq Ids
  BY WritingFacts DEF Writing
<1>2. /\ Task \in Works(cli.seen, cli.fetched)
      /\ \A w : Left(cli.todo, w) => w \in Works(cli.seen, cli.fetched) /\ Rank(Task) <= Rank(w)
  BY <1>1, QueueTail DEF Task
<1>3. Task.path \in Paths
  <2>1. \A k \in InboxKeys(cli.seen) : k \in Keys
    BY DEF InboxKeys
  <2> QED BY <1>1, <1>2, <2>1, WorkIs, Ranks, PathsAre
<1>4. Left(cli.todo, Task)
  <2>1. 1 \in DOMAIN cli.todo
    BY <1>1 DEF Queue
  <2> QED BY <2>1 DEF Left, Task
<1> QED BY <1>2, <1>3, <1>4

\* What a task writes.
LEMMA TargetIs ==
  ASSUME SyncInv, cli.pc = "write", cli.todo # <<>>, Task.act = "put"
  PROVE  /\ ~IsEdit(Target) /\ FileOk(Task.path, Target, Len(units), Len(edits))
         /\ Task.path \in {Memory, Manifest} => Target = Gen(cli.fetched)
         /\ \A i \in Ids : Task.path = UnitFile(i) => i \in cli.fetched /\ Task = PutUnit(i) /\ Target = Gen({i})
<1> DEFINE S == cli.fetched
           p == Task.path
<1>1. Task \in Works(cli.seen, S) /\ S \subseteq Ids /\ S \subseteq 1..Len(units) /\ Len(edits) \in Nat /\ p \in Paths
  BY FirstTask, WritingFacts
<1>2. Task = PutMemory \/ Task = PutManifest \/ \E i \in S : Task = PutUnit(i)
  BY <1>1, WorkIs, Ranks
<1>3. Target = Rendered(S)[p]
  BY DEF Target
<1>4. p \in {Memory, Manifest} => Target = Gen(S)
  BY <1>3, RenderedAt
<1>5. ASSUME NEW i \in Ids, p = UnitFile(i) PROVE i \in S /\ Task = PutUnit(i) /\ Target = Gen({i})
  <2>1. i \in S /\ Task = PutUnit(i)
    BY <1>2, <1>5, Ranks, PathsApart
  <2> QED BY <1>3, <1>5, <2>1, RenderedAt
<1>6. ~IsEdit(Target) /\ Target.edit \in {0, -1}
  BY <1>1, <1>3, RenderedAt
<1>7. FileOk(p, Target, Len(units), Len(edits))
  <2>1. p = Manifest => Target.of \subseteq 1..Len(units)
    BY <1>1, <1>4, Contents
  <2>2. \A k \in Keys : p # InboxFile(k)
    BY <1>2, Ranks, PathsApart
  <2>3. Target.edit \in Int /\ Target.edit <= Len(edits)
    BY <1>1, <1>6
  <2> QED BY <1>6, <2>1, <2>2, <2>3 DEF FileOk
<1> QED BY <1>4, <1>5, <1>6, <1>7

\* A command that writes reports a failure behind the commit, which happened.
LEMMA WriteFailsInv ==
  ASSUME SyncInv, cli.pc = "write", WriteFails, UNCHANGED <<units, requests, commits>>, TreeInv'
  PROVE  SyncInv'
<1>1. Finish(WriteFailure)
  BY DEF WriteFails
<1>2. cli.cmd = "sync" => \E c \in commits : c.req = cli.req
  BY CliFields DEF LinkOk, TookEffect
<1>3. Reports(WriteFailure)
  BY <1>2 DEF Reports, WriteFailure
<1> QED BY <1>1, <1>3, Ends

\* A write that fails before it has moved anything.
LEMMA WriteFailsQuietly ==
  ASSUME SyncInv, cli.pc = "write", WriteFails, UNCHANGED <<units, requests, commits, tree, root, edits, removed>>
  PROVE  SyncInv'
<1>1. TreeInv'
  BY ServerRests, TreeKept DEF SyncInv
<1> QED BY <1>1, WriteFailsInv

\* A tree with one file less edited is no younger.
LEMMA FewerEdits ==
  ASSUME TreeInv, tree = [p \in Paths |-> tree[p]], tree' = [p \in Paths |-> tree'[p]], commits' = commits,
         NEW path, \A p \in Paths : p # path => tree'[p] = tree[p], ~IsEdit(tree'[path]),
         Entries(tree') \subseteq Entries(tree)
  PROVE  TreeIsOlder'
<1>1. EditsIn(tree') \subseteq EditsIn(tree)
  <2> SUFFICES ASSUME NEW e \in EditsIn(tree') PROVE e \in EditsIn(tree)
    OBVIOUS
  <2>1. PICK p \in Paths : IsEdit(tree'[p]) /\ tree'[p].edit = e
    BY EditsInTree
  <2>2. tree'[p] = tree[p]
    BY <2>1
  <2> QED BY <2>1, <2>2, EditsInTree
<1>2. \A c \in commits : EditsIn(tree') \cap c.edits # {} => Precedes(Entries(tree'), c)
  BY <1>1 DEF TreeInv, TreeIsOlder, Precedes
<1> QED BY <1>2 DEF TreeIsOlder

\* A staged projection takes the name: nobody can have edited it yet.
LEMMA CompileInstallInv ==
  ASSUME SyncInv, CompileInstall
  PROVE  SyncInv'
<1>1. UNCHANGED <<units, requests, commits, edits, removed>> /\ cli.pc = "staged"
  BY DEF CompileInstall, serverVars, userVars
<1>2. /\ ServerInv /\ TreeInv /\ CliOk /\ ReadOk /\ Len(edits) \in Nat /\ edits \in Seq(Bodies)
  BY CliFields DEF SyncInv, TreeInv, SentEdits
<1>3. /\ cli.cmd = "compile" /\ cli.req = 0 /\ cli.todo = <<>> /\ cli.step = "start" /\ cli.moved = {}
  BY <1>1, <1>2 DEF CliOk, CompilePhases
<1>4. CASE Finish("error") /\ UNCHANGED <<root, tree>>
  BY <1>1, <1>4, EndsQuietly DEF Reports
<1>5. CASE /\ root' = "tree" /\ tree' = Rendered(cli.fetched)
           /\ cli' = [cli EXCEPT !.pc = "write"] /\ UNCHANGED outcome
  <2> DEFINE S == cli.fetched
             t == Rendered(S)
  <2>1. /\ SeenOk(cli.seen, Len(units), Len(edits)) /\ Untouched(cli.seen) /\ S \subseteq DOMAIN units
    BY <1>1, <1>2, <1>3 DEF ReadOk
  <2>2. /\ DOMAIN units = 1..Len(units) /\ Len(units) \in Nat /\ Len(units) <= MaxUnits
    BY <1>2 DEF ServerInv, Table
  <2>3. S \in SUBSET (1..Len(units)) /\ S \subseteq Ids /\ Entries(cli.seen) \subseteq Ids
    <3>1. Entries(cli.seen) \subseteq 1..Len(units)
      BY <2>1, ChangedRows
    <3> QED BY <2>1, <2>2, <3>1, SeedsAreUnits DEF Ids
  <2>4. SeenOk(t, Len(units), Len(edits)) /\ Untouched(t) /\ Entries(t) = S
    BY <1>2, <2>2, <2>3, RenderedOk
  <2>5. /\ t[Memory] = Gen(S) /\ t[Manifest] = Gen(S) /\ \A p \in Paths : ~IsEdit(t[p])
        /\ \A i \in Ids : t[UnitFile(i)] = IF i \in S THEN Gen({i}) ELSE Missing
    BY RenderedAt
  <2>6. tree' = t
    BY <1>5
  <2> HIDE DEF t
  <2>7. TreeInv'
    <3>1. Intended'
      <4>1. \A i \in Entries(t) : t[UnitFile(i)] # Missing
        <5>1. ASSUME NEW i \in S PROVE t[UnitFile(i)] # Missing
          <6>1. i \in Ids
            BY <2>3
          <6>2. t[UnitFile(i)] = Gen({i})
            BY <2>5, <6>1
          <6> QED BY <6>2, Contents
        <5> QED BY <2>4, <5>1
      <4> QED BY <2>6, <4>1 DEF Intended
    <3>2. TreeIsOlder'
      BY <2>4, <2>6 DEF TreeIsOlder, Untouched
    <3>3. SentEdits'
      BY <1>1, <1>2 DEF TreeInv, SentEdits
    <3> QED BY <1>1, <1>5, <2>4, <2>6, <3>1, <3>2, <3>3 DEF TreeInv, SeenOk
  <2>8. cli' = [pc |-> "write", cmd |-> "compile", seen |-> cli.seen, fetched |-> S,
                req |-> 0, todo |-> <<>>, step |-> "start", moved |-> {}]
    BY <1>3, <1>5, CliFields
  <2>9. CliOk'
    BY <2>8 DEF CliOk, SyncPhases, CompilePhases
  <2>10. ReadOk' /\ LinkOk'
    BY <1>1, <1>5, <2>1, <2>8 DEF ReadOk, LinkOk, SyncPhases
  <2>11. Writing'
    <3>1. \A w : ~Left(<<>>, w)
      BY DEF Left
    <3>2. /\ cli'.todo = <<>> /\ cli'.seen = cli.seen /\ cli'.fetched = S /\ cli'.moved = {}
      BY <2>8
    <3>3. Queue(<<>>, cli.seen, S)
      BY DEF Queue
    <3>4. Rewrites(PutManifest, Manifest)' /\ Rewrites(PutMemory, Memory)'
      BY <2>5, <2>6, <3>1, <3>2 DEF Rewrites
    <3>5. PutsAreKept'
      BY <2>3, <2>5, <2>6, <3>2, Contents DEF PutsAreKept
    <3>6. DropsComeLate'
      BY <2>3, <2>5, <2>6, <3>1, <3>2, Contents DEF DropsComeLate
    <3>7. OldEditsGo'
      BY <2>5, <2>6 DEF OldEditsGo
    <3>8. StepOk'
      BY <3>2 DEF StepOk
    <3>9. Changed(cli.seen) = {}
      BY <2>1 DEF Untouched
    <3> QED BY <3>2, <3>3, <3>4, <3>5, <3>6, <3>7, <3>8, <3>9 DEF Writing
  <2>12. OutcomeOk'
    BY <1>1, <1>5, OutcomeStays
  <2>13. ServerInv' /\ Superseded'
    BY <1>1, ServerRests
  <2> QED BY <2>7, <2>9, <2>10, <2>11, <2>12, <2>13 DEF SyncInv, CliInv
<1> QED BY <1>4, <1>5 DEF CompileInstall

\* A command that writes goes on.
LEMMA WritesOn ==
  ASSUME SyncInv, cli.pc = "write", NEW todo, NEW step, NEW moved,
         cli' = [pc |-> "write", cmd |-> cli.cmd, seen |-> cli.seen, fetched |-> cli.fetched,
                 req |-> cli.req, todo |-> todo, step |-> step, moved |-> moved],
         UNCHANGED <<units, requests, commits, edits, root, outcome>>, TreeInv', Writing'
  PROVE  SyncInv'
<1>1. CliOk /\ ReadOk /\ LinkOk
  BY CliFields
<1>2. CliOk'
  BY <1>1 DEF CliOk, SyncPhases, CompilePhases
<1>3. ReadOk' /\ LinkOk'
  BY <1>1 DEF ReadOk, LinkOk, SyncPhases
<1>4. OutcomeOk' /\ ServerInv' /\ Superseded'
  BY OutcomeStays, ServerRests
<1> QED BY <1>2, <1>3, <1>4 DEF SyncInv, CliInv

\* What is left when the first task is done.
LEMMA TaskGoes ==
  ASSUME SyncInv, cli.pc = "write", cli.todo # <<>>
  PROVE  /\ Queue(Tail(cli.todo), cli.seen, cli.fetched)
         /\ \A w : Left(Tail(cli.todo), w) <=> Left(cli.todo, w) /\ w # Task
         /\ \A w \in Works(cli.seen, cli.fetched) : w.path = Task.path => w = Task
<1>1. Queue(cli.todo, cli.seen, cli.fetched)
  BY WritingFacts DEF Writing
<1>2. /\ Queue(Tail(cli.todo), cli.seen, cli.fetched)
      /\ \A w : Left(Tail(cli.todo), w) <=> Left(cli.todo, w) /\ w # Task
  BY <1>1, QueueTail DEF Task
<1>3. Task \in Works(cli.seen, cli.fetched)
  BY FirstTask
<1> QED BY <1>2, <1>3, SamePath

\* A file is as it is generated, or confirmed to be gone, and its task is done.
LEMMA DoneWrites ==
  ASSUME SyncInv, cli.pc = "write", cli.todo # <<>>, TaskDone,
         tree' = [p \in Paths |-> tree'[p]], \A p \in Paths : p # Task.path => tree'[p] = tree[p],
         tree'[Task.path] = IF Task.act = "put" THEN Target ELSE Missing,
         Task.act # "put" => tree[Task.path] = Missing, UNCHANGED removed
  PROVE  /\ \A p \in Paths : IsEdit(tree'[p]) => p # Task.path /\ tree'[p] = tree[p]
         /\ Rewrites(PutManifest, Manifest)' /\ (IsEdit(tree'[Memory]) \/ Rewrites(PutMemory, Memory)')
         /\ PutsAreKept' /\ DropsComeLate'
<1> DEFINE S == cli.fetched
           path == Task.path
<1>1. /\ Task \in Works(cli.seen, S) /\ path \in Paths /\ Left(cli.todo, Task)
      /\ \A w : Left(Tail(cli.todo), w) <=> Left(cli.todo, w) /\ w # Task
      /\ \A w \in Works(cli.seen, S) : w.path = path => w = Task
  BY FirstTask, TaskGoes
<1>2. /\ cli'.todo = Tail(cli.todo) /\ cli'.step = "start" /\ cli'.seen = cli.seen /\ cli'.fetched = S
  BY CliFields DEF TaskDone
<1>3. Writing /\ S \subseteq Ids /\ Entries(cli.seen) \subseteq Ids
  BY WritingFacts
<1>4. ASSUME Task.act = "put"
      PROVE  /\ ~IsEdit(Target) /\ (path \in {Memory, Manifest} => Target = Gen(S))
             /\ \A i \in Ids : path = UnitFile(i) => Target # Missing
  BY <1>4, TargetIs, Contents
<1>5. ~IsEdit(tree'[path])
  BY <1>4, Contents
<1>6. \A p \in Paths : IsEdit(tree'[p]) => p # path /\ tree'[p] = tree[p]
  BY <1>5
<1>7. \A i \in Ids : UnitFile(i) = path /\ tree'[UnitFile(i)] = Missing => Task.act # "put" /\ tree[UnitFile(i)] = Missing
  BY <1>4
<1>8. \A i \in Ids : PutUnit(i) = Task => UnitFile(i) = path /\ Task.act = "put"
  BY Ranks
<1>9. PutsAreKept'
  <2> SUFFICES ASSUME NEW i \in S, ~Left(Tail(cli.todo), PutUnit(i)), tree'[UnitFile(i)] = Missing PROVE i \in removed
    BY <1>2 DEF PutsAreKept
  <2>1. PutUnit(i) # Task
    BY <1>3, <1>7, <1>8
  <2>2. PutUnit(i) \in Works(cli.seen, S) /\ PutUnit(i).path = UnitFile(i) /\ UnitFile(i) \in Paths
    BY <1>3, WorkIs, Ranks, PathsAre
  <2>3. UnitFile(i) # path
    BY <1>1, <2>1, <2>2
  <2>4. tree[UnitFile(i)] = Missing /\ ~Left(cli.todo, PutUnit(i))
    BY <1>1, <2>1, <2>2, <2>3
  <2> QED BY <1>3, <2>4 DEF Writing, PutsAreKept
<1>10. DropsComeLate'
  <2> SUFFICES ASSUME NEW i \in Entries(cli.seen), tree'[UnitFile(i)] = Missing
               PROVE  i \in removed \/ (i \notin S /\ ~Left(Tail(cli.todo), PutMemory))
    BY <1>2 DEF DropsComeLate
  <2>1. tree[UnitFile(i)] = Missing
    BY <1>3, <1>7, PathsAre
  <2>2. i \in removed \/ (i \notin S /\ ~Left(cli.todo, PutMemory))
    BY <1>3, <2>1 DEF Writing, DropsComeLate
  <2> QED BY <1>1, <2>2
<1>11. ASSUME NEW w \in {PutMemory, PutManifest}
       PROVE  /\ Rewrites(w, w.path) => Rewrites(w, w.path)'
              /\ IsEdit(tree[w.path]) => IsEdit(tree'[w.path]) \/ Rewrites(w, w.path)'
  <2>1. w \in Works(cli.seen, S) /\ w.act = "put" /\ w.path \in {Memory, Manifest} /\ w.path \in Paths
    BY WorkIs, Ranks, PathsAre
  <2>2. CASE w = Task
    <3>1. ~Left(Tail(cli.todo), w) /\ tree'[w.path] = Gen(S)
      BY <1>1, <1>4, <2>1, <2>2
    <3> QED BY <1>2, <3>1 DEF Rewrites
  <2>3. CASE w # Task
    <3>1. w.path # path /\ tree'[w.path] = tree[w.path] /\ (Left(Tail(cli.todo), w) <=> Left(cli.todo, w))
      BY <1>1, <2>1, <2>3
    <3>2. ~Detached(w.path) /\ ~Detached(w.path)'
      BY <1>2, <3>1 DEF Detached
    <3> QED BY <1>2, <3>1, <3>2 DEF Rewrites
  <2> QED BY <2>2, <2>3
<1>12. PutMemory.path = Memory /\ PutManifest.path = Manifest
  BY Ranks
<1>13. Rewrites(PutManifest, Manifest) /\ (IsEdit(tree[Memory]) \/ Rewrites(PutMemory, Memory))
  BY <1>3 DEF Writing
<1>14. Rewrites(PutManifest, Manifest)' /\ (IsEdit(tree'[Memory]) \/ Rewrites(PutMemory, Memory)')
  BY <1>11, <1>12, <1>13
<1> QED BY <1>6, <1>9, <1>10, <1>14

\* The invariant after a task that is done.
LEMMA TaskDoneInv ==
  ASSUME SyncInv, cli.pc = "write", cli.todo # <<>>, TaskDone,
         tree' = [p \in Paths |-> tree'[p]], \A p \in Paths : p # Task.path => tree'[p] = tree[p],
         tree'[Task.path] = IF Task.act = "put" THEN Target ELSE Missing,
         Task.act # "put" => tree[Task.path] = Missing,
         UNCHANGED <<units, requests, commits, edits, root, removed>>
  PROVE  SyncInv'
<1> DEFINE S == cli.fetched
           path == Task.path
           rest == Tail(cli.todo)
<1>1. /\ \A p \in Paths : IsEdit(tree'[p]) => p # path /\ tree'[p] = tree[p]
      /\ Rewrites(PutManifest, Manifest)' /\ (IsEdit(tree'[Memory]) \/ Rewrites(PutMemory, Memory)')
      /\ PutsAreKept' /\ DropsComeLate'
  BY DoneWrites
<1>2. /\ Task \in Works(cli.seen, S) /\ path \in Paths /\ Queue(rest, cli.seen, S)
      /\ \A w : Left(cli.todo, w) => w \in Works(cli.seen, S) /\ Rank(Task) <= Rank(w)
      /\ \A w : Left(rest, w) <=> Left(cli.todo, w) /\ w # Task
      /\ \A w \in Works(cli.seen, S) : w.path = path => w = Task
  BY FirstTask, TaskGoes
<1>3. /\ Writing /\ TreeInv /\ Files(tree, Len(units), Len(edits)) /\ tree = [p \in Paths |-> tree[p]]
      /\ root = "tree" /\ ~IsEdit(tree[Manifest])
  BY WritingFacts
<1>4. cli' = [pc |-> "write", cmd |-> cli.cmd, seen |-> cli.seen, fetched |-> S,
              req |-> cli.req, todo |-> rest, step |-> "start", moved |-> cli.moved]
      /\ outcome' = outcome
  BY CliFields DEF TaskDone
<1>5. /\ cli'.todo = rest /\ cli'.step = "start" /\ cli'.seen = cli.seen /\ cli'.fetched = S /\ cli'.moved = cli.moved
  BY ONLY <1>4
<1>6. OldEditsGo'
  <2> SUFFICES ASSUME NEW p \in Paths, IsEdit(tree'[p])
               PROVE  \/ Fresh(tree'[p].edit, commits, requests)
                      \/ tree'[p] = cli.seen[p] /\ \E n \in DOMAIN rest : rest[n].path = p
    BY <1>5 DEF OldEditsGo
  <2>1. p # path /\ tree'[p] = tree[p]
    BY <1>1
  <2>2. \/ Fresh(tree[p].edit, commits, requests)
        \/ tree[p] = cli.seen[p] /\ \E n \in DOMAIN cli.todo : cli.todo[n].path = p
    BY <1>3, <2>1 DEF Writing, OldEditsGo
  <2>3. ASSUME NEW n \in DOMAIN cli.todo, cli.todo[n].path = p PROVE \E m \in DOMAIN rest : rest[m].path = p
    <3>1. Left(cli.todo, cli.todo[n]) /\ cli.todo[n] # Task
      BY <2>1, <2>3 DEF Left
    <3>2. Left(rest, cli.todo[n])
      BY <1>2, <3>1
    <3> QED BY <2>3, <3>2 DEF Left
  <2> QED BY <2>1, <2>2, <2>3
<1>7. StepOk'
  BY <1>5 DEF StepOk
<1>8. Writing'
  BY <1>1, <1>2, <1>3, <1>5, <1>6, <1>7 DEF Writing
<1>9. Files(tree', Len(units), Len(edits))
  <2>1. FileOk(path, tree'[path], Len(units), Len(edits))
    BY <1>2, <1>3, TargetIs DEF Files
  <2>2. \A p \in Paths : FileOk(p, tree'[p], Len(units), Len(edits))
    BY <1>3, <2>1 DEF Files
  <2> QED BY <2>2 DEF Files
<1>10. TreeIsOlder'
  <2>1. CASE Task = PutManifest
    <3>1. ASSUME NEW p \in Paths, IsEdit(tree'[p]) PROVE Fresh(tree'[p].edit, commits, requests)
      <4>1. p # Manifest /\ tree'[p] = tree[p]
        BY <1>1, <2>1, <3>1, Ranks
      <4>2. ASSUME NEW n \in DOMAIN cli.todo, cli.todo[n].path = p PROVE FALSE
        <5>1. Left(cli.todo, cli.todo[n])
          BY DEF Left
        <5>2. cli.todo[n] \in Works(cli.seen, S) /\ 5 <= Rank(cli.todo[n])
          BY <1>2, <2>1, <5>1, Ranks
        <5>3. cli.todo[n] = PutManifest
          BY <5>2, RankIs
        <5> QED BY <4>1, <4>2, <5>3, Ranks
      <4> QED BY <1>3, <3>1, <4>1, <4>2 DEF Writing, OldEditsGo
    <3>2. \A c \in commits : EditsIn(tree') \cap c.edits = {}
      BY <3>1, EditsInTree DEF Fresh
    <3> QED BY <3>2 DEF TreeIsOlder
  <2>2. CASE Task # PutManifest
    <3>1. path # Manifest
      BY <1>2, <2>2, WorkIs, Ranks
    <3>2. Entries(tree') = Entries(tree) /\ ~IsEdit(tree'[path])
      BY <1>1, <1>2, <3>1, PathsAre DEF Entries
    <3> QED BY <1>3, <3>2, FewerEdits
  <2> QED BY <2>1, <2>2
<1>11. Intended'
  <2>1. ~IsEdit(tree'[Manifest])
    BY <1>9, PathsAre DEF Files, FileOk
  <2>2. \A p : ~Detached(p)'
    BY <1>5 DEF Detached
  <2>3. /\ tree'[Manifest] = IF Left(rest, PutManifest) THEN cli.seen[Manifest] ELSE Gen(S)
        /\ IsEdit(tree'[Memory]) \/ tree'[Memory] = IF Left(rest, PutMemory) THEN cli.seen[Memory] ELSE Gen(S)
    BY <1>1, <1>5, <2>2 DEF Rewrites
  <2>4. /\ \A i \in S : ~Left(rest, PutUnit(i)) /\ tree'[UnitFile(i)] = Missing => i \in removed
        /\ \A i \in Entries(cli.seen) : tree'[UnitFile(i)] = Missing => i \in removed \/ (i \notin S /\ ~Left(rest, PutMemory))
    BY <1>1, <1>5 DEF PutsAreKept, DropsComeLate
  <2>5. rest # <<>> => Left(rest, PutManifest)
    BY <1>2 DEF Queue
  <2> SUFFICES ASSUME tree'[Manifest] # Missing, tree'[Memory] = tree'[Manifest],
                      NEW i \in Entries(tree'), tree'[UnitFile(i)] = Missing
               PROVE  i \in removed
    BY DEF Intended
  <2> HIDE DEF rest, S
  <2> QED BY <2>1, <2>3, <2>4, <2>5, AgreeingTree
<1>12. TreeInv'
  BY <1>3, <1>9, <1>10, <1>11 DEF TreeInv, SentEdits
<1> QED BY <1>4, <1>8, <1>12, WritesOn

\* A task, or the final sweep, takes a step that moves no file.
LEMMA AdvanceInv ==
  ASSUME SyncInv, cli.pc = "write", NEW step, Advance(step), step # "detached", cli.step # "detached",
         cli.todo # <<>> => step = "ready" /\ (Task.act = "put" => Expected # Target),
         UNCHANGED <<units, requests, commits, tree, edits, root, removed>>
  PROVE  SyncInv'
<1>1. cli' = [pc |-> "write", cmd |-> cli.cmd, seen |-> cli.seen, fetched |-> cli.fetched,
              req |-> cli.req, todo |-> cli.todo, step |-> step, moved |-> cli.moved]
      /\ outcome' = outcome
  BY CliFields DEF Advance
<1>2. /\ cli'.todo = cli.todo /\ cli'.step = step /\ cli'.seen = cli.seen /\ cli'.fetched = cli.fetched /\ cli'.moved = cli.moved
  BY ONLY <1>1
<1>3. Writing
  BY WritingFacts
<1>4. Task' = Task /\ Expected' = Expected /\ Target' = Target
  BY <1>2 DEF Task, Expected, Target, Rendered
<1>5. StepOk'
  BY <1>2, <1>4 DEF StepOk
<1>6. \A p : ~Detached(p) /\ ~Detached(p)'
  BY <1>2 DEF Detached
<1>7. /\ Rewrites(PutManifest, Manifest)' /\ (IsEdit(tree'[Memory]) \/ Rewrites(PutMemory, Memory)')
  BY <1>2, <1>3, <1>6 DEF Writing, Rewrites
<1>8. PutsAreKept' /\ DropsComeLate' /\ OldEditsGo'
  BY <1>2, <1>3 DEF Writing, PutsAreKept, DropsComeLate, OldEditsGo
<1>9. Writing'
  BY <1>2, <1>3, <1>5, <1>7, <1>8 DEF Writing
<1>10. TreeInv'
  BY ServerRests, TreeKept DEF SyncInv
<1> QED BY <1>1, <1>9, <1>10, WritesOn

\* The file of the first task is moved away, whatever it holds: the tree is still one that
\* sync refuses, or that lacks only what the user removed.
LEMMA DetachKeeps ==
  ASSUME SyncInv, cli.pc = "write", cli.todo # <<>>, cli.step = "ready", Expected # Missing,
         tree' = [tree EXCEPT ![Task.path] = Missing],
         UNCHANGED <<units, requests, commits, edits, root, removed>>
  PROVE  /\ TreeInv' /\ \A p \in Paths : IsEdit(tree'[p]) => tree'[p] = tree[p]
         /\ tree'[Manifest] = IF ~Left(cli.todo, PutManifest) THEN Gen(cli.fetched)
                              ELSE IF Task.path = Manifest THEN Missing ELSE cli.seen[Manifest]
         /\ \/ IsEdit(tree'[Memory])
            \/ tree'[Memory] = IF ~Left(cli.todo, PutMemory) THEN Gen(cli.fetched)
                               ELSE IF Task.path = Memory THEN Missing ELSE cli.seen[Memory]
         /\ \A i \in cli.fetched : ~Left(cli.todo, PutUnit(i)) /\ tree'[UnitFile(i)] = Missing => i \in removed
         /\ \A i \in Entries(cli.seen) : tree'[UnitFile(i)] = Missing =>
              i \in removed \/ (i \notin cli.fetched /\ ~Left(cli.todo, PutMemory))
<1> DEFINE S == cli.fetched
           path == Task.path
           todo == cli.todo
<1>1. /\ Task \in Works(cli.seen, S) /\ path \in Paths /\ Left(todo, Task) /\ Queue(todo, cli.seen, S)
      /\ \A w : Left(todo, w) => w \in Works(cli.seen, S) /\ Rank(Task) <= Rank(w)
      /\ \A w \in Works(cli.seen, S) : w.path = path => w = Task
  BY FirstTask, TaskGoes, WritingFacts DEF Writing
<1>2. /\ Writing /\ TreeInv /\ Files(tree, Len(units), Len(edits)) /\ tree = [p \in Paths |-> tree[p]]
      /\ root = "tree" /\ ~IsEdit(tree[Manifest]) /\ S \subseteq Ids /\ Entries(cli.seen) \subseteq Ids
      /\ Len(edits) \in Nat
  BY WritingFacts
<1>3. /\ tree' = [p \in Paths |-> tree'[p]] /\ tree'[path] = Missing /\ \A p \in Paths : p # path => tree'[p] = tree[p]
  BY <1>1, <1>2
<1>4. \A p \in Paths : IsEdit(tree'[p]) => tree'[p] = tree[p]
  BY <1>3, Contents
<1>5. \A p : ~Detached(p)
  BY DEF Detached
<1>6. ASSUME NEW w \in {PutMemory, PutManifest}, IsEdit(tree[w.path]) \/ Rewrites(w, w.path)
      PROVE  \/ IsEdit(tree'[w.path])
             \/ tree'[w.path] = IF ~Left(todo, w) THEN Gen(S)
                                ELSE IF path = w.path THEN Missing ELSE cli.seen[w.path]
  <2>1. w \in Works(cli.seen, S) /\ w.path \in Paths
    BY WorkIs, Ranks, PathsAre
  <2>2. CASE w = Task
    BY <1>1, <1>3, <2>2
  <2>3. CASE w # Task
    <3>1. w.path # path
      BY <1>1, <2>1, <2>3
    <3> QED BY <1>3, <1>5, <1>6, <2>1, <3>1 DEF Rewrites
  <2> QED BY <2>2, <2>3
<1>7. PutMemory.path = Memory /\ PutManifest.path = Manifest /\ Memory \in Paths /\ Manifest \in Paths
  BY Ranks, PathsAre
<1>8. Files(tree', Len(units), Len(edits))
  <2>1. FileOk(path, Missing, Len(units), Len(edits))
    BY <1>2, Contents DEF FileOk
  <2>2. \A p \in Paths : FileOk(p, tree'[p], Len(units), Len(edits))
    BY <1>2, <1>3, <2>1 DEF Files
  <2> QED BY <1>3, <2>2 DEF Files
<1>9. ~IsEdit(tree'[Manifest])
  BY <1>7, <1>8 DEF Files, FileOk
<1>10. /\ tree'[Manifest] = IF ~Left(todo, PutManifest) THEN Gen(S)
                            ELSE IF path = Manifest THEN Missing ELSE cli.seen[Manifest]
       /\ \/ IsEdit(tree'[Memory])
          \/ tree'[Memory] = IF ~Left(todo, PutMemory) THEN Gen(S)
                             ELSE IF path = Memory THEN Missing ELSE cli.seen[Memory]
  <2>1. Rewrites(PutManifest, Manifest) /\ (IsEdit(tree[Memory]) \/ Rewrites(PutMemory, Memory))
    BY <1>2 DEF Writing
  <2> QED BY <1>6, <1>7, <1>9, <2>1
<1>11. ASSUME NEW i \in S, ~Left(todo, PutUnit(i)), tree'[UnitFile(i)] = Missing PROVE i \in removed
  <2>1. PutUnit(i) \in Works(cli.seen, S) /\ PutUnit(i).path = UnitFile(i) /\ UnitFile(i) \in Paths
    BY <1>2, WorkIs, Ranks, PathsAre
  <2>2. UnitFile(i) # path
    BY <1>1, <1>11, <2>1
  <2>3. tree[UnitFile(i)] = Missing
    BY <1>3, <1>11, <2>1, <2>2
  <2> QED BY <1>2, <1>11, <2>3 DEF Writing, PutsAreKept
<1>12. ASSUME NEW i \in Entries(cli.seen), tree'[UnitFile(i)] = Missing
       PROVE  i \in removed \/ (i \notin S /\ ~Left(todo, PutMemory))
  <2>1. UnitFile(i) \in Paths /\ i \in Ids
    BY <1>2, PathsAre
  <2>2. CASE path # UnitFile(i)
    <3>1. tree[UnitFile(i)] = Missing
      BY <1>3, <1>12, <2>1, <2>2
    <3> QED BY <1>2, <3>1 DEF Writing, DropsComeLate
  <2>3. CASE path = UnitFile(i)
    <3>1. Task = PutUnit(i) \/ (Task = DropUnit(i) /\ i \notin S)
      BY <1>1, <2>3, WorkIs, Ranks, PathsApart
    <3>2. Task # PutUnit(i)
      <4> SUFFICES ASSUME Task = PutUnit(i) PROVE FALSE
        OBVIOUS
      <4>1. Task.act = "put"
        BY Ranks
      <4>2. i \in S /\ Target = Gen({i})
        BY <2>1, <2>3, <4>1, TargetIs
      <4>3. Expected # Target
        BY <1>2, <4>1 DEF Writing, StepOk
      <4>4. Drifted(cli.seen, i)
        BY <2>3, <4>2, <4>3 DEF Expected, Drifted
      <4> QED BY <1>2, <1>12, <4>2, <4>4 DEF Writing, Changed
    <3>3. ~Left(todo, PutMemory)
      BY <1>1, <3>1, <3>2, Ranks
    <3> QED BY <3>1, <3>2, <3>3
  <2> QED BY <2>2, <2>3
<1>13. Intended'
  <2>1. todo # <<>> => Left(todo, PutManifest)
    BY <1>1 DEF Queue
  <2>2. tree'[Manifest] = Missing \/ tree'[Manifest] = IF Left(todo, PutManifest) THEN cli.seen[Manifest] ELSE Gen(S)
    BY <1>10
  <2>3. \/ IsEdit(tree'[Memory]) \/ tree'[Memory] = Missing
        \/ tree'[Memory] = IF Left(todo, PutMemory) THEN cli.seen[Memory] ELSE Gen(S)
    BY <1>10
  <2> SUFFICES ASSUME tree'[Manifest] # Missing, tree'[Memory] = tree'[Manifest],
                      NEW i \in Entries(tree'), tree'[UnitFile(i)] = Missing
               PROVE  i \in removed
    BY DEF Intended
  <2> HIDE DEF todo, S
  <2> QED BY <1>9, <1>11, <1>12, <2>1, <2>2, <2>3, AgreeingTree
<1>14. TreeIsOlder'
  <2>1. Entries(tree') \subseteq Entries(tree)
    BY <1>3, <1>7, Contents DEF Entries
  <2>2. ~IsEdit(tree'[path])
    BY <1>3, Contents
  <2> QED BY <1>2, <1>3, <2>1, <2>2, FewerEdits
<1>15. TreeInv'
  BY <1>2, <1>8, <1>13, <1>14 DEF TreeInv, SentEdits
<1> QED BY <1>4, <1>10, <1>11, <1>12, <1>15

\* move_to_recovery and validate_detached_file.
LEMMA DetachFileInv ==
  ASSUME SyncInv, DetachFile
  PROVE  SyncInv'
<1>1. /\ cli.pc = "write" /\ cli.todo # <<>> /\ cli.step = "ready" /\ Expected # Missing
      /\ UNCHANGED <<units, requests, commits, edits, root, removed>>
  BY DEF DetachFile, InTask, serverVars, userVars
<1>2. CASE WriteFails /\ UNCHANGED tree
  BY <1>1, <1>2, WriteFailsQuietly
<1>3. CASE WriteFails /\ tree' = [tree EXCEPT ![Task.path] = Missing]
  BY <1>1, <1>3, DetachKeeps, WriteFailsInv
<1>4. CASE /\ tree' = [tree EXCEPT ![Task.path] = Missing] /\ tree[Task.path] = Expected /\ outcome' = outcome
           /\ cli' = [cli EXCEPT !.step = "detached", !.moved = @ \cup Recovered(tree[Task.path])]
  <2> DEFINE S == cli.fetched
             moved == cli.moved \cup Recovered(Expected)
  <2>1. cli' = [pc |-> "write", cmd |-> cli.cmd, seen |-> cli.seen, fetched |-> S,
                req |-> cli.req, todo |-> cli.todo, step |-> "detached", moved |-> moved]
    BY <1>1, <1>4, CliFields
  <2>2. /\ cli'.todo = cli.todo /\ cli'.step = "detached" /\ cli'.seen = cli.seen /\ cli'.fetched = S /\ cli'.moved = moved
    BY ONLY <2>1
  <2>3. /\ TreeInv' /\ \A p \in Paths : IsEdit(tree'[p]) => tree'[p] = tree[p]
        /\ tree'[Manifest] = IF ~Left(cli.todo, PutManifest) THEN Gen(S)
                             ELSE IF Task.path = Manifest THEN Missing ELSE cli.seen[Manifest]
        /\ \/ IsEdit(tree'[Memory])
           \/ tree'[Memory] = IF ~Left(cli.todo, PutMemory) THEN Gen(S)
                              ELSE IF Task.path = Memory THEN Missing ELSE cli.seen[Memory]
        /\ \A i \in S : ~Left(cli.todo, PutUnit(i)) /\ tree'[UnitFile(i)] = Missing => i \in removed
        /\ \A i \in Entries(cli.seen) : tree'[UnitFile(i)] = Missing =>
             i \in removed \/ (i \notin S /\ ~Left(cli.todo, PutMemory))
    BY <1>1, <1>4, DetachKeeps
  <2>4. Writing /\ SeenOk(cli.seen, Len(units), Len(edits)) /\ Task.path \in Paths
    BY <1>1, WritingFacts, FirstTask
  <2>5. Task' = Task /\ Expected' = Expected /\ Target' = Target
    BY <2>2 DEF Task, Expected, Target, Rendered
  <2>6. StepOk'
    BY <1>1, <2>2, <2>4, <2>5 DEF StepOk, Writing
  <2>7. moved \subseteq EditsIn(cli.seen)
    <3>1. cli.seen = [p \in Paths |-> cli.seen[p]]
      BY <2>4 DEF SeenOk, Files
    <3>2. Recovered(Expected) \subseteq EditsIn(cli.seen)
      BY <2>4, <3>1, EditsInTree DEF Recovered, Expected
    <3> QED BY <2>4, <3>2 DEF Writing
  <2>8. \A p : Detached(p)' <=> Task.path = p
    BY <1>1, <2>2, <2>5 DEF Detached
  <2>9. Rewrites(PutManifest, Manifest)' /\ (IsEdit(tree'[Memory]) \/ Rewrites(PutMemory, Memory)')
    BY <2>2, <2>3, <2>8 DEF Rewrites
  <2>10. PutsAreKept' /\ DropsComeLate'
    BY <1>1, <2>2, <2>3 DEF PutsAreKept, DropsComeLate
  <2>11. OldEditsGo'
    BY <1>1, <2>2, <2>3, <2>4 DEF Writing, OldEditsGo
  <2>12. Writing'
    <3> HIDE DEF moved
    <3> QED BY <2>2, <2>4, <2>6, <2>7, <2>9, <2>10, <2>11 DEF Writing
  <2> QED BY <1>1, <1>4, <2>1, <2>3, <2>12, WritesOn
<1> QED BY <1>2, <1>3, <1>4 DEF DetachFile, move_to_recovery

\* The checks before a file is touched.
LEMMA StartTaskInv ==
  ASSUME SyncInv, StartTask
  PROVE  SyncInv'
<1>1. /\ cli.pc = "write" /\ cli.todo # <<>> /\ cli.step = "start"
      /\ UNCHANGED <<units, requests, commits, edits, root, removed, tree>>
  BY DEF StartTask, InTask, serverVars, userVars
<1>2. tree = [p \in Paths |-> tree[p]]
  BY <1>1, WritingFacts
<1>3. CASE WriteFails
  BY <1>1, <1>3, WriteFailsQuietly
<1>4. CASE Task.act = "put" /\ Expected = Target /\ tree[Task.path] = Expected /\ TaskDone
  BY <1>1, <1>2, <1>4, TaskDoneInv
<1>5. CASE Task.act = "drop" /\ tree[Task.path] = Missing /\ TaskDone
  BY <1>1, <1>2, <1>5, TaskDoneInv
<1>6. CASE Advance("ready") /\ (Task.act = "put" => Expected # Target)
  BY <1>1, <1>6, AdvanceInv
<1> QED BY <1>3, <1>4, <1>5, <1>6 DEF StartTask, validate_current_file

\* The rename without replacement.
LEMMA InstallFileInv ==
  ASSUME SyncInv, InstallFile
  PROVE  SyncInv'
<1>1. /\ cli.pc = "write" /\ cli.todo # <<>> /\ Task.act = "put"
      /\ UNCHANGED <<units, requests, commits, edits, root, removed>>
  BY DEF InstallFile, InTask, serverVars, userVars
<1>2. tree = [p \in Paths |-> tree[p]] /\ Task.path \in Paths
  BY <1>1, WritingFacts, FirstTask
<1>3. CASE WriteFails /\ UNCHANGED tree
  BY <1>1, <1>3, WriteFailsQuietly
<1>4. CASE tree' = [tree EXCEPT ![Task.path] = Target] /\ TaskDone
  <2>1. /\ tree' = [p \in Paths |-> tree'[p]] /\ tree'[Task.path] = Target
        /\ \A p \in Paths : p # Task.path => tree'[p] = tree[p]
    BY <1>2, <1>4
  <2> QED BY <1>1, <1>4, <2>1, TaskDoneInv
<1> QED BY <1>3, <1>4 DEF InstallFile

\* A file that was taken away is gone.
LEMMA ConfirmGoneInv ==
  ASSUME SyncInv, ConfirmGone
  PROVE  SyncInv'
<1>1. /\ cli.pc = "write" /\ cli.todo # <<>> /\ Task.act # "put"
      /\ UNCHANGED <<units, requests, commits, edits, root, removed, tree>>
  BY DEF ConfirmGone, InTask, serverVars, userVars
<1>2. tree = [p \in Paths |-> tree[p]]
  BY <1>1, WritingFacts
<1>3. CASE WriteFails
  BY <1>1, <1>3, WriteFailsQuietly
<1>4. CASE tree[Task.path] = Missing /\ TaskDone
  BY <1>1, <1>2, <1>4, TaskDoneInv
<1> QED BY <1>3, <1>4 DEF ConfirmGone

\* There is no recovery directory.
LEMMA NoRecoveryAreaInv ==
  ASSUME SyncInv, NoRecoveryArea
  PROVE  SyncInv'
<1>1. /\ cli.pc = "write" /\ WriteFails /\ UNCHANGED <<units, requests, commits, edits, root, removed, tree>>
  BY DEF NoRecoveryArea, InTask, serverVars, userVars
<1> QED BY <1>1, WriteFailsQuietly

\* The two sweeps over the finished tree.
LEMMA SweepInv ==
  ASSUME SyncInv, Sweep
  PROVE  SyncInv'
<1>1. /\ cli.pc = "write" /\ cli.todo = <<>> /\ UNCHANGED <<units, requests, commits, edits, root, removed, tree>>
  BY DEF Sweep, serverVars, userVars
<1>2. CASE WriteFails
  BY <1>1, <1>2, WriteFailsQuietly
<1>3. CASE cli.step = "start" /\ Advance("swept")
  BY <1>1, <1>3, AdvanceInv
<1>4. CASE Finish(IF cli.cmd = "sync" THEN "applied" ELSE "compiled")
  <2> DEFINE result == IF cli.cmd = "sync" THEN "applied" ELSE "compiled"
  <2>1. cli.cmd = "sync" => \E c \in commits : c.req = cli.req
    BY <1>1, CliFields DEF LinkOk, TookEffect
  <2>2. Reports(result)
    BY <2>1 DEF Reports
  <2> HIDE DEF result
  <2>3. Finish(result)
    BY <1>4 DEF result
  <2> QED BY <1>1, <2>2, <2>3, EndsQuietly
<1> QED BY <1>2, <1>3, <1>4 DEF Sweep

-----------------------------------------------------------------------------
(***************************************************************************)
(* The user.                                                               *)
(***************************************************************************)

\* The user writes a fresh edit into a file, or removes the file of a unit.
LEMMA UserTouches ==
  ASSUME SyncInv, NEW path \in Paths, path # Manifest, NEW c, tree' = [tree EXCEPT ![path] = c], root = "tree",
         UNCHANGED <<units, requests, commits, root, cli, outcome>>,
         edits' \in Seq(Bodies), Len(edits) <= Len(edits'), FileOk(path, c, Len(units), Len(edits')),
         path = Memory => IsEdit(c), IsEdit(c) => Fresh(c.edit, commits, requests),
         \A j \in Ids : tree'[UnitFile(j)] = Missing =>
           j \in removed' \/ (tree[UnitFile(j)] = Missing /\ j \notin removed)
  PROVE  SyncInv'
<1>1. /\ ServerInv /\ TreeInv /\ CliOk /\ ReadOk /\ LinkOk
      /\ edits \in Seq(Bodies) /\ Len(edits) \in Nat /\ Len(edits') \in Nat
  BY CliFields DEF SyncInv, TreeInv, SentEdits
<1>2. Len(units) \in Nat /\ DOMAIN units = 1..Len(units) /\ Len(units) <= MaxUnits /\ 1..Len(units) \subseteq Ids
  BY <1>1, SeedsAreUnits DEF ServerInv, Table, Ids
<1>3. Files(tree, Len(units), Len(edits')) /\ tree = [p \in Paths |-> tree[p]]
  <2>1. Files(tree, Len(units), Len(edits))
    BY <1>1 DEF TreeInv
  <2>2. Len(units) <= Len(units)
    BY <1>2
  <2> QED BY <1>1, <1>2, <2>1, <2>2, FilesKept DEF Files
<1>4. /\ tree' = [p \in Paths |-> tree'[p]] /\ tree'[path] = c /\ \A p \in Paths : p # path => tree'[p] = tree[p]
  BY <1>3
<1>5. Files(tree', Len(units), Len(edits'))
  <2>1. \A p \in Paths : FileOk(p, tree'[p], Len(units), Len(edits'))
    BY <1>3, <1>4 DEF Files
  <2> QED BY <1>4, <2>1 DEF Files
<1>6. tree'[Manifest] = tree[Manifest] /\ Entries(tree') = Entries(tree) /\ Entries(tree) \subseteq Ids
  <2>1. tree'[Manifest] = tree[Manifest] /\ tree[Manifest].of \subseteq 1..Len(units)
    BY <1>3, <1>4, PathsAre DEF Files, FileOk
  <2> QED BY <1>2, <2>1 DEF Entries
<1>7. IsEdit(tree'[Memory]) \/ (tree'[Memory] = tree[Memory])
  BY <1>4, PathsAre
<1>8. ~IsEdit(tree'[Manifest])
  BY <1>5, PathsAre DEF Files, FileOk
<1>9. Intended'
  <2> SUFFICES ASSUME tree'[Manifest] # Missing, tree'[Memory] = tree'[Manifest],
                      NEW i \in Entries(tree'), tree'[UnitFile(i)] = Missing
               PROVE  i \in removed'
    BY DEF Intended
  <2>1. tree[Memory] = tree[Manifest] /\ tree[Manifest] # Missing /\ i \in Entries(tree) /\ i \in Ids
    BY <1>6, <1>7, <1>8
  <2>2. tree[UnitFile(i)] = Missing => i \in removed
    BY <1>1, <2>1 DEF TreeInv, Intended
  <2> QED BY <2>1, <2>2
<1>10. TreeIsOlder'
  <2> SUFFICES ASSUME NEW d \in commits, NEW e \in EditsIn(tree'), e \in d.edits PROVE Precedes(Entries(tree), d)
    BY <1>6 DEF TreeIsOlder
  <2>1. PICK p \in Paths : IsEdit(tree'[p]) /\ tree'[p].edit = e
    BY <1>4, EditsInTree
  <2>2. p # path
    BY <1>4, <2>1 DEF Fresh
  <2>3. e \in EditsIn(tree)
    BY <1>3, <1>4, <2>1, <2>2, EditsInTree
  <2> QED BY <1>1, <2>3 DEF TreeInv, TreeIsOlder
<1>11. SentEdits'
  <2>1. \A e \in Int : e > Len(edits') => e > Len(edits)
    BY <1>1
  <2> QED BY <1>1, <2>1 DEF TreeInv, SentEdits
<1>12. TreeInv'
  BY <1>5, <1>9, <1>10, <1>11 DEF TreeInv
<1>13. ReadOk'
  <2>1. SeenOk(cli.seen, Len(units), Len(edits)) => SeenOk(cli.seen, Len(units), Len(edits'))
    <3>1. Len(units) <= Len(units)
      BY <1>2
    <3> QED BY <1>1, <1>2, <3>1, FilesKept
  <2> QED BY <1>1, <2>1 DEF ReadOk
<1>14. CliOk' /\ LinkOk'
  BY <1>1 DEF CliOk, LinkOk
<1>15. ASSUME cli.pc = "write" PROVE Writing'
  <2>1. Writing /\ cli.fetched \subseteq Ids /\ Entries(cli.seen) \subseteq Ids
    BY <1>15, WritingFacts
  <2>2. StepOk'
    BY <2>1 DEF Writing, StepOk, Task, Expected, Target, Rendered
  <2>3. \A p : Detached(p)' <=> Detached(p)
    BY DEF Detached, Task
  <2>4. Rewrites(PutManifest, Manifest)'
    BY <1>6, <2>1, <2>3 DEF Writing, Rewrites
  <2>5. IsEdit(tree'[Memory]) \/ Rewrites(PutMemory, Memory)'
    BY <1>7, <2>1, <2>3 DEF Writing, Rewrites
  <2>6. PutsAreKept'
    BY <2>1 DEF Writing, PutsAreKept
  <2>7. DropsComeLate'
    BY <2>1 DEF Writing, DropsComeLate
  <2>8. OldEditsGo'
    BY <1>4, <2>1 DEF Writing, OldEditsGo
  <2> QED BY <2>1, <2>2, <2>4, <2>5, <2>6, <2>7, <2>8 DEF Writing
<1>16. OutcomeOk' /\ ServerInv' /\ Superseded'
  BY OutcomeStays, ServerRests
<1> QED BY <1>12, <1>13, <1>14, <1>15, <1>16 DEF SyncInv, CliInv

\* The user saves a file.
LEMMA UserWriteInv ==
  ASSUME SyncInv, NEW p \in Paths, p # Manifest, NEW b \in Bodies, UserWrite(p, b)
  PROVE  SyncInv'
<1> DEFINE n == Len(edits) + 1
<1>1. /\ UNCHANGED <<units, requests, commits, root, cli, outcome>> /\ root = "tree"
      /\ edits' = Append(edits, b) /\ tree' = [tree EXCEPT ![p] = Edit(n)]
      /\ removed' = removed \ {i \in Ids : p = UnitFile(i)}
  BY DEF UserWrite, serverVars
<1>2. /\ edits \in Seq(Bodies) /\ Len(edits) \in Nat /\ Fresh(n, commits, requests) /\ TreeInv
  BY DEF SyncInv, TreeInv, SentEdits
<1>3. edits' \in Seq(Bodies) /\ Len(edits') = n /\ Len(edits) <= Len(edits')
  BY <1>1, <1>2
<1>4. Edit(n).edit = n /\ IsEdit(Edit(n)) /\ Edit(n) # Missing
  BY <1>2, Contents
<1>5. FileOk(p, Edit(n), Len(units), Len(edits'))
  BY <1>2, <1>3, <1>4 DEF FileOk
<1>6. ASSUME NEW j \in Ids, tree'[UnitFile(j)] = Missing
      PROVE  j \in removed' \/ (tree[UnitFile(j)] = Missing /\ j \notin removed)
  <2>1. tree = [q \in Paths |-> tree[q]]
    BY <1>2 DEF TreeInv, Files
  <2>2. p # UnitFile(j) /\ tree[UnitFile(j)] = Missing
    BY <1>1, <1>4, <1>6, <2>1
  <2> QED BY <1>1, <2>2
<1> HIDE DEF n
<1>7. IsEdit(Edit(n)) => Fresh(Edit(n).edit, commits, requests)
  BY <1>2, <1>4
<1> QED BY <1>1, <1>3, <1>4, <1>5, <1>6, <1>7, UserTouches

\* The user removes the file of a unit.
LEMMA UserRemovesInv ==
  ASSUME SyncInv, NEW i \in Ids, UserRemoves(i)
  PROVE  SyncInv'
<1>1. /\ UNCHANGED <<units, requests, commits, root, cli, outcome, edits>>
      /\ tree[UnitFile(i)] # Missing /\ tree' = [tree EXCEPT ![UnitFile(i)] = Missing] /\ removed' = removed \cup {i}
  BY DEF UserRemoves, serverVars
<1>2. /\ TreeInv /\ edits \in Seq(Bodies) /\ Len(edits) \in Nat /\ tree = [q \in Paths |-> tree[q]]
  BY DEF SyncInv, TreeInv, SentEdits, Files
<1>3. UnitFile(i) \in Paths /\ UnitFile(i) # Manifest /\ UnitFile(i) # Memory
  BY PathsAre, PathsApart
<1>4. root = "tree"
  BY <1>1, <1>2, <1>3 DEF TreeInv
<1>5. FileOk(UnitFile(i), Missing, Len(units), Len(edits')) /\ ~IsEdit(Missing)
  BY <1>1, <1>2, <1>3, Contents DEF FileOk
<1>6. \A j \in Ids : tree'[UnitFile(j)] = Missing =>
        j \in removed' \/ (tree[UnitFile(j)] = Missing /\ j \notin removed)
  BY <1>1, <1>2, PathsAre, PathsApart
<1>7. edits' \in Seq(Bodies) /\ Len(edits) <= Len(edits')
  BY <1>1, <1>2
<1> QED BY <1>1, <1>3, <1>4, <1>5, <1>6, <1>7, UserTouches

\* The user creates the output directory.
LEMMA UserMkdirInv ==
  ASSUME SyncInv, UserMkdir
  PROVE  SyncInv'
<1>1. /\ UNCHANGED <<units, requests, commits, tree, edits, removed, cli, outcome>> /\ root = "absent" /\ root' = "empty"
  BY DEF UserMkdir, serverVars, userVars
<1>2. ServerInv' /\ Superseded' /\ OutcomeOk'
  BY <1>1, ServerRests, OutcomeStays
<1>3. TreeInv'
  BY <1>1 DEF SyncInv, TreeInv, SentEdits, Intended, TreeIsOlder, EditsIn, Entries
<1>4. CliOk /\ ReadOk /\ LinkOk /\ cli.pc # "write"
  BY <1>1, CliFields DEF ReadOk
<1>5. CliInv'
  <2>1. CliOk' /\ LinkOk'
    BY <1>1, <1>4 DEF CliOk, LinkOk
  <2>2. ReadOk'
    BY <1>1, <1>4 DEF ReadOk
  <2> QED BY <1>1, <1>4, <2>1, <2>2 DEF CliInv
<1> QED BY <1>2, <1>3, <1>5 DEF SyncInv

\* Every step of the user.
LEMMA UserInv ==
  ASSUME SyncInv, User
  PROVE  SyncInv'
<1>1. CASE UserMkdir
  BY <1>1, UserMkdirInv
<1>2. CASE \E i \in Ids : UserRemoves(i)
  BY <1>2, UserRemovesInv
<1>3. CASE UserEdits
  <2>1. PICK b \in Bodies : \/ \E i \in Ids : UserWrite(UnitFile(i), b)
                            \/ \E k \in Keys : UserWrite(InboxFile(k), b)
                            \/ UserWrite(Memory, b)
    BY <1>3 DEF UserEdits
  <2>2. \E p \in Paths : p # Manifest /\ UserWrite(p, b)
    BY <2>1, PathsAre, PathsApart
  <2> QED BY <2>2, UserWriteInv
<1> QED BY <1>1, <1>2, <1>3 DEF User

-----------------------------------------------------------------------------
(***************************************************************************)
(* The whole.                                                              *)
(***************************************************************************)
LEMMA SeedTable ==
  Table(SeedUnits) /\ Len(SeedUnits) <= MaxUnits
<1>1. /\ SeedUnits \in Seq(Unit) /\ Len(SeedUnits) <= MaxUnits /\ MaxUnits \in Nat
      /\ \A i \in DOMAIN SeedUnits :
           SeedUnits[i].state = "active" /\ SeedUnits[i].prev = 0 /\ SeedUnits[i].from = {}
  BY SeedsAreUnits
<1>2. /\ DOMAIN SeedUnits = 1..Len(SeedUnits) /\ Len(SeedUnits) \in Nat
      /\ \A n \in DOMAIN SeedUnits : SeedUnits[n] \in Unit
  BY <1>1
<1>3. \A n \in DOMAIN SeedUnits : SeedUnits[n] \in Row
  BY <1>1, <1>2 DEF Unit, Row
<1>4. SeedUnits \in Seq(Row)
  BY <1>1, <1>2, <1>3
<1>5. \A n \in DOMAIN SeedUnits : RowOk(SeedUnits, n) /\ Succeeded(SeedUnits, n)
  BY <1>1, <1>3 DEF RowOk, Succeeded
<1> QED BY <1>1, <1>4, <1>5 DEF Table

\* The invariant holds initially.
LEMMA SyncInit ==
  ASSUME Init
  PROVE  SyncInv
<1>1. /\ units = SeedUnits /\ requests = [r \in Requests |-> NoRequest] /\ commits = {} /\ edits = <<>>
      /\ root = "absent" /\ tree = [p \in Paths |-> Missing] /\ cli = Idle /\ outcome = NoOutcome
  BY DEF Init, ServerInit
<1>2. NoRequest.phase = "none" /\ NoRequest.base = {} /\ RequestShape(NoRequest)
  BY DEF NoRequest, RequestShape
<1>3. ServerInv
  <2>1. RequestOk(NoRequest, units) /\ BaseIsOlder(NoRequest, commits)
    BY <1>1, <1>2 DEF RequestOk, BaseIsOlder, Pending
  <2> QED BY <1>1, <2>1, SeedTable DEF ServerInv
<1>4. Superseded
  BY <1>1 DEF Superseded
<1>5. OutcomeOk
  BY <1>1 DEF OutcomeOk, NoOutcome
<1>6. TreeInv
  <2>1. Len(units) \in Nat /\ edits \in Seq(Bodies) /\ Len(edits) = 0
    BY <1>1, <1>3 DEF ServerInv, Table
  <2>2. \A p \in Paths : tree[p] = Missing /\ FileOk(p, Missing, Len(units), Len(edits))
    BY <1>1, <2>1, Contents DEF FileOk
  <2>3. Files(tree, Len(units), Len(edits))
    BY <1>1, <2>2 DEF Files
  <2>4. SentEdits
    BY <1>1, <1>2, <2>1 DEF SentEdits, Fresh, Pending
  <2>5. Intended
    BY <2>2, PathsAre DEF Intended
  <2> QED BY <1>1, <2>2, <2>3, <2>4, <2>5 DEF TreeInv, TreeIsOlder
<1>7. CliInv
  <2>1. /\ Idle.pc = "idle" /\ Idle.cmd = "none" /\ Idle.req = 0 /\ Idle.todo = <<>> /\ Idle.step = "start" /\ Idle.moved = {}
        /\ Idle = [pc |-> Idle.pc, cmd |-> Idle.cmd, seen |-> Idle.seen, fetched |-> Idle.fetched,
                   req |-> Idle.req, todo |-> Idle.todo, step |-> Idle.step, moved |-> Idle.moved]
    BY DEF Idle
  <2>2. CliOk
    BY <1>1, <2>1 DEF CliOk, SyncPhases, CompilePhases
  <2>3. ReadOk /\ LinkOk
    BY <1>1, <2>1 DEF ReadOk, LinkOk, SyncPhases
  <2> QED BY <1>1, <2>1, <2>2, <2>3 DEF CliInv
<1> QED BY <1>3, <1>4, <1>5, <1>6, <1>7 DEF SyncInv

\* Every step of a command keeps the invariant.
LEMMA CommandInv ==
  ASSUME SyncInv, Command
  PROVE  SyncInv'
BY SyncScanInv, RefusedInv, SyncFetchInv, SyncPostInv, SyncReplyInv, SyncRefetchInv, StartTaskInv,
   NoRecoveryAreaInv, DetachFileInv, InstallFileInv, ConfirmGoneInv, SweepInv, CompileScanInv,
   CompileFetchInv, CompileStageInv, CompileInstallInv, CrashInv DEF Command

\* Every step keeps the invariant.
LEMMA SyncNext ==
  ASSUME SyncInv, [Next]_vars
  PROVE  SyncInv'
<1>1. CASE Command
  BY <1>1, CommandInv
<1>2. CASE User
  BY <1>2, UserInv
<1>3. CASE (Server \/ Foreign) /\ UNCHANGED <<treeVars, userVars, cli, outcome>>
  <2>1. ServerInv
    BY DEF SyncInv
  <2>2. ServerInv' /\ Progress
    BY <1>3, <2>1, ServerStep
  <2>3. UNCHANGED <<tree, root, edits, removed, cli, outcome>>
    BY <1>3 DEF treeVars, userVars
  <2> QED BY <2>2, <2>3, ClientWaits
<1>4. CASE UNCHANGED vars
  <2>1. UNCHANGED <<units, requests, commits, tree, root, edits, removed, cli, outcome>>
    BY <1>4 DEF vars, serverVars, treeVars, userVars
  <2> QED BY <2>1, ServerRests, ClientWaits
<1> QED BY <1>1, <1>2, <1>3, <1>4 DEF Next

\* The inductive invariant of the file plane and its server.
THEOREM SyncIsInvariant == Spec => []SyncInv
<1>1. Init => SyncInv
  BY SyncInit
<1>2. SyncInv /\ [Next]_vars => SyncInv'
  BY SyncNext
<1> QED BY <1>1, <1>2, PTL DEF Spec

\* ForgetsAreIntended: whatever command died or failed in the middle of writing a projection,
\* a tree that sync accepts lacks the file of a unit only if the user removed it.
THEOREM ForgetsIntended == Spec => []ForgetsAreIntended
<1>1. SyncInv => ForgetsAreIntended
  BY DEF SyncInv, TreeInv, Intended, ForgetsAreIntended, Readable
<1> QED BY <1>1, SyncIsInvariant, PTL

\* RerunIsSafe: what sync reports about its request is final, and an edit that was applied
\* twice left something only once, for any number of requests, edits and other writers.
THEOREM RerunsAreSafe == Spec => []RerunIsSafe
<1>1. SyncInv => RerunIsSafe
  <2> SUFFICES ASSUME SyncInv PROVE RerunIsSafe
    OBVIOUS
  <2>1. ServerInv /\ OutcomeOk /\ Superseded
    BY DEF SyncInv
  <2>2. ASSUME outcome.req # 0, outcome.result \in {"conflict", "invalid"}
        PROVE  (\A c \in commits : c.req # outcome.req) /\ requests[outcome.req].phase = "answered"
    <3>1. /\ requests[outcome.req].phase = "answered" /\ requests[outcome.req].reply \in {"conflict", "invalid"}
      BY <2>1, <2>2 DEF OutcomeOk
    <3>2. \A c \in commits : requests[c.req].reply \in {"ok", "server_error"}
      BY <2>1 DEF ServerInv, WasAnswered
    <3>3. \A c \in commits : c.req # outcome.req
      BY <3>1, <3>2
    <3> QED BY <3>1, <3>3
  <2>3. outcome.result \in {"applied", "postcommit"} => \E c \in commits : c.req = outcome.req
    BY <2>1 DEF OutcomeOk
  <2> QED BY <2>1, <2>2, <2>3 DEF RerunIsSafe, Superseded
<1> QED BY <1>1, SyncIsInvariant, PTL

\* Only a command that writes reports success.
LEMMA SuccessIsWritten ==
  ASSUME SyncInv, Next, outcome' # outcome, outcome'.result \in {"applied", "compiled"}
  PROVE  cli.pc = "write"
<1>1. \A result : Finish(result) => outcome'.result = result
  BY DEF Finish
<1>2. outcome' # NoOutcome
  BY DEF NoOutcome
<1>3. CASE User \/ ((Server \/ Foreign) /\ UNCHANGED <<treeVars, userVars, cli, outcome>>)
  BY <1>3 DEF User, UserMkdir, UserEdits, UserWrite, UserRemoves
<1>4. CASE StartTask \/ NoRecoveryArea \/ DetachFile \/ InstallFile \/ ConfirmGone \/ Sweep
  BY <1>4 DEF StartTask, NoRecoveryArea, DetachFile, InstallFile, ConfirmGone, Sweep, InTask
<1>5. CASE SyncScan \/ SyncUnreadable \/ CompileScan \/ CompileDirty
  BY <1>2, <1>5 DEF SyncScan, SyncUnreadable, CompileScan, CompileDirty
<1>6. CASE SyncFetch \/ SyncPlanOnly \/ SyncPost \/ SyncRefetch
  BY <1>1, <1>6 DEF SyncFetch, SyncPlanOnly, SyncPost, SyncRefetch
<1>7. CASE CompileFetch \/ CompileStage \/ CompileInstall \/ Crash
  BY <1>1, <1>7 DEF CompileFetch, CompileStage, CompileInstall, Crash
<1>8. CASE SyncReply
  <2> DEFINE q == requests[cli.req]
  <2>1. cli.pc = "posted"
    BY <1>8 DEF SyncReply
  <2>2. RequestShape(q)
    BY <2>1, CliFields DEF CliOk, SyncInv, ServerInv, RequestOk
  <2>3. \/ Finish("unknown") \/ outcome' = outcome
        \/ q.phase = "answered" /\ Finish(q.reply)
    BY <1>8 DEF SyncReply
  <2> QED BY <1>1, <2>2, <2>3 DEF RequestShape
<1> QED BY <1>3, <1>4, <1>5, <1>6, <1>7, <1>8 DEF Next, Command

\* NoSilentDisplacement: a command that reports success has moved nothing to recovery but
\* edits of the request that it committed.
THEOREM NoDisplacementIsSilent == Spec => NoSilentDisplacement
<1> DEFINE Committed == UNION {c.edits : c \in {d \in commits : d.req = cli.req}}
           Told == outcome' # outcome /\ outcome'.result \in {"applied", "compiled"} => cli.moved \subseteq Committed
<1>1. ASSUME SyncInv, Next, outcome' # outcome, outcome'.result \in {"applied", "compiled"}
      PROVE  cli.moved \subseteq Committed
  <2>1. cli.pc = "write"
    BY <1>1, SuccessIsWritten
  <2>2. cli.moved \subseteq EditsIn(cli.seen) /\ cli.cmd \in {"sync", "compile"}
    BY <1>1, <2>1, WritingFacts, CliFields DEF Writing, CliOk
  <2>3. CASE cli.cmd = "sync"
    <3>1. PICK c \in commits : c.req = cli.req /\ EditsIn(cli.seen) \subseteq c.edits
      BY <1>1, <2>1, <2>3, CliFields DEF LinkOk, TookEffect
    <3> QED BY <2>2, <3>1
  <2>4. CASE cli.cmd = "compile"
    <3>1. EditsIn(cli.seen) = {}
      BY <1>1, <2>1, <2>4, CliFields DEF ReadOk, Untouched
    <3> QED BY <2>2, <3>1
  <2> QED BY <2>2, <2>3, <2>4
<1>2. SyncInv /\ [Next]_vars => [Told]_vars
  BY <1>1
<1>3. [][Told]_vars => NoSilentDisplacement
  BY PTL DEF NoSilentDisplacement
<1> QED BY <1>2, <1>3, SyncIsInvariant, PTL DEF Spec
=============================================================================
