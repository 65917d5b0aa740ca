----------------------------- MODULE MemoryFiles -----------------------------
(***************************************************************************)
(* What the memory tool promises its callers: a tree of files in which     *)
(* every command either takes effect at one instant, on the files as they  *)
(* are at that instant, or has no effect.  A refusal that names a reason   *)
(* is true at one instant of the call.  Others may change one file at a    *)
(* time; they do not take part in the tool's transactions, so a command    *)
(* may overlook what they stored after it began, and then leaves it alone. *)
(***************************************************************************)
EXTENDS MemoryText

CONSTANTS Calls,         \* calls of the tool
          Commands,      \* [verb, path, to, at, old, text]
          Open, NoCommand

VARIABLES files,         \* path -> body
          calls,         \* call -> its command and its reply
          late,          \* call -> files that others stored since it began
          others         \* number of changes by others

Idle == [cmd |-> NoCommand, reply |-> Open]

Write(fs, p, b) == [q \in DOMAIN fs \cup {p} |-> IF q = p THEN b ELSE fs[q]]
Without(fs, P) == [q \in DOMAIN fs \ P |-> fs[q]]

Edited(fs, p, edit(_)) ==
  IF p \notin DOMAIN fs THEN [code |-> "not_found", files |-> fs]
  ELSE LET e == edit(fs[p])
           code == IF e.code = "ok" THEN ensure_topic_body(e.body) ELSE e.code
       IN  [code |-> code, files |-> IF code = "ok" THEN Write(fs, p, e.body) ELSE fs]

Relocated(fs, P, p, r) ==
  LET back == [q \in {Moved(s, p, r) : s \in P} |-> CHOOSE s \in P : Moved(s, p, r) = q]
  IN  [q \in (DOMAIN fs \ P) \cup DOMAIN back |-> IF q \in DOMAIN back THEN fs[back[q]] ELSE fs[q]]

\* A command as a function of the tree.
Effect(fs, c) ==
  LET no(code) == [code |-> code, files |-> fs]
      chosen == Selected(DOMAIN fs, c.path)
  IN  CASE c.verb = "create" ->
             (CASE writable_memory_path(c.path) # "ok" -> no(writable_memory_path(c.path))
                [] c.text = Blank -> no("empty_content")
                [] \E q \in DOMAIN fs : Clashes(q, c.path) -> no("already_exists")
                [] OTHER -> [code |-> "ok", files |-> Write(fs, c.path, <<c.text>>)])
        [] c.verb = "str_replace" -> Edited(fs, c.path, LAMBDA b : replace_once(b, c.old, c.text))
        [] c.verb = "insert" -> Edited(fs, c.path, LAMBDA b : insert_after_line(b, c.at, c.text))
        [] c.verb = "delete" ->
             (CASE c.path = Root -> no("root_protected")
                [] chosen = {}   -> no("not_found")
                [] OTHER         -> [code |-> "ok", files |-> Without(fs, chosen)])
        [] c.verb = "rename" ->
             (CASE c.path = Root -> no("root_protected")
                [] writable_memory_path(c.to) # "ok" -> no(writable_memory_path(c.to))
                [] Below(c.path, c.to) -> no("invalid_path")
                [] \E q \in DOMAIN fs : Clashes(q, c.to) -> no("already_exists")
                [] chosen = {} -> no("not_found")
                [] OTHER -> [code |-> "ok", files |-> Relocated(fs, chosen, c.path, c.to)])

Apart(fs, P) == [q \in DOMAIN fs \cap P |-> fs[q]]
Join(f, g)   == [q \in DOMAIN f \cup DOMAIN g |-> IF q \in DOMAIN f THEN f[q] ELSE g[q]]

\* Nobody else stores a file in this step.
NothingLate == \A r \in Calls : late'[r] \subseteq late[r]

Start(r, c) ==
  /\ calls[r] = Idle
  /\ calls' = [calls EXCEPT ![r].cmd = c]
  /\ NothingLate
  /\ UNCHANGED <<files, others>>

\* Refused for a reason that holds now.
RefuseAtOnce(r, c) ==
  /\ calls[r] = Idle
  /\ Effect(files, c).code # "ok"
  /\ calls' = [calls EXCEPT ![r] = [cmd |-> c, reply |-> Effect(files, c).code]]
  /\ NothingLate
  /\ UNCHANGED <<files, others>>

Perform(r) ==
  /\ calls[r].cmd # NoCommand /\ calls[r].reply = Open
  /\ \E P \in SUBSET late[r] :
        LET e == Effect(Without(files, P), calls[r].cmd)
        IN  e.code = "ok" /\ files' = Join(e.files, Apart(files, P))
  /\ \E reply \in {"ok", "mutation_failed"} : calls' = [calls EXCEPT ![r].reply = reply]
  /\ NothingLate
  /\ UNCHANGED others

Abandon(r, c) ==
  /\ calls[r] = Idle \/ (calls[r].cmd = c /\ calls[r].reply = Open)
  /\ \E reply \in {"sync_conflict", "mutation_failed", "invalid_projection"} :
        calls' = [calls EXCEPT ![r] = [cmd |-> c, reply |-> reply]]
  /\ NothingLate
  /\ UNCHANGED <<files, others>>

\* One file is stored or removed, or something that is not a file changes.
Others ==
  /\ others' = others + 1
  /\ Cardinality({p \in DOMAIN files \cup DOMAIN files' :
                    p \in DOMAIN files \cap DOMAIN files' => files[p] # files'[p]}) <= 1
  /\ \A r \in Calls : \A p \in late'[r] \ late[r] : calls[r].cmd # NoCommand /\ p \in DOMAIN files'
  /\ UNCHANGED calls

TreeInit ==
  /\ calls = [r \in Calls |-> Idle]
  /\ late = [r \in Calls |-> {}]
  /\ others = 0

TreeNext ==
  \/ \E r \in Calls, c \in Commands : Start(r, c) \/ RefuseAtOnce(r, c) \/ Abandon(r, c)
  \/ \E r \in Calls : Perform(r)
  \/ Others

Tree == TreeInit /\ [][TreeNext]_<<files, calls, late, others>>
=============================================================================
