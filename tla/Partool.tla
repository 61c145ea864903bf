------------------------------- MODULE Partool -------------------------------
(***************************************************************************)
(* partool and its library: commands that read and rewrite a flash         *)
(* partition of variables.  Each command is a process of its own.  It      *)
(* copies the partition to a private file, takes the lock, reads the copy  *)
(* into a list, changes the list, and at exit writes the whole partition   *)
(* back, releases the lock and removes the lock file.                      *)
(*                                                                         *)
(* A value is modelled by its length, 0 being the empty string, and every  *)
(* name has length 1.  Names and values have no blanks: of those that do,  *)
(* part_line_read would take the name to end at its first blank, trim the  *)
(* line and make one blank of several, and read back something shorter.    *)
(* Of a text without blanks only the length, and whether the name begins   *)
(* with '#', decide what is stored and read back.                          *)
(***************************************************************************)
EXTENDS Integers, Sequences, FiniteSetsExt, SequencesExt

CONSTANTS
    Procs,      \* processes
    Names,      \* variable names
    Values,     \* lengths of values
    Comments,   \* those that begin with PART_COMMENT, '#'
    Prefixed,   \* Prefixed[n]: the names that begin with n
    Ops,        \* the commands in use
    Space,      \* the bytes of the partition behind the crc
    MaxLine,    \* PART_MAX_LINE
    Faults,     \* which of "copy", "lock", "write", "power" can fail
    Torn,       \* the content of a partition that is not written completely
    None        \* no value

AllOps == {"crc", "empty", "load", "show", "new", "create", "update",
           "delete", "delprefix"}

\* One variable.
Line == [k : Names, v : Values]

ASSUME ProcsAssumption == IsFiniteSet(Procs)
ASSUME CommentsAssumption == Comments \subseteq Names
ASSUME ValuesAssumption == Values \subseteq Nat
ASSUME PrefixAssumption ==
    Prefixed \in [Names -> SUBSET Names] /\ \A n \in Names : n \in Prefixed[n]
ASSUME OpsAssumption == Ops \subseteq AllOps
ASSUME NoneAssumption == None \notin Names /\ None \notin Values
ASSUME FaultsAssumption == Faults \subseteq {"copy", "lock", "write", "power"}

\* A partition that is not written completely is no list of variables.
ASSUME TornAssumption ==
    Torn \notin Seq(Line) /\ Torn \notin [Names -> Values \cup {None}]

VARIABLES
    flash,     \* the partition: its lines, or Torn
    path,      \* the file PART_LOCKFILE names, 0 if there is none
    pc,        \* each process's place in its command
    cmd,       \* its command
    tmp,       \* its copy of the partition
    list,      \* block->list
    file,      \* the lock file it has open, 0 if none
    overlap,   \* its write met another process's write
    ret, out   \* what it answers

vars == <<flash, path, pc, cmd, tmp, list, file, overlap, ret, out>>

\* The arguments each command takes; for -load, the line of its file.
Command ==
    {c \in [op : Ops, k : Names \cup {None}, v : Values \cup {None}] :
        /\ (c.k = None) = (c.op \in {"crc", "empty"})
        /\ (c.v # None) = (c.op \in {"new", "create", "update", "load"})}

NoCommand == [op |-> "none", k |-> None, v |-> None]

\* The places between part_lock and part_unlock.
Held == {"inside", "flush", "writing", "flushed"}

-----------------------------------------------------------------------------
(***************************************************************************)
(* Lists of lines.                                                         *)
(***************************************************************************)
\* name, separator and value, without the newline
length(line) == 1 + 1 + line.v

\* the bytes of the lines, with their newlines
room(lines) ==
    LET used[n \in 0..Len(lines)] ==
          IF n = 0 THEN 0 ELSE used[n - 1] + length(lines[n]) + 1
    IN  used[Len(lines)]

\* part_line_wirte: the first line without room, and all after it, are lost
part_line_wirte(lines) ==
    SubSeq(lines, 1, Max({n \in 0..Len(lines) :
                            n = 0 \/ room(SubSeq(lines, 1, n)) + 1 <= Space}))

\* a loop over the list that keeps the items in S and drops the others
kept(items, S) ==
    LET before[n \in 0..Len(items)] ==
          IF n = 0 THEN <<>>
          ELSE IF items[n] \in S THEN Append(before[n - 1], items[n])
          ELSE before[n - 1]
    IN  before[Len(items)]

\* part_line_read: a line that is too long ends it; a comment, and a line
\* without a value, is skipped
part_line_read(lines) ==
    LET read == Max({n \in 0..Len(lines) :
                       \A i \in 1..n : length(lines[i]) < MaxLine})
    IN  kept(SubSeq(lines, 1, read), [k : Names \ Comments, v : Values \ {0}])

\* __part_var_find: the first item of that name, 0 if there is none
part_var_find(items, k) == SelectInSeq(items, LAMBDA x : x.k = k)

\* what a reader finds: the value of each name, or None
Content(image) ==
    IF image = Torn THEN Torn
    ELSE LET items == part_line_read(image)
         IN  [k \in Names |-> LET i == part_var_find(items, k)
                              IN  IF i = 0 THEN None ELSE items[i].v]

-----------------------------------------------------------------------------
\* A new partition holds no variable.
Init ==
    /\ flash = <<>>
    /\ path = 0
    /\ pc = [p \in Procs |-> "idle"]
    /\ cmd = [p \in Procs |-> NoCommand]
    /\ tmp = [p \in Procs |-> <<>>]
    /\ list = [p \in Procs |-> <<>>]
    /\ file = [p \in Procs |-> 0]
    /\ overlap = [p \in Procs |-> FALSE]
    /\ ret = [p \in Procs |-> "ok"]
    /\ out = [p \in Procs |-> None]

\* part_init: the copy is made before the lock is taken
mtd_2_tmp(p, c) ==
    /\ pc[p] \in {"idle", "done"}
    /\ pc' = [pc EXCEPT ![p] = "copied"]
    /\ cmd' = [cmd EXCEPT ![p] = c]
    /\ tmp' = [tmp EXCEPT ![p] = flash]
    /\ ret' = [ret EXCEPT ![p] = "ok"]
    /\ out' = [out EXCEPT ![p] = None]
    /\ UNCHANGED <<flash, path, list, file, overlap>>

CopyFails(p, c) ==
    /\ "copy" \in Faults
    /\ pc[p] \in {"idle", "done"}
    /\ pc' = [pc EXCEPT ![p] = "done"]
    /\ cmd' = [cmd EXCEPT ![p] = c]
    /\ ret' = [ret EXCEPT ![p] = "error"]
    /\ out' = [out EXCEPT ![p] = None]
    /\ UNCHANGED <<flash, path, tmp, list, file, overlap>>

\* An inode that is not in use.
newFile ==
    CHOOSE f \in 1..(Cardinality(Procs) + 2) : f \notin {path} \cup {file[q] : q \in Procs}

\* part_lock: open(O_CREAT)
Open(p) ==
    /\ pc[p] = "copied"
    /\ path' = IF path = 0 THEN newFile ELSE path
    /\ file' = [file EXCEPT ![p] = path']
    /\ pc' = [pc EXCEPT ![p] = "opened"]
    /\ UNCHANGED <<flash, cmd, tmp, list, overlap, ret, out>>

\* Mutant: a shared lock.
FlockShared(p) ==
    /\ pc[p] = "opened"
    /\ pc' = [pc EXCEPT ![p] = "inside"]
    /\ UNCHANGED <<flash, path, cmd, tmp, list, file, overlap, ret, out>>

\* part_lock: flock(LOCK_EX)
Flock(p) ==
    /\ pc[p] = "opened"
    /\ \A q \in Procs \ {p} : pc[q] \in Held => file[q] # file[p]
    /\ pc' = [pc EXCEPT ![p] = "inside"]
    /\ UNCHANGED <<flash, path, cmd, tmp, list, file, overlap, ret, out>>

\* part_lock returns errno, __part_block_new looks for err < 0: the command
\* goes on without a lock
LockFails(p) ==
    /\ "lock" \in Faults
    /\ pc[p] \in {"copied", "opened"}
    /\ file' = [file EXCEPT ![p] = 0]
    /\ pc' = [pc EXCEPT ![p] = "inside"]
    /\ UNCHANGED <<flash, path, cmd, tmp, list, overlap, ret, out>>

\* block->list, PART_DIRTY and the answer after the command's own function
result(items, dirty, answer) == [list |-> items, dirty |-> dirty, ret |-> answer]

\* Mutant: a variable that is to be updated and does not exist is a bad flag.
createBadFlag(items, k, v, create, update) ==
    LET i == part_var_find(items, k)
    IN  IF i # 0 /\ update THEN result([items EXCEPT ![i].v = v], TRUE, "ok")
        ELSE IF create THEN result(Append(items, [k |-> k, v |-> v]), TRUE, "ok")
        ELSE result(items, FALSE, "einval")

\* Mutant: an existing variable is created again.
createTwice(items, k, v, create, update) ==
    LET i == part_var_find(items, k)
    IN  IF i # 0 /\ update THEN result([items EXCEPT ![i].v = v], TRUE, "ok")
        ELSE IF create THEN result(Append(items, [k |-> k, v |-> v]), TRUE, "ok")
        ELSE result(items, FALSE, "noexist")

\* Mutant: inserting an item starts a new list.
createAlone(items, k, v, create, update) ==
    LET i == part_var_find(items, k)
    IN  IF i # 0
        THEN IF update THEN result([items EXCEPT ![i].v = v], TRUE, "ok")
                       ELSE result(items, FALSE, "exist")
        ELSE IF create THEN result(<<[k |-> k, v |-> v]>>, TRUE, "ok")
                       ELSE result(items, FALSE, "noexist")

__part_var_create(items, k, v, create, update) ==
    LET i == part_var_find(items, k)
    IN  IF i # 0
        THEN IF update THEN result([items EXCEPT ![i].v = v], TRUE, "ok")
                       ELSE result(items, FALSE, "exist")
        ELSE IF create THEN result(Append(items, [k |-> k, v |-> v]), TRUE, "ok")
                       ELSE result(items, FALSE, "noexist")

\* Mutant: a deletion does not make the block dirty.
deleteClean(items, k) ==
    LET i == part_var_find(items, k)
    IN  IF i = 0 THEN result(items, FALSE, "noexist")
                 ELSE result(RemoveAt(items, i), FALSE, "ok")

part_var_delete(items, k) ==
    LET i == part_var_find(items, k)
    IN  IF i = 0 THEN result(items, FALSE, "noexist")
                 ELSE result(RemoveAt(items, i), TRUE, "ok")

part_var_delete_byname_prefix(items, n) ==
    LET rest == kept(items, [k : Names \ Prefixed[n], v : Values])
    IN  result(rest, rest # items, "ok")

part_var_show(items, k) ==
    result(items, FALSE, IF part_var_find(items, k) = 0 THEN "noexist" ELSE "ok")

\* The command's own function.
perform(c, items) ==
    CASE c.op = "show" -> part_var_show(items, c.k)
      [] c.op = "new" -> __part_var_create(items, c.k, c.v, TRUE, TRUE)
      [] c.op = "create" -> __part_var_create(items, c.k, c.v, TRUE, FALSE)
      [] c.op = "update" -> __part_var_create(items, c.k, c.v, FALSE, TRUE)
      [] c.op = "delete" -> part_var_delete(items, c.k)
      [] c.op = "delprefix" -> part_var_delete_byname_prefix(items, c.k)

\* part_block_init and the command.  -load reads the file into the cache,
\* where part_line_wirte overwrites it, and leaves the list empty, like
\* -empty; it answers ok even if the file could not be read, since
\* part_human_read returns a positive errno.
execute(c, image) ==
    IF c.op = "crc" THEN result(<<>>, FALSE, "ok")
    ELSE IF c.op \in {"empty", "load"} THEN result(<<>>, TRUE, "ok")
    ELSE IF image = Torn THEN result(<<>>, FALSE, "badcrc")
    ELSE perform(c, part_line_read(image))

Apply(p) ==
    LET r == execute(cmd[p], tmp[p])
    IN  /\ pc[p] = "inside"
        /\ pc' = [pc EXCEPT ![p] = IF r.dirty THEN "flush" ELSE "flushed"]
        /\ list' = [list EXCEPT ![p] = r.list]
        /\ ret' = [ret EXCEPT ![p] = r.ret]
        /\ out' = [out EXCEPT ![p] =
                     IF cmd[p].op = "show" /\ r.ret = "ok"
                     THEN Content(tmp[p])[cmd[p].k] ELSE None]
        /\ UNCHANGED <<flash, path, cmd, tmp, file, overlap>>

\* part_block_flush, tmp_2_mtd: mtd erases and writes block by block
WriteBegin(p) ==
    /\ pc[p] = "flush"
    /\ pc' = [pc EXCEPT ![p] = "writing"]
    /\ flash' = Torn
    /\ LET writers == {q \in Procs : pc[q] = "writing"}
       IN  overlap' = [q \in Procs |-> IF q = p THEN writers # {}
                                       ELSE overlap[q] \/ q \in writers]
    /\ UNCHANGED <<path, cmd, tmp, list, file, ret, out>>

WriteEnd(p) ==
    /\ pc[p] = "writing"
    /\ pc' = [pc EXCEPT ![p] = "flushed"]
    /\ flash' \in {part_line_wirte(list[p])} \cup (IF overlap[p] THEN {Torn} ELSE {})
    /\ overlap' = [overlap EXCEPT ![p] = FALSE]
    /\ UNCHANGED <<path, cmd, tmp, list, file, ret, out>>

\* the exit code of mtd is not looked at
WriteFails(p) ==
    /\ "write" \in Faults
    /\ pc[p] = "flush"
    /\ pc' = [pc EXCEPT ![p] = "flushed"]
    /\ flash' \in {flash, Torn}
    /\ UNCHANGED <<path, cmd, tmp, list, file, overlap, ret, out>>

\* part_block_free: the list is freed; part_unlock: LOCK_UN and close
Unlock(p) ==
    /\ pc[p] = "flushed"
    /\ pc' = [pc EXCEPT ![p] = "unlocked"]
    /\ file' = [file EXCEPT ![p] = 0]
    /\ list' = [list EXCEPT ![p] = <<>>]
    /\ UNCHANGED <<flash, path, cmd, tmp, overlap, ret, out>>

\* Mutant: the lock file is left in place.
UnlinkNot(p) ==
    /\ pc[p] = "unlocked"
    /\ pc' = [pc EXCEPT ![p] = "done"]
    /\ tmp' = [tmp EXCEPT ![p] = <<>>]
    /\ UNCHANGED <<flash, path, cmd, list, file, overlap, ret, out>>

\* part_unlock: unlink, whatever file the name stands for by now; then
\* part_clean removes the copy
Unlink(p) ==
    /\ pc[p] = "unlocked"
    /\ pc' = [pc EXCEPT ![p] = "done"]
    /\ path' = 0
    /\ tmp' = [tmp EXCEPT ![p] = <<>>]
    /\ UNCHANGED <<flash, cmd, list, file, overlap, ret, out>>

\* /var/run is in memory
PowerLoss ==
    /\ "power" \in Faults
    /\ path' = 0
    /\ pc' = [p \in Procs |-> "idle"]
    /\ cmd' = [p \in Procs |-> NoCommand]
    /\ tmp' = [p \in Procs |-> <<>>]
    /\ list' = [p \in Procs |-> <<>>]
    /\ file' = [p \in Procs |-> 0]
    /\ overlap' = [p \in Procs |-> FALSE]
    /\ ret' = [p \in Procs |-> "ok"]
    /\ out' = [p \in Procs |-> None]
    /\ UNCHANGED flash

Step(p) ==
    \/ Open(p) \/ Flock(p) \/ LockFails(p) \/ Apply(p)
    \/ WriteBegin(p) \/ WriteEnd(p) \/ WriteFails(p) \/ Unlock(p) \/ Unlink(p)

Next ==
    \/ \E p \in Procs, c \in Command : mtd_2_tmp(p, c) \/ CopyFails(p, c)
    \/ \E p \in Procs : Step(p)
    \/ PowerLoss

Spec == Init /\ [][Next]_vars

\* A command that is started is run by the scheduler.
FairSpec == Spec /\ \A p \in Procs : WF_vars(Step(p))

-----------------------------------------------------------------------------
Image == Seq(Line) \cup {Torn}

\* The types of the state.
TypeOK ==
    /\ flash \in Image
    /\ path \in Nat
    /\ pc \in [Procs -> Held \cup {"idle", "copied", "opened", "unlocked", "done"}]
    /\ cmd \in [Procs -> Command \cup {NoCommand}]
    /\ tmp \in [Procs -> Image]
    /\ list \in [Procs -> Seq(Line)]
    /\ file \in [Procs -> Nat]
    /\ overlap \in [Procs -> BOOLEAN]
    /\ ret \in [Procs -> {"ok", "error", "exist", "noexist", "badcrc"}]
    /\ out \in [Procs -> Values \cup {None}]

\* No name is on two lines of the partition, whatever commands overlap: an
\* image is always made from one earlier image.
NamesUnique ==
    flash # Torn => \A i, j \in DOMAIN flash : flash[i].k = flash[j].k => i = j

\* Two commands can be between part_lock and part_unlock together only if
\* one of them holds a lock file that was unlinked under it.
LockPerFile ==
    \A p, q \in Procs :
        p # q /\ {pc[p], pc[q]} \subseteq Held => file[p] # path \/ file[q] # path

\* A command that answers "exist" or "not exist" is right, and the partition
\* is what an answer ok stands for.  That is what the command's help text
\* says, save for -load: "load file(human readable) to mtd" (partool.c:766 of
\* the application), after which no variable is left.  -crc answers with two
\* numbers and makes no claim about the variables.  Meant for commands that
\* do not overlap.
AnswerIsTrue ==
    \A p \in Procs :
        /\ pc[p] = "done" /\ ret[p] \notin {"error", "badcrc"}
        /\ cmd[p].op # "crc"
        => LET c == cmd[p]
               now == Content(flash)
           IN  /\ now # Torn
               /\ ret[p] = "exist" => now[c.k] # None
               /\ ret[p] = "noexist" => now[c.k] = None
               /\ ret[p] = "ok" =>
                    CASE c.op \in {"new", "create", "update"} -> now[c.k] = c.v
                      [] c.op = "delete" -> now[c.k] = None
                      [] c.op = "delprefix" -> \A k \in Prefixed[c.k] : now[k] = None
                      [] c.op \in {"empty", "load"} -> \A k \in Names : now[k] = None
                      [] c.op = "show" -> now[c.k] = out[p] /\ out[p] # None

\* "@read: in this callback, you should do below (1) partition==>tmp
\* buf/file": what a command reads under the lock is the partition.
ReadIsPartition == \A p \in Procs : pc[p] = "inside" => tmp[p] = flash

\* While a command writes, the store is what the command copied.
StoreNow ==
    IF \E p \in Procs : pc[p] = "writing"
    THEN Content(tmp[CHOOSE p \in Procs : pc[p] = "writing"])
    ELSE Content(flash)

\* A command has changed its list and has not yet written it.
Changing == \E p \in Procs : pc[p] \in {"flush", "writing"}

kv == INSTANCE KvStore WITH store <- StoreNow, pending <- Changing

\* Commands that do not overlap, and power losses at any of their steps,
\* implement the store of variables: every command is all or nothing, except
\* that a power loss during its write damages the partition; at no other
\* moment is it damaged or changed.
IsStore == kv!KvSpec

\* A command that has copied the partition ends: nobody waits for ever for
\* the lock.
EveryCommandEnds ==
    \A p \in Procs : pc[p] = "copied" ~> pc[p] \in {"done", "idle"}
==============================================================================
