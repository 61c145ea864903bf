------------------------------- MODULE AppKey -------------------------------
(***************************************************************************)
(* appkey, the settings of all autelan programs in one table in shared     *)
(* memory (autelan-lib/src/appkey/appkey.c).  Every process attaches the   *)
(* table when its libraries are initialised; the first one fills it from   *)
(* the files in /etc/appkey, and "appkey -reload" reads them again.  There *)
(* is no lock: each access of a load to the table is a step of its own.    *)
(* Four things that read or write several words are one step: the search   *)
(* for a name, the test of the count against the limit, the copy of an     *)
(* entry's two names, and the check and use of an id in appkey_set.        *)
(*                                                                         *)
(* The files are a sequence of lines; one that cannot be opened is a line, *)
(* too.                                                                    *)
(***************************************************************************)
EXTENDS Integers, Sequences

CONSTANTS
    Proc,       \* processes
    Key,        \* names of keys, each with the app it belongs to
    Value,
    NoName,     \* the name of an entry nobody has filled
    Limit,      \* entries the table has (APPKEY_LIMIT: 1023)
    Past,       \* bound: entries behind the table that are followed
    Contents,   \* contents /etc/appkey may have
    HdrSize,    \* sizeof(struct appkey_hdr) (16)
    KeySize,    \* sizeof(struct appkey) (68)
    OffsetMod   \* an offset is an unsigned short (2^16)

KeyLine == [kind : {"key"}, key : Key, value : Value]

ASSUME LimitAssumption == Limit \in Nat /\ Past \in Nat
ASSUME SizeAssumption == HdrSize \in Nat \ {0} /\ KeySize \in Nat \ {0} /\ OffsetMod \in Nat \ {0}
ASSUME HdrAssumption == HdrSize < OffsetMod
ASSUME NoNameAssumption == NoName \notin Key
ASSUME ValueAssumption == 0 \in Value
ASSUME ContentsAssumption == Contents \subseteq Seq(KeyLine \cup [kind : {"bad", "unreadable"}])

VARIABLES
    inited, limit, count, keys,  \* the table
    pc,     \* where each process is: "off", "check", "claim", "limit", "line",
            \* "new", "idx", "store", "name", "value" (loading), "ready"
    frame,  \* its local variables: the line a load is at, its key line, its entry
    akid,   \* the ids each process has looked up
    files,  \* the contents of /etc/appkey
    (***********************************************************************)
    (* History, read by no action's guard:                                 *)
    (***********************************************************************)
    alone,  \* no two processes have ever loaded at the same time
    calm    \* nothing else changed files or values during the last load

tableVars == <<inited, limit, count, keys>>
vars == <<tableVars, pc, frame, akid, files, alone, calm>>

Idx == 0..(Limit + Past - 1)
Busy == {"claim", "limit", "line", "new", "idx", "store", "name", "value"}

\* getoffset
Offset(i) == HdrSize + i * KeySize

\* ak_make keeps 16 bits of the offset
ak_make(i) == [idx |-> i, offset |-> Offset(i) % OffsetMod]

INVALID_APPKEY == [idx |-> 0, offset |-> 0]

NoLine == [kind |-> "none"]
NoFrame == [line |-> 1, info |-> NoLine, at |-> 0]
NoId == [k \in Key |-> INVALID_APPKEY]

\* The entries named k, and the set of the first of them (or of none: NULL).
named(k) == {i \in Idx : i < count /\ keys[i].name = k}
getbyname(k) == {i \in named(k) : \A j \in named(k) : i <= j}

\* does the id denote an entry: its index is in use and its offset that entry's
getbyid(id) == id.idx < count /\ id.offset = Offset(id.idx)

Init ==
    /\ inited = FALSE /\ limit = 0 /\ count = 0
    /\ keys = [i \in Idx |-> [name |-> NoName, value |-> 0]]
    /\ pc = [p \in Proc |-> "off"]
    /\ frame = [p \in Proc |-> NoFrame]
    /\ akid = [p \in Proc |-> NoId]
    /\ files \in Contents
    /\ alone = TRUE /\ calm = TRUE

\* p goes on at s with its local variables f.
Goto(p, s, f) ==
    /\ pc' = [pc EXCEPT ![p] = s]
    /\ frame' = [frame EXCEPT ![p] = f]
    /\ alone' = (alone /\ \A q \in Proc \ {p} : s \in Busy => pc[q] \notin Busy)

-----------------------------------------------------------------------------
\* os_constructor __init: the table is attached ...
Attach(p) ==
    /\ pc[p] = "off"
    /\ Goto(p, "check", NoFrame)
    /\ UNCHANGED <<tableVars, akid, files, calm>>

\* ... and init() asks whether somebody has filled it, or is about to
init(p) ==
    /\ pc[p] = "check"
    /\ Goto(p, IF inited THEN "ready" ELSE "claim", NoFrame)
    /\ UNCHANGED <<tableVars, akid, files, calm>>

Claim(p) ==
    /\ pc[p] = "claim"
    /\ inited' = TRUE
    /\ Goto(p, "limit", NoFrame)
    /\ UNCHANGED <<limit, count, keys, akid, files, calm>>

\* load() starts.
Begin(p) ==
    /\ Goto(p, "line", NoFrame)
    /\ calm' = TRUE
    /\ UNCHANGED <<inited, count, keys, akid, files>>

\* Mutant: the end mark counts as an entry.
SetLimitPast(p) ==
    /\ pc[p] = "limit"
    /\ limit' = Limit + 1
    /\ Begin(p)

SetLimit(p) ==
    /\ pc[p] = "limit"
    /\ limit' = Limit
    /\ Begin(p)

\* Mutant: a reload starts from an empty table.
appkey_reloadClears(p) ==
    /\ pc[p] = "ready"
    /\ Goto(p, "line", NoFrame)
    /\ calm' = TRUE
    /\ count' = 0
    /\ UNCHANGED <<inited, limit, keys, akid, files>>

\* appkey_reload
appkey_reload(p) ==
    /\ pc[p] = "ready"
    /\ Begin(p)
    /\ UNCHANGED limit

NextLine(p) == Goto(p, "line", [frame[p] EXCEPT !.line = @ + 1])

Return(p) == Goto(p, "ready", NoFrame)

\* The line p is at.
current(p) == files[frame[p].line]

AtLine(p, kinds) ==
    /\ pc[p] = "line" /\ frame[p].line <= Len(files)
    /\ current(p).kind \in kinds
    /\ UNCHANGED <<tableVars, akid, files, calm>>

\* Mutant: a bad line ends the load.
SkipLineBreaks(p) == AtLine(p, {"bad", "unreadable"}) /\ Return(p)

\* A line that is not a key's is skipped; whether the load goes on after a
\* file that cannot be opened depends on an uninitialised variable.
SkipLine(p) ==
    \/ AtLine(p, {"bad", "unreadable"}) /\ NextLine(p)
    \/ AtLine(p, {"unreadable"}) /\ Return(p)

\* The line is p's info, and i the entry it works on.
WorkOn(p, s, i) == Goto(p, s, [frame[p] EXCEPT !.info = current(p), !.at = i])

\* Mutant: a known key is entered again.
load_lineNew(p) == AtLine(p, {"key"}) /\ WorkOn(p, "new", 0)

\* load_line: a known key gets its value, a new one an entry
load_line(p) ==
    /\ AtLine(p, {"key"})
    /\ \/ \E i \in getbyname(current(p).key) : WorkOn(p, "value", i)
       \/ named(current(p).key) = {} /\ WorkOn(p, "new", 0)

\* Mutant: the last entry is taken twice.
ak_newPast(p) ==
    /\ pc[p] = "new"
    /\ \/ count <= limit /\ Goto(p, "idx", frame[p])
       \/ count > limit /\ Return(p)
    /\ UNCHANGED <<tableVars, akid, files, calm>>

\* ak_new asks whether there is room; a full table ends the load, ...
ak_new(p) ==
    /\ pc[p] = "new"
    /\ \/ count < limit /\ Goto(p, "idx", frame[p])
       \/ count >= limit /\ Return(p)
    /\ UNCHANGED <<tableVars, akid, files, calm>>

\* ... reads the count again (ak_count++), which may be beyond the limit now, ...
ReadCount(p) ==
    /\ pc[p] = "idx" /\ count \in Idx
    /\ Goto(p, "store", [frame[p] EXCEPT !.at = count])
    /\ UNCHANGED <<tableVars, akid, files, calm>>

\* ... stores it plus one, ...
StoreCount(p) ==
    /\ pc[p] = "store"
    /\ count' = frame[p].at + 1
    /\ Goto(p, "name", frame[p])
    /\ UNCHANGED <<inited, limit, keys, akid, files, calm>>

\* ... and copies the names
CopyName(p) ==
    /\ pc[p] = "name"
    /\ keys' = [keys EXCEPT ![frame[p].at].name = frame[p].info.key]
    /\ Goto(p, "value", frame[p])
    /\ UNCHANGED <<inited, limit, count, akid, files, calm>>

SetValue(p) ==
    /\ pc[p] = "value"
    /\ keys' = [keys EXCEPT ![frame[p].at].value = frame[p].info.value]
    /\ NextLine(p)
    /\ UNCHANGED <<inited, limit, count, akid, files, calm>>

LoadEnds(p) ==
    /\ pc[p] = "line" /\ frame[p].line > Len(files)
    /\ Return(p)
    /\ UNCHANGED <<tableVars, akid, files, calm>>

-----------------------------------------------------------------------------
\* __appkey_getbyname; programs keep the id
appkey_getbyname(p, k) ==
    /\ pc[p] = "ready"
    /\ \/ \E i \in getbyname(k) : akid' = [akid EXCEPT ![p][k] = ak_make(i)]
       \/ named(k) = {} /\ akid' = [akid EXCEPT ![p][k] = INVALID_APPKEY]
    /\ UNCHANGED <<tableVars, pc, frame, files, alone, calm>>

\* appkey_set, of an id that denotes an entry
appkey_set(p, k, v) ==
    /\ pc[p] = "ready" /\ getbyid(akid[p][k])
    /\ keys' = [keys EXCEPT ![akid[p][k].idx].value = v]
    /\ calm' = FALSE
    /\ UNCHANGED <<inited, limit, count, pc, frame, akid, files, alone>>

\* The process ends, wherever it is (external); the table stays.
Kill(p) ==
    /\ pc[p] # "off"
    /\ Goto(p, "off", NoFrame)
    /\ akid' = [akid EXCEPT ![p] = NoId]
    /\ UNCHANGED <<tableVars, files, calm>>

\* Somebody edits the files (external).
Edit ==
    /\ \E c \in Contents \ {files} : files' = c
    /\ calm' = FALSE
    /\ UNCHANGED <<tableVars, pc, frame, akid, alone>>

Load(p) ==
    \/ Claim(p) \/ SetLimit(p) \/ SkipLine(p) \/ load_line(p)
    \/ ak_new(p) \/ ReadCount(p) \/ StoreCount(p) \/ CopyName(p) \/ SetValue(p) \/ LoadEnds(p)

Use(p) ==
    \/ appkey_reload(p)
    \/ \E k \in Key : appkey_getbyname(p, k)
    \/ \E k \in Key, v \in Value : appkey_set(p, k, v)

Next ==
    \/ \E p \in Proc : Attach(p) \/ init(p) \/ Load(p) \/ Use(p) \/ Kill(p)
    \/ Edit

Spec == Init /\ [][Next]_vars

-----------------------------------------------------------------------------
\* The types of the state; with loads that overlap the count may pass the
\* limit, as far as the model follows it.
TypeOK ==
    /\ inited \in BOOLEAN /\ limit \in {0, Limit} /\ count \in 0..(Limit + Past)
    /\ keys \in [Idx -> [name : Key \cup {NoName}, value : Value]]
    /\ pc \in [Proc -> Busy \cup {"off", "check", "ready"}]
    /\ frame \in [Proc -> [line : Nat \ {0}, info : KeyLine \cup {NoLine}, at : Nat]]
    /\ akid \in [Proc -> [Key -> [idx : Nat, offset : Nat]]]
    /\ files \in Contents
    /\ alone \in BOOLEAN /\ calm \in BOOLEAN

\* As long as loads do not overlap, an id denotes the key it was looked up
\* for or, if the entry lies beyond what 16 bits can address, nothing: not
\* another key, and not nothing for other reasons, whatever is reloaded,
\* edited or killed in between.
IdKeepsItsKey ==
    alone =>
        \A p \in Proc, k \in Key :
            LET id == akid[p][k]
            IN  IF getbyid(id) THEN keys[id.idx].name = k
                ELSE id = INVALID_APPKEY \/ Offset(id.idx) >= OffsetMod

\* As long as loads do not overlap the table stays in its memory, whatever is
\* reloaded, edited or killed (ak_new).
WithinTable == alone => count <= Limit

\* As long as loads do not overlap no key is in the table twice.
NamesUnique ==
    alone =>
        \A i, j \in Idx :
            i < count /\ j < count /\ keys[i].name = keys[j].name /\ keys[i].name # NoName => i = j

\* The lines of k, and what they set it to.
LinesOf(k) == {n \in 1..Len(files) : files[n].kind = "key" /\ files[n].key = k}
Wanted(k) == files[CHOOSE n \in LinesOf(k) : \A m \in LinesOf(k) : m <= n].value

Applied ==
    \A k \in Key : LinesOf(k) # {} =>
        \E i \in Idx : i < count /\ keys[i].name = k /\ keys[i].value = Wanted(k)

\* A load that nothing disturbed leaves every key of the files in the table
\* with the value of its last line, unless the table is full (as it is for
\* good when its first loader was killed before it set the limit) or a file
\* could not be opened, and whatever an earlier load that was killed has left.
LoadApplies ==
    [][\A p \in Proc :
         pc[p] \in Busy \ {"claim"} /\ pc'[p] = "ready" /\ alone /\ calm =>
            Applied' \/ count >= limit \/ \E n \in 1..Len(files) : files[n].kind = "unreadable"]_vars
=============================================================================
