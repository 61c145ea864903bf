---------------------------- MODULE AppKeyProofs ----------------------------
(***************************************************************************)
(* The table of keys, for any number of processes, keys, entries and file  *)
(* contents: as long as loads do not overlap, no key is in it twice and an *)
(* id keeps the key it was looked up for, and a load that nothing disturbs *)
(* leaves every key of the files with the value of its last line.          *)
(***************************************************************************)
EXTENDS AppKey, NaturalsInduction, WellFoundedInduction, TLAPS

\* Where a load works on a key line, and on an entry.
Working == {"new", "idx", "store", "name", "value"}
AtEntry == {"store", "name", "value"}

\* A load works on a key line, and on an entry that is followed.
WorkType ==
    \A p \in Proc : /\ pc[p] \in Working => frame[p].info \in KeyLine
                    /\ pc[p] \in AtEntry => frame[p].at \in Idx

\* Only one process loads.
OneLoad == \A p, q \in Proc : pc[p] \in Busy /\ pc[q] \in Busy => p = q

\* The entries that are not in use have no name.
RestEmpty == \A i \in Idx : i >= count => keys[i].name = NoName

\* No entry in use has the name k.
Unnamed(k) == \A i \in Idx : i < count => keys[i].name # k

\* A new key is entered behind the others, before it has a name, and a value
\* goes to the entry of its key.
WorkInPlace ==
    \A p \in Proc :
        /\ pc[p] = "new" => Unnamed(frame[p].info.key)
        /\ pc[p] = "idx" => count < Limit /\ Unnamed(frame[p].info.key)
        /\ pc[p] = "store" => frame[p].at = count /\ count < Limit /\ Unnamed(frame[p].info.key)
        /\ pc[p] = "name" => /\ frame[p].at + 1 = count /\ Unnamed(frame[p].info.key)
                             /\ keys[frame[p].at].name = NoName
        /\ pc[p] = "value" => frame[p].at < count /\ keys[frame[p].at].name = frame[p].info.key

\* Entry i is k's, and its id is id.
IdOf(id, k, i) == i < count /\ keys[i].name = k /\ id = ak_make(i)

\* An id was made for an entry that has been its key's since.
IdsMade ==
    \A p \in Proc, k \in Key : akid[p][k] = INVALID_APPKEY \/ \E i \in Idx : IdOf(akid[p][k], k, i)

\* No key has two of the entries in use.
Distinct ==
    \A i, j \in Idx :
        i < count /\ j < count /\ keys[i].name = keys[j].name /\ keys[i].name # NoName => i = j

\* What holds while loads do not overlap.
Alone == count <= Limit /\ OneLoad /\ RestEmpty /\ WorkInPlace /\ IdsMade /\ Distinct

\* The inductive invariant.
KeyInv == TypeOK /\ WorkType /\ (alone => Alone)

-----------------------------------------------------------------------------
\* An offset that fits in 16 bits is kept as it is.
LEMMA OffsetKept == ASSUME NEW i \in Nat, Offset(i) < OffsetMod PROVE Offset(i) % OffsetMod = Offset(i)
BY SizeAssumption DEF Offset

\* An entry lies behind the header, and an id is an index and an offset.
LEMMA OffsetType ==
    ASSUME NEW i \in Nat
    PROVE  /\ Offset(i) \in Nat /\ Offset(i) >= HdrSize
           /\ ak_make(i) \in [idx : Nat, offset : Nat]
BY SizeAssumption DEF Offset, ak_make

\* A line of kind "key" is a key line.
LEMMA LineType ==
    ASSUME TypeOK, NEW p \in Proc, AtLine(p, {"key"})
    PROVE  current(p) \in KeyLine
<1>1. files \in Seq(KeyLine \cup [kind : {"bad", "unreadable"}]) /\ frame[p].line \in 1..Len(files)
  BY ContentsAssumption DEF TypeOK, AtLine
<1>2. current(p) \in KeyLine \cup [kind : {"bad", "unreadable"}]
  BY <1>1 DEF current
<1>3. current(p).kind = "key"
  BY DEF AtLine
<1> QED BY <1>2, <1>3

\* What a step by p says of the others.
LEMMA GotoAlone ==
    ASSUME NEW p \in Proc, NEW s, NEW f, Goto(p, s, f), alone'
    PROVE  alone /\ \A q \in Proc \ {p} : s \in Busy => pc[q] \notin Busy
BY Zenon DEF Goto

State == Busy \cup {"off", "check", "ready"}
Frame == [line : Nat \ {0}, info : KeyLine \cup {NoLine}, at : Nat]

\* A step by p leaves the types of pc and frame, and what it works on.
LEMMA GotoType ==
    ASSUME TypeOK, WorkType, NEW p \in Proc, NEW s \in State, NEW f \in Frame, Goto(p, s, f),
           s \in Working => f.info \in KeyLine, s \in AtEntry => f.at \in Idx
    PROVE  pc' \in [Proc -> State] /\ frame' \in [Proc -> Frame] /\ alone' \in BOOLEAN /\ WorkType'
<1>1. pc' \in [Proc -> State] /\ frame' \in [Proc -> Frame]
  BY DEF TypeOK, Goto, State, Frame
<1>2. alone' \in BOOLEAN
  BY Zenon DEF Goto
<1>3. WorkType'
  BY DEF TypeOK, WorkType, Goto
<1> QED BY <1>1, <1>2, <1>3

\* A load that has not begun is well typed.
LEMMA NoFrameType == NoFrame \in Frame
BY DEF NoFrame, Frame, NoLine

\* A load that goes on to the next line is, too.
LEMMA NextFrameType ==
    ASSUME TypeOK, NEW p \in Proc
    PROVE  [frame[p] EXCEPT !.line = @ + 1] \in Frame
<1>1. frame[p] \in Frame
  BY DEF TypeOK, Frame
<1>2. frame[p].line + 1 \in Nat \ {0}
  BY <1>1 DEF Frame
<1> QED BY <1>1, <1>2 DEF Frame

\* Types are kept by every step.
LEMMA TypeKeeps == ASSUME TypeOK, WorkType, Next PROVE TypeOK' /\ WorkType'
<1> USE LimitAssumption DEF State, Frame, tableVars, Working, AtEntry
<1>1. ASSUME NEW p \in Proc, Attach(p) \/ init(p) \/ LoadEnds(p) PROVE TypeOK' /\ WorkType'
  <2>1. \E s \in {"check", "ready", "claim"} : Goto(p, s, NoFrame)
    BY <1>1 DEF Attach, init, LoadEnds, Return
  <2>2. pc' \in [Proc -> State] /\ frame' \in [Proc -> Frame] /\ alone' \in BOOLEAN /\ WorkType'
    BY <2>1, GotoType, NoFrameType DEF Busy
  <2> QED BY <1>1, <2>2 DEF Attach, init, LoadEnds, TypeOK
<1>2. ASSUME NEW p \in Proc, Claim(p) PROVE TypeOK' /\ WorkType'
  <2>1. pc' \in [Proc -> State] /\ frame' \in [Proc -> Frame] /\ alone' \in BOOLEAN /\ WorkType'
    BY <1>2, GotoType, NoFrameType DEF Claim, Busy
  <2>2. inited' \in BOOLEAN
    BY <1>2, Zenon DEF Claim
  <2> QED BY <1>2, <2>1, <2>2 DEF Claim, TypeOK
<1>3. ASSUME NEW p \in Proc, SetLimit(p) \/ appkey_reload(p) PROVE TypeOK' /\ WorkType'
  <2>1. pc' \in [Proc -> State] /\ frame' \in [Proc -> Frame] /\ alone' \in BOOLEAN /\ WorkType'
    BY <1>3, GotoType, NoFrameType DEF SetLimit, appkey_reload, Begin, Busy
  <2>2. calm' \in BOOLEAN
    BY <1>3, Zenon DEF SetLimit, appkey_reload, Begin
  <2> QED BY <1>3, <2>1, <2>2 DEF SetLimit, appkey_reload, Begin, TypeOK
<1>4. ASSUME NEW p \in Proc, SkipLine(p) PROVE TypeOK' /\ WorkType'
  <2>1. \E s \in {"line", "ready"}, f \in Frame : Goto(p, s, f)
    BY <1>4, NoFrameType, NextFrameType DEF SkipLine, NextLine, Return
  <2>2. pc' \in [Proc -> State] /\ frame' \in [Proc -> Frame] /\ alone' \in BOOLEAN /\ WorkType'
    BY <2>1, GotoType DEF Busy
  <2> QED BY <1>4, <2>2 DEF SkipLine, AtLine, TypeOK
<1>5. ASSUME NEW p \in Proc, load_line(p) PROVE TypeOK' /\ WorkType'
  <2>1. current(p) \in KeyLine
    BY <1>5, LineType DEF load_line
  <2>2. pc' \in [Proc -> State] /\ frame' \in [Proc -> Frame] /\ alone' \in BOOLEAN /\ WorkType'
    <3>1. ASSUME NEW i \in getbyname(current(p).key), WorkOn(p, "value", i)
          PROVE  pc' \in [Proc -> State] /\ frame' \in [Proc -> Frame] /\ alone' \in BOOLEAN /\ WorkType'
      <4>1. i \in Idx /\ i \in Nat
        BY <3>1 DEF getbyname, named, Idx
      <4>2. [frame[p] EXCEPT !.info = current(p), !.at = i] \in Frame
        BY <2>1, <4>1 DEF TypeOK
      <4> QED BY <2>1, <3>1, <4>1, <4>2, GotoType DEF WorkOn, Busy, TypeOK
    <3>2. CASE WorkOn(p, "new", 0)
      <4>1. [frame[p] EXCEPT !.info = current(p), !.at = 0] \in Frame
        BY <2>1 DEF TypeOK
      <4> QED BY <2>1, <3>2, <4>1, GotoType DEF WorkOn, Busy, TypeOK
    <3> QED BY <1>5, <3>1, <3>2 DEF load_line
  <2> QED BY <1>5, <2>2 DEF load_line, AtLine, TypeOK
<1>13. ASSUME NEW p \in Proc, ak_new(p) \/ ReadCount(p) PROVE TypeOK' /\ WorkType'
  <2>1. frame[p] \in Frame /\ frame[p].info \in KeyLine /\ count \in Nat
    BY <1>13 DEF ak_new, ReadCount, WorkType, TypeOK
  <2>2. pc' \in [Proc -> State] /\ frame' \in [Proc -> Frame] /\ alone' \in BOOLEAN /\ WorkType'
    <3>1. CASE Goto(p, "idx", frame[p])
      BY <2>1, <3>1, GotoType DEF Busy
    <3>2. CASE Return(p)
      BY <3>2, GotoType, NoFrameType DEF Return
    <3>3. CASE count \in Idx /\ Goto(p, "store", [frame[p] EXCEPT !.at = count])
      <4>1. /\ [frame[p] EXCEPT !.at = count] \in Frame
            /\ [frame[p] EXCEPT !.at = count].info \in KeyLine
            /\ [frame[p] EXCEPT !.at = count].at \in Idx
        BY <2>1, <3>3
      <4> QED BY <3>3, <4>1, GotoType DEF Busy
    <3> QED BY <1>13, <3>1, <3>2, <3>3 DEF ak_new, ReadCount
  <2> QED BY <1>13, <2>2 DEF ak_new, ReadCount, TypeOK
<1>6. ASSUME NEW p \in Proc, StoreCount(p) PROVE TypeOK' /\ WorkType'
  <2>1. pc' \in [Proc -> State] /\ frame' \in [Proc -> Frame] /\ alone' \in BOOLEAN /\ WorkType'
    BY <1>6, GotoType DEF StoreCount, Busy, WorkType, TypeOK
  <2>2. count' \in 0..(Limit + Past)
    BY <1>6 DEF StoreCount, WorkType, Idx
  <2> QED BY <1>6, <2>1, <2>2 DEF StoreCount, TypeOK
<1>7. ASSUME NEW p \in Proc, CopyName(p) PROVE TypeOK' /\ WorkType'
  <2>1. pc' \in [Proc -> State] /\ frame' \in [Proc -> Frame] /\ alone' \in BOOLEAN /\ WorkType'
    BY <1>7, GotoType DEF CopyName, Busy, WorkType, TypeOK
  <2>2. keys' \in [Idx -> [name : Key \cup {NoName}, value : Value]]
    BY <1>7 DEF CopyName, WorkType, TypeOK, KeyLine
  <2> QED BY <1>7, <2>1, <2>2 DEF CopyName, TypeOK
<1>8. ASSUME NEW p \in Proc, SetValue(p) PROVE TypeOK' /\ WorkType'
  <2>1. pc' \in [Proc -> State] /\ frame' \in [Proc -> Frame] /\ alone' \in BOOLEAN /\ WorkType'
    BY <1>8, NextFrameType, GotoType DEF SetValue, NextLine, Busy
  <2>2. keys' \in [Idx -> [name : Key \cup {NoName}, value : Value]]
    BY <1>8 DEF SetValue, WorkType, TypeOK, KeyLine
  <2> QED BY <1>8, <2>1, <2>2 DEF SetValue, TypeOK
<1>9. ASSUME NEW p \in Proc, NEW k \in Key, appkey_getbyname(p, k) PROVE TypeOK' /\ WorkType'
  <2>1. \A i \in getbyname(k) : ak_make(i) \in [idx : Nat, offset : Nat]
    BY OffsetType DEF getbyname, named, Idx
  <2>2. INVALID_APPKEY \in [idx : Nat, offset : Nat]
    BY DEF INVALID_APPKEY
  <2>3. PICK id \in [idx : Nat, offset : Nat] : akid' = [akid EXCEPT ![p][k] = id]
    BY <1>9, <2>1, <2>2 DEF appkey_getbyname
  <2>4. akid' \in [Proc -> [Key -> [idx : Nat, offset : Nat]]]
    BY <2>3 DEF TypeOK
  <2> QED BY <1>9, <2>4 DEF appkey_getbyname, TypeOK, WorkType
<1>10. ASSUME NEW p \in Proc, NEW k \in Key, NEW v \in Value, appkey_set(p, k, v) PROVE TypeOK' /\ WorkType'
  <2>1. calm' \in BOOLEAN
    BY <1>10, Zenon DEF appkey_set
  <2>2. keys' \in [Idx -> [name : Key \cup {NoName}, value : Value]]
    BY <1>10 DEF appkey_set, TypeOK
  <2> QED BY <1>10, <2>1, <2>2 DEF appkey_set, TypeOK, WorkType
<1>11. ASSUME NEW p \in Proc, Kill(p) PROVE TypeOK' /\ WorkType'
  <2>1. pc' \in [Proc -> State] /\ frame' \in [Proc -> Frame] /\ alone' \in BOOLEAN /\ WorkType'
    BY <1>11, GotoType, NoFrameType DEF Kill
  <2>2. akid' \in [Proc -> [Key -> [idx : Nat, offset : Nat]]]
    BY <1>11 DEF Kill, TypeOK, NoId, INVALID_APPKEY
  <2> QED BY <1>11, <2>1, <2>2 DEF Kill, TypeOK
<1>12. ASSUME Edit PROVE TypeOK' /\ WorkType'
  <2>1. calm' \in BOOLEAN
    BY <1>12, Zenon DEF Edit
  <2> QED BY <1>12, <2>1 DEF Edit, TypeOK, WorkType
<1> QED BY <1>1, <1>2, <1>3, <1>4, <1>5, <1>6, <1>7, <1>8, <1>9, <1>10, <1>11, <1>12, <1>13 DEF Next, Load, Use

-----------------------------------------------------------------------------
\* A step that leaves the others alone leaves at most one load.
LEMMA GotoOne ==
    ASSUME TypeOK, OneLoad, NEW p \in Proc, NEW s, NEW f, Goto(p, s, f), alone'
    PROVE  OneLoad'
<1>1. \A q \in Proc \ {p} : s \in Busy => pc[q] \notin Busy
  BY GotoAlone
<1>2. pc'[p] = s /\ \A q \in Proc \ {p} : pc'[q] = pc[q] /\ frame'[q] = frame[q]
  BY DEF Goto, TypeOK
<1> QED BY <1>1, <1>2 DEF OneLoad

\* A step that changes neither the table nor the ids, except that it may
\* forget all ids of a process, and works on no entry.
LEMMA QuietKeeps ==
    ASSUME TypeOK, Alone, alone', NEW p \in Proc, NEW s \in State \ Working, NEW f,
           Goto(p, s, f), UNCHANGED <<count, keys>>,
           UNCHANGED akid \/ akid' = [akid EXCEPT ![p] = NoId]
    PROVE  Alone'
<1>1. OneLoad' /\ pc'[p] = s /\ \A q \in Proc \ {p} : pc'[q] = pc[q] /\ frame'[q] = frame[q]
  BY GotoOne DEF Goto, TypeOK, Alone
<1>2. WorkInPlace'
  BY <1>1 DEF WorkInPlace, Unnamed, Alone, Working
<1>3. \A q \in Proc, k \in Key : akid'[q][k] = akid[q][k] \/ akid'[q][k] = INVALID_APPKEY
  <2>1. CASE UNCHANGED akid
    BY <2>1
  <2>2. CASE akid' = [akid EXCEPT ![p] = NoId]
    <3>1. \A q \in Proc : akid'[q] = akid[q] \/ akid'[q] = NoId
      BY <2>2 DEF TypeOK
    <3> QED BY <3>1 DEF NoId
  <2> QED BY <2>1, <2>2
<1>4. IdsMade'
  BY <1>3 DEF IdsMade, IdOf, Alone
<1> QED BY <1>1, <1>2, <1>4 DEF Alone, RestEmpty, Distinct

\* Steps that only move in the table of a process.
LEMMA AloneKeepsQuiet ==
    ASSUME TypeOK, alone => Alone, NEW p \in Proc, alone',
           Attach(p) \/ init(p) \/ Claim(p) \/ SetLimit(p) \/ SkipLine(p) \/ LoadEnds(p)
             \/ appkey_reload(p) \/ Kill(p)
    PROVE  Alone'
<1>1. PICK s \in State \ Working : \E f : Goto(p, s, f)
  BY DEF Attach, init, Claim, SetLimit, SkipLine, LoadEnds, appkey_reload, Kill, Begin, NextLine, Return, State, Busy,
     Working
<1>2. Alone
  BY <1>1, GotoAlone
<1>3. UNCHANGED <<count, keys>>
  BY DEF Attach, init, Claim, SetLimit, SkipLine, AtLine, LoadEnds, appkey_reload, Kill, Begin, tableVars
<1>4. UNCHANGED akid \/ akid' = [akid EXCEPT ![p] = NoId]
  BY DEF Attach, init, Claim, SetLimit, SkipLine, AtLine, LoadEnds, appkey_reload, Kill, Begin
<1> QED BY <1>1, <1>2, <1>3, <1>4, QuietKeeps

\* A line is taken up: its key is in the table, or it gets the next entry.
LEMMA AloneKeepsLine ==
    ASSUME TypeOK, alone => Alone, NEW p \in Proc, alone', load_line(p)
    PROVE  Alone'
<1> DEFINE info == current(p)
<1>1. UNCHANGED <<count, keys, akid>> /\ info \in KeyLine
  BY LineType DEF load_line, AtLine, tableVars
<1>3. ASSUME NEW s \in {"new", "value"}, NEW i, WorkOn(p, s, i),
             s = "new" => Unnamed(info.key),
             s = "value" => i < count /\ keys[i].name = info.key
      PROVE  Alone'
  <2>1. Alone
    BY <1>3, GotoAlone DEF WorkOn
  <2>2. OneLoad' /\ \A q \in Proc \ {p} : pc'[q] = pc[q] /\ frame'[q] = frame[q]
    <3>1. PICK f : Goto(p, s, f)
      BY <1>3 DEF WorkOn
    <3>2. OneLoad
      BY <2>1 DEF Alone
    <3>3. OneLoad'
      BY <3>1, <3>2, GotoOne
    <3>4. \A q \in Proc \ {p} : pc'[q] = pc[q] /\ frame'[q] = frame[q]
      BY <3>1 DEF Goto, TypeOK
    <3> QED BY <3>3, <3>4
  <2>3. pc'[p] = s /\ frame'[p].info = info /\ frame'[p].at = i
    <3>1. frame[p] \in Frame
      BY DEF TypeOK, Frame
    <3>2. pc'[p] = s /\ frame'[p] = [frame[p] EXCEPT !.info = info, !.at = i]
      BY <1>3 DEF WorkOn, Goto, TypeOK
    <3> QED BY <3>1, <3>2 DEF Frame
  <2>4. WorkInPlace'
    BY <1>1, <1>3, <2>1, <2>2, <2>3 DEF WorkInPlace, Unnamed, Alone
  <2>5. IdsMade' /\ RestEmpty' /\ Distinct'
    BY <1>1, <2>1 DEF Alone, IdsMade, IdOf, RestEmpty, Distinct
  <2> QED BY <1>1, <2>1, <2>2, <2>4, <2>5 DEF Alone
<1>4. CASE \E i \in getbyname(info.key) : WorkOn(p, "value", i)
  BY <1>3, <1>4 DEF getbyname, named
<1>5. CASE named(info.key) = {} /\ WorkOn(p, "new", 0)
  <2>1. Unnamed(info.key)
    BY <1>5 DEF named, Unnamed
  <2> QED BY <1>3, <1>5, <2>1
<1> QED BY <1>4, <1>5 DEF load_line

\* ak_new: there is room, and there still is when the count is read again.
LEMMA AloneKeepsNew ==
    ASSUME TypeOK, alone => Alone, NEW p \in Proc, alone', ak_new(p) \/ ReadCount(p)
    PROVE  Alone'
<1>1. UNCHANGED <<count, keys, akid>>
  BY DEF ak_new, ReadCount, tableVars
<1>2. CASE Return(p)
  <2>1. Alone
    BY <1>2, GotoAlone DEF Return
  <2> QED BY <1>1, <1>2, <2>1, QuietKeeps DEF Return, State, Working
<1>3. CASE ~Return(p)
  <2>1. PICK s, f : Goto(p, s, f) /\ f.info = frame[p].info
                    /\ \/ s = "idx" /\ pc[p] = "new" /\ count < limit
                       \/ s = "store" /\ pc[p] = "idx" /\ f.at = count
    BY <1>3 DEF ak_new, ReadCount, TypeOK
  <2>2. Alone
    BY <2>1, GotoAlone
  <2>3. OneLoad' /\ pc'[p] = s /\ frame'[p] = f /\ \A q \in Proc \ {p} : pc'[q] = pc[q] /\ frame'[q] = frame[q]
    <3>1. OneLoad
      BY <2>2 DEF Alone
    <3>2. OneLoad'
      BY <2>1, <3>1, GotoOne
    <3> QED BY <2>1, <3>2 DEF Goto, TypeOK
  <2>4. count < Limit /\ Unnamed(frame[p].info.key)
    BY <2>1, <2>2, LimitAssumption DEF Alone, WorkInPlace, TypeOK
  <2>5. WorkInPlace'
    BY <1>1, <2>1, <2>2, <2>3, <2>4 DEF WorkInPlace, Unnamed, Alone
  <2>6. IdsMade' /\ RestEmpty' /\ Distinct' /\ (count <= Limit)'
    BY <1>1, <2>2 DEF Alone, IdsMade, IdOf, RestEmpty, Distinct
  <2> QED BY <2>3, <2>5, <2>6 DEF Alone
<1> QED BY <1>2, <1>3

\* ak_new: the entry it takes was behind the others and has no name yet.
LEMMA AloneKeepsStore ==
    ASSUME TypeOK, WorkType, alone => Alone, NEW p \in Proc, alone', StoreCount(p)
    PROVE  Alone'
<1> DEFINE i == frame[p].at
<1>1. Alone
  BY GotoAlone DEF StoreCount
<1>2. OneLoad' /\ \A q \in Proc \ {p} : pc'[q] = pc[q] /\ frame'[q] = frame[q] /\ pc[q] \notin Busy
  <2>1. PICK f : Goto(p, "name", f)
    BY DEF StoreCount
  <2>2. "name" \in Busy /\ OneLoad
    BY <1>1 DEF Busy, Alone
  <2>3. OneLoad' /\ \A q \in Proc \ {p} : pc[q] \notin Busy
    BY <2>1, <2>2, GotoOne, GotoAlone
  <2>4. \A q \in Proc \ {p} : pc'[q] = pc[q] /\ frame'[q] = frame[q]
    BY <2>1 DEF Goto, TypeOK
  <2> QED BY <2>3, <2>4
<1>3. pc'[p] = "name" /\ frame'[p] = frame[p]
  BY DEF StoreCount, Goto, TypeOK
<1>4. i = count /\ count' = count + 1 /\ i \in Idx /\ frame[p].info \in KeyLine /\ UNCHANGED <<keys, akid>>
  BY <1>1 DEF StoreCount, Alone, WorkInPlace, WorkType, Working, AtEntry
<1>5. keys[i].name = NoName /\ Unnamed(frame[p].info.key)
  BY <1>1, <1>4 DEF Alone, RestEmpty, WorkInPlace, StoreCount, TypeOK
<1>6. RestEmpty' /\ IdsMade' /\ Distinct'
  <2>1. \A j \in Idx : j < count' <=> j < count \/ j = i
    BY <1>4 DEF Idx, TypeOK
  <2>2. RestEmpty'
    BY <1>1, <1>4 DEF Alone, RestEmpty, Idx, TypeOK
  <2>3. IdsMade'
    BY <1>1, <1>4, <2>1 DEF Alone, IdsMade, IdOf
  <2>4. Distinct'
    BY <1>1, <1>4, <1>5, <2>1 DEF Alone, Distinct
  <2> QED BY <2>2, <2>3, <2>4
<1>7. WorkInPlace'
  <2>1. Unnamed(frame[p].info.key)'
    <3>1. frame[p].info.key # NoName
      BY <1>4, NoNameAssumption DEF KeyLine
    <3> QED BY <1>3, <1>4, <1>5, <3>1 DEF Unnamed, Idx, TypeOK
  <2> QED BY <1>2, <1>3, <1>4, <1>5, <2>1 DEF WorkInPlace, Busy
<1>8. count' <= Limit
  <2>1. count \in Nat /\ count < Limit
    BY <1>1, LimitAssumption DEF StoreCount, Alone, WorkInPlace, TypeOK
  <2> QED BY <1>4, <2>1, LimitAssumption
<1> QED BY <1>2, <1>6, <1>7, <1>8 DEF Alone

\* ak_new: no other entry has the name that is copied.
LEMMA AloneKeepsName ==
    ASSUME TypeOK, WorkType, alone => Alone, NEW p \in Proc, alone', CopyName(p)
    PROVE  Alone'
<1> DEFINE i == frame[p].at
<1> DEFINE key == frame[p].info.key
<1>1. Alone
  BY GotoAlone DEF CopyName
<1>2. OneLoad' /\ \A q \in Proc \ {p} : pc'[q] = pc[q] /\ frame'[q] = frame[q] /\ pc[q] \notin Busy
  <2>1. PICK f : Goto(p, "value", f)
    BY DEF CopyName
  <2>2. "value" \in Busy /\ OneLoad
    BY <1>1 DEF Busy, Alone
  <2>3. OneLoad' /\ \A q \in Proc \ {p} : pc[q] \notin Busy
    BY <2>1, <2>2, GotoOne, GotoAlone
  <2>4. \A q \in Proc \ {p} : pc'[q] = pc[q] /\ frame'[q] = frame[q]
    BY <2>1 DEF Goto, TypeOK
  <2> QED BY <2>3, <2>4
<1>3. pc'[p] = "value" /\ frame'[p] = frame[p]
  BY DEF CopyName, Goto, TypeOK
<1>4. /\ i + 1 = count /\ i \in Idx /\ key \in Key /\ UNCHANGED <<count, akid>>
      /\ Unnamed(key) /\ keys[i].name = NoName
  BY <1>1 DEF CopyName, Alone, WorkInPlace, WorkType, KeyLine, Working, AtEntry
<1>5. keys'[i].name = key /\ \A j \in Idx \ {i} : keys'[j].name = keys[j].name
  BY <1>4 DEF CopyName, TypeOK
<1>6. i < count
  BY <1>4 DEF Idx, TypeOK
<1>7. RestEmpty'
  <2>1. \A j \in Idx : j >= count => j # i
    BY <1>4, <1>6 DEF Idx, TypeOK
  <2> QED BY <1>1, <1>4, <1>5, <2>1 DEF Alone, RestEmpty
<1>8. Distinct'
  BY <1>1, <1>4, <1>5 DEF Alone, Distinct, Unnamed
<1>9. IdsMade'
  <2>1. \A k \in Key, j \in Idx : keys[j].name = k => keys'[j].name = k
    BY <1>4, <1>5, NoNameAssumption
  <2> QED BY <1>1, <1>4, <2>1 DEF Alone, IdsMade, IdOf
<1>10. WorkInPlace'
  BY <1>2, <1>3, <1>4, <1>5, <1>6 DEF WorkInPlace, Busy
<1> QED BY <1>1, <1>2, <1>4, <1>7, <1>8, <1>9, <1>10 DEF Alone

\* A value changes no name.
LEMMA AloneKeepsValue ==
    ASSUME TypeOK, WorkType, alone => Alone, NEW p \in Proc, alone', SetValue(p)
    PROVE  Alone'
<1>1. Alone
  BY GotoAlone DEF SetValue, NextLine
<1>2. OneLoad' /\ \A q \in Proc \ {p} : pc'[q] = pc[q] /\ frame'[q] = frame[q] /\ pc[q] \notin Busy
  <2>1. PICK f : Goto(p, "line", f)
    BY DEF SetValue, NextLine
  <2>2. "line" \in Busy /\ OneLoad
    BY <1>1 DEF Busy, Alone
  <2>3. OneLoad' /\ \A q \in Proc \ {p} : pc[q] \notin Busy
    BY <2>1, <2>2, GotoOne, GotoAlone
  <2>4. \A q \in Proc \ {p} : pc'[q] = pc[q] /\ frame'[q] = frame[q]
    BY <2>1 DEF Goto, TypeOK
  <2> QED BY <2>3, <2>4
<1>3. pc'[p] = "line"
  BY DEF SetValue, NextLine, Goto, TypeOK
<1>4. UNCHANGED <<count, akid>> /\ \A j \in Idx : keys'[j].name = keys[j].name
  BY DEF SetValue, TypeOK
<1>5. WorkInPlace'
  BY <1>2, <1>3 DEF WorkInPlace, Busy
<1>6. RestEmpty' /\ Distinct' /\ IdsMade'
  BY <1>1, <1>4 DEF Alone, RestEmpty, Distinct, IdsMade, IdOf
<1> QED BY <1>1, <1>2, <1>4, <1>5, <1>6 DEF Alone

\* The steps that leave every process where it is.
LEMMA AloneKeepsUse ==
    ASSUME TypeOK, WorkType, alone => Alone, alone',
           \/ \E p \in Proc, k \in Key : appkey_getbyname(p, k)
           \/ \E p \in Proc, k \in Key, v \in Value : appkey_set(p, k, v)
           \/ Edit
    PROVE  Alone'
<1>1. UNCHANGED <<count, pc, frame>> /\ Alone
  BY DEF appkey_getbyname, appkey_set, Edit, tableVars
<1>2. \A j \in Idx : keys'[j].name = keys[j].name
  <2>1. CASE UNCHANGED keys
    BY <2>1
  <2>2. ASSUME NEW p \in Proc, NEW k \in Key, NEW v \in Value, appkey_set(p, k, v)
        PROVE  \A j \in Idx : keys'[j].name = keys[j].name
    <3>1. keys' = [keys EXCEPT ![akid[p][k].idx].value = v]
      BY <2>2 DEF appkey_set
    <3> QED BY <3>1 DEF TypeOK
  <2> QED BY <2>1, <2>2 DEF appkey_getbyname, Edit, tableVars
<1>3. OneLoad' /\ RestEmpty' /\ Distinct'
  BY <1>1, <1>2 DEF Alone, OneLoad, RestEmpty, Distinct
<1>4. WorkInPlace'
  <2>1. \A p \in Proc : pc[p] \in {"store", "name", "value"} => frame[p].at \in Idx
    BY DEF WorkType, AtEntry
  <2> QED BY <1>1, <1>2, <2>1 DEF Alone, WorkInPlace, Unnamed
<1>5. IdsMade'
  <2>1. CASE UNCHANGED akid
    BY <1>1, <1>2, <2>1 DEF Alone, IdsMade, IdOf
  <2>2. ASSUME NEW p \in Proc, NEW k \in Key, appkey_getbyname(p, k) PROVE IdsMade'
    <3>1. PICK id : /\ akid' = [akid EXCEPT ![p][k] = id]
                    /\ id = INVALID_APPKEY \/ \E i \in getbyname(k) : id = ak_make(i)
      BY <2>2 DEF appkey_getbyname
    <3>2. akid'[p][k] = id /\ \A q \in Proc, l \in Key : q # p \/ l # k => akid'[q][l] = akid[q][l]
      BY <3>1 DEF TypeOK
    <3>3. id = INVALID_APPKEY \/ \E i \in Idx : IdOf(id, k, i)
      BY <3>1 DEF getbyname, named, IdOf
    <3> QED BY <1>1, <1>2, <3>2, <3>3 DEF Alone, IdsMade, IdOf
  <2> QED BY <2>1, <2>2 DEF appkey_set, Edit
<1> QED BY <1>1, <1>3, <1>4, <1>5 DEF Alone

-----------------------------------------------------------------------------
\* The table starts empty, and nobody has an id.
LEMMA KeyInit == Init => KeyInv
<1> SUFFICES ASSUME Init PROVE KeyInv
  OBVIOUS
<1>1. TypeOK
  <2>1. NoId \in [Key -> [idx : Nat, offset : Nat]]
    BY DEF NoId, INVALID_APPKEY
  <2>2. frame \in [Proc -> Frame]
    BY NoFrameType DEF Init
  <2>3. keys \in [Idx -> [name : Key \cup {NoName}, value : Value]]
    BY ValueAssumption DEF Init
  <2>4. akid \in [Proc -> [Key -> [idx : Nat, offset : Nat]]] /\ files \in Contents
    BY <2>1 DEF Init
  <2>5. limit \in {0, Limit} /\ count \in 0..(Limit + Past) /\ pc \in [Proc -> State]
    BY LimitAssumption DEF Init, State
  <2>6. inited \in BOOLEAN /\ alone \in BOOLEAN /\ calm \in BOOLEAN
    BY DEF Init
  <2> QED BY <2>2, <2>3, <2>4, <2>5, <2>6 DEF TypeOK, Frame, State
<1>2. WorkType /\ OneLoad /\ WorkInPlace
  BY DEF Init, WorkType, OneLoad, WorkInPlace, Busy, Working, AtEntry
<1>3. RestEmpty /\ IdsMade /\ Distinct /\ count <= Limit
  BY LimitAssumption DEF Init, RestEmpty, IdsMade, Distinct, NoId, Idx
<1> QED BY <1>1, <1>2, <1>3 DEF KeyInv, Alone

\* Every step keeps the invariant.
LEMMA KeyStep == KeyInv /\ [Next]_vars => KeyInv'
<1> SUFFICES ASSUME KeyInv, [Next]_vars PROVE KeyInv'
  OBVIOUS
<1>1. CASE UNCHANGED vars
  BY <1>1 DEF KeyInv, Alone, vars, tableVars, TypeOK, WorkType, OneLoad, RestEmpty, WorkInPlace, Unnamed,
     IdsMade, IdOf, Distinct
<1>2. CASE Next
  <2>1. TypeOK' /\ WorkType'
    BY <1>2, TypeKeeps DEF KeyInv
  <2>2. ASSUME alone' PROVE Alone'
    <3>1. TypeOK /\ WorkType /\ (alone => Alone)
      BY DEF KeyInv
    <3>2. ASSUME NEW p \in Proc, Attach(p) \/ init(p) \/ Load(p) \/ appkey_reload(p) \/ Kill(p) PROVE Alone'
      BY <2>2, <3>1, <3>2, AloneKeepsQuiet, AloneKeepsLine, AloneKeepsNew, AloneKeepsStore,
         AloneKeepsName, AloneKeepsValue DEF Load
    <3> QED BY <1>2, <2>2, <3>1, <3>2, AloneKeepsUse DEF Next, Use
  <2> QED BY <2>1, <2>2 DEF KeyInv
<1> QED BY <1>1, <1>2

\* The inductive invariant holds, whatever the processes, keys and files are.
THEOREM KeysCorrect == Spec => []KeyInv
BY KeyInit, KeyStep, PTL DEF Spec

\* Loads that do not overlap never take the table past its memory, whatever
\* is reloaded, edited or killed (ak_new reads the count twice).
THEOREM TableHolds == Spec => []WithinTable
<1>1. KeyInv => WithinTable
  BY DEF KeyInv, Alone, WithinTable
<1> QED BY <1>1, KeysCorrect, PTL

\* Loads that do not overlap enter no key twice (load_line).
THEOREM KeysUnique == Spec => []NamesUnique
<1>1. KeyInv => NamesUnique
  BY DEF KeyInv, Alone, Distinct, NamesUnique
<1> QED BY <1>1, KeysCorrect, PTL

\* As long as loads do not overlap, an id keeps the key it was looked up
\* for, or has never denoted an entry (getbyid).
THEOREM IdsKeep == Spec => []IdKeepsItsKey
<1>1. KeyInv => IdKeepsItsKey
  <2> SUFFICES ASSUME TypeOK, IdsMade, NEW p \in Proc, NEW k \in Key
               PROVE  IF getbyid(akid[p][k]) THEN keys[akid[p][k].idx].name = k
                      ELSE akid[p][k] = INVALID_APPKEY \/ Offset(akid[p][k].idx) >= OffsetMod
    BY Zenon DEF KeyInv, Alone, IdKeepsItsKey
  <2>1. CASE akid[p][k] = INVALID_APPKEY
    <3>1. Offset(0) # 0
      BY SizeAssumption DEF Offset
    <3>2. ~getbyid(akid[p][k])
      BY <2>1, <3>1 DEF getbyid, INVALID_APPKEY
    <3> QED BY <2>1, <3>2
  <2>2. ASSUME NEW i \in Idx, IdOf(akid[p][k], k, i)
        PROVE  IF getbyid(akid[p][k]) THEN keys[akid[p][k].idx].name = k
               ELSE Offset(akid[p][k].idx) >= OffsetMod
    <3>1. i \in Nat /\ i < count /\ keys[i].name = k
      BY <2>2 DEF Idx, IdOf
    <3>2. akid[p][k].idx = i /\ akid[p][k].offset = Offset(i) % OffsetMod
      BY <2>2 DEF IdOf, ak_make
    <3>3. ~getbyid(akid[p][k]) => Offset(i) >= OffsetMod
      BY <3>1, <3>2, OffsetKept, OffsetType, SizeAssumption DEF getbyid
    <3> QED BY <3>1, <3>2, <3>3
  <2> QED BY <2>1, <2>2 DEF IdsMade
<1> QED BY <1>1, KeysCorrect, PTL

-----------------------------------------------------------------------------
(***************************************************************************)
(* A load that nothing disturbs.                                           *)
(***************************************************************************)

\* Line n of the files is a key's.
IsKey(n) == files[n].kind = "key"

\* The table has the key k with the value v.
Has(k, v) == \E i \in Idx : i < count /\ keys[i].name = k /\ keys[i].value = v

\* A line between m and n is of the same key as line m.
Again(m, n) ==
    \E l \in 1..Len(files) : m < l /\ l < n /\ IsKey(l) /\ files[l].key = files[m].key

\* Of the lines before n, each key has the value of its last one.
Before(n) ==
    \A m \in 1..Len(files) :
        m < n /\ IsKey(m) => Again(m, n) \/ Has(files[m].key, files[m].value)

Loading == {"line", "new", "idx", "store", "name", "value"}

\* p has loaded the lines before its own, and works on that one.
Loaded(p) ==
    pc[p] \in Loading =>
        /\ Before(frame[p].line)
        /\ pc[p] # "line" => /\ frame[p].line \in 1..Len(files)
                             /\ frame[p].info = files[frame[p].line]

\* The inductive invariant behind LoadApplies.
LoadInv == alone /\ calm => \A p \in Proc : Loaded(p)

\* A line of a key is a key line.
LEMMA KeyLineType ==
    ASSUME TypeOK
    PROVE  /\ files \in Seq(KeyLine \cup [kind : {"bad", "unreadable"}]) /\ Len(files) \in Nat
           /\ \A m \in 1..Len(files) : IsKey(m) => files[m].key \in Key /\ files[m].value \in Value
<1>1. files \in Seq(KeyLine \cup [kind : {"bad", "unreadable"}])
  BY ContentsAssumption DEF TypeOK
<1>2. \A m \in 1..Len(files) : files[m] \in KeyLine \cup [kind : {"bad", "unreadable"}]
  BY <1>1
<1>3. \A m \in 1..Len(files) : IsKey(m) => files[m] \in KeyLine
  BY <1>2 DEF IsKey
<1> QED BY <1>1, <1>3 DEF KeyLine

\* As long as the files and the named entries in use stay, so does what the
\* lines have set.
LEMMA BeforeKept ==
    ASSUME TypeOK, NEW n, Before(n), files' = files, count' >= count, count' \in Nat,
           \A i \in Idx : i < count /\ keys[i].name # NoName => keys'[i] = keys[i]
    PROVE  Before(n)'
<1>1. \A k \in Key : \A v : Has(k, v) => Has(k, v)'
  <2> SUFFICES ASSUME NEW k \in Key, NEW v, NEW i \in Idx, i < count, keys[i].name = k, keys[i].value = v
               PROVE  i < count' /\ keys'[i].name = k /\ keys'[i].value = v
    BY DEF Has
  <2>1. i < count'
    BY DEF Idx, TypeOK
  <2>2. keys'[i] = keys[i]
    BY NoNameAssumption
  <2> QED BY <2>1, <2>2
<1>2. \A m \in 1..Len(files) : (IsKey(m)' <=> IsKey(m)) /\ (Again(m, n) => Again(m, n)')
  BY DEF IsKey, Again
<1> QED BY <1>1, <1>2, KeyLineType DEF Before

\* A step by p that is no load, or ends one, leaves the loads of the others.
LEMMA LoadedOthers ==
    ASSUME TypeOK, LoadInv, alone', calm', calm' = calm, NEW p \in Proc, NEW s, NEW f,
           Goto(p, s, f), s \notin Loading, UNCHANGED <<count, keys, files>>
    PROVE  \A q \in Proc : Loaded(q)'
<1>1. \A q \in Proc : Loaded(q)
  BY GotoAlone DEF LoadInv
<1>2. pc'[p] = s /\ \A q \in Proc \ {p} : pc'[q] = pc[q] /\ frame'[q] = frame[q]
  BY DEF Goto, TypeOK
<1> SUFFICES ASSUME NEW q \in Proc PROVE Loaded(q)'
  OBVIOUS
<1>3. CASE q = p
  BY <1>2, <1>3 DEF Loaded
<1>4. CASE q # p
  <2>1. pc'[q] = pc[q] /\ frame'[q] = frame[q] /\ Loaded(q)
    BY <1>1, <1>2, <1>4
  <2>2. Before(frame[q].line) => Before(frame[q].line)'
    <3>1. \A n : Before(n) => \A m \in 1..Len(files') :
             m < n /\ IsKey(m)' => Again(m, n)' \/ Has(files[m].key, files[m].value)'
      BY DEF Before, Again, Has, IsKey
    <3> QED BY <2>1, <3>1 DEF Before
  <2> QED BY <2>1, <2>2 DEF Loaded
<1> QED BY <1>3, <1>4

\* A step by p that leaves it loading is one while nobody else loads.
LEMMA LoadedAlone ==
    ASSUME TypeOK, alone', NEW p \in Proc, NEW s \in Loading, NEW f, Goto(p, s, f), Loaded(p)'
    PROVE  \A q \in Proc : Loaded(q)'
<1>1. s \in Busy
  BY DEF Loading, Busy
<1>2. \A q \in Proc \ {p} : pc'[q] = pc[q] /\ pc[q] \notin Busy
  BY <1>1, GotoAlone DEF Goto, TypeOK
<1> QED BY <1>2 DEF Loaded, Loading, Busy

\* Where a step leaves p.
LEMMA GotoIs ==
    ASSUME TypeOK, NEW p \in Proc, NEW s, NEW f, Goto(p, s, f)
    PROVE  pc'[p] = s /\ frame'[p] = f
BY DEF Goto, TypeOK

\* Line n is done: it is no key's, or its key has its value.
LEMMA NextBefore ==
    ASSUME TypeOK, NEW n \in 1..Len(files), Before(n), IsKey(n) => Has(files[n].key, files[n].value)
    PROVE  Before(n + 1)
<1> SUFFICES ASSUME NEW m \in 1..Len(files), m < n + 1, IsKey(m)
             PROVE  Again(m, n + 1) \/ Has(files[m].key, files[m].value)
  BY DEF Before
<1>0. Len(files) \in Nat
  BY KeyLineType
<1>1. CASE m = n
  BY <1>1
<1>2. CASE m < n
  BY <1>0, <1>2 DEF Before, Again
<1> QED BY <1>0, <1>1, <1>2

\* The steps that begin no line, or end a load.
LEMMA LoadedMoves ==
    ASSUME TypeOK, LoadInv, alone', calm', NEW p \in Proc,
           Attach(p) \/ init(p) \/ Claim(p) \/ LoadEnds(p) \/ Kill(p)
    PROVE  \A q \in Proc : Loaded(q)'
<1>1. PICK s : s \notin Loading /\ \E f : Goto(p, s, f)
  BY DEF Attach, init, Claim, LoadEnds, Return, Kill, Loading
<1>2. UNCHANGED <<count, keys, files, calm>>
  BY DEF Attach, init, Claim, LoadEnds, Kill, tableVars
<1> QED BY <1>1, <1>2, LoadedOthers

\* A load begins before its first line.
LEMMA LoadedBegin ==
    ASSUME TypeOK, LoadInv, alone', NEW p \in Proc, Begin(p)
    PROVE  \A q \in Proc : Loaded(q)'
<1>1. Goto(p, "line", NoFrame)
  BY DEF Begin
<1>2. pc'[p] = "line" /\ frame'[p] = NoFrame
  BY <1>1, GotoIs
<1>3. frame'[p].line = 1
  BY <1>2 DEF NoFrame
<1>4. Len(files') \in Nat
  BY KeyLineType DEF Begin
<1>5. Before(frame[p].line)'
  BY <1>3, <1>4 DEF Before
<1>6. Loaded(p)'
  BY <1>2, <1>5 DEF Loaded
<1> QED BY <1>1, <1>6, LoadedAlone DEF Loading

\* A line that is no key's sets nothing.
LEMMA LoadedSkip ==
    ASSUME TypeOK, LoadInv, alone', calm', NEW p \in Proc, SkipLine(p)
    PROVE  \A q \in Proc : Loaded(q)'
<1>1. UNCHANGED <<tableVars, files, calm>> /\ UNCHANGED <<count, keys>>
  BY DEF SkipLine, AtLine, tableVars
<1>2. CASE Return(p)
  BY <1>1, <1>2, LoadedOthers DEF Return, Loading
<1>3. CASE NextLine(p)
  <2>0. PICK n : n = frame[p].line
    OBVIOUS
  <2> DEFINE f == [frame[p] EXCEPT !.line = @ + 1]
  <2>1. Goto(p, "line", f)
    BY <1>3 DEF NextLine
  <2>2. pc'[p] = "line" /\ frame'[p] = f
    BY <2>1, GotoIs
  <2>3. n \in 1..Len(files) /\ ~IsKey(n) /\ pc[p] = "line"
    <3>1. /\ n \in Nat \ {0} /\ n <= Len(files) /\ pc[p] = "line"
          /\ files[n].kind \in {"bad", "unreadable"}
      BY <2>0 DEF SkipLine, AtLine, current, TypeOK
    <3> QED BY <3>1, KeyLineType DEF IsKey
  <2>4. Before(n)
    BY <1>1, <2>0, <2>1, <2>3, GotoAlone DEF LoadInv, Loaded, Loading
  <2>5. Before(n + 1)
    BY <2>3, <2>4, NextBefore
  <2>6. Before(n + 1)'
    <3>1. count \in Nat
      BY LimitAssumption DEF TypeOK
    <3> QED BY <1>1, <2>5, <3>1, BeforeKept
  <2>7. frame'[p].line = n + 1
    BY <2>0, <2>2 DEF TypeOK
  <2>8. Before(frame[p].line)'
    BY <2>6, <2>7 DEF Before
  <2>9. Loaded(p)'
    BY <2>2, <2>8 DEF Loaded
  <2> QED BY <2>1, <2>9, LoadedAlone DEF Loading
<1> QED BY <1>2, <1>3 DEF SkipLine

\* A line is taken up, or the load ends.
LEMMA LoadedLine ==
    ASSUME TypeOK, LoadInv, alone', calm', NEW p \in Proc, load_line(p)
    PROVE  \A q \in Proc : Loaded(q)'
<1>1. UNCHANGED <<tableVars, files, calm>> /\ UNCHANGED <<count, keys>>
  BY DEF load_line, AtLine, tableVars
<1>3. ASSUME NEW s \in {"new", "value"}, NEW i, WorkOn(p, s, i)
      PROVE  \A q \in Proc : Loaded(q)'
  <2>0. PICK n : n = frame[p].line
    OBVIOUS
  <2> DEFINE f == [frame[p] EXCEPT !.info = current(p), !.at = i]
  <2>1. Goto(p, s, f) /\ s \in Loading
    BY <1>3 DEF WorkOn, Loading
  <2>2. pc'[p] = s /\ frame'[p] = f
    BY <2>1, GotoIs
  <2>3. n \in 1..Len(files) /\ pc[p] = "line"
    BY <2>0, KeyLineType DEF load_line, AtLine, TypeOK
  <2>4. Before(n)
    BY <1>1, <2>0, <2>1, <2>3, GotoAlone DEF LoadInv, Loaded, Loading
  <2>5. Before(n)'
    <3>1. count \in Nat
      BY LimitAssumption DEF TypeOK
    <3> QED BY <1>1, <2>4, <3>1, BeforeKept
  <2>6. frame'[p].line = n /\ frame'[p].info = files[n]
    BY <2>0, <2>2 DEF TypeOK, current
  <2>7. Before(frame[p].line)'
    BY <2>5, <2>6 DEF Before
  <2>8. Loaded(p)'
    BY <1>1, <2>2, <2>3, <2>6, <2>7 DEF Loaded
  <2> QED BY <2>1, <2>8, LoadedAlone
<1> QED BY <1>3 DEF load_line

\* ak_new looks for room, and reads the count.
LEMMA LoadedRoom ==
    ASSUME TypeOK, LoadInv, alone', calm', NEW p \in Proc, ak_new(p) \/ ReadCount(p)
    PROVE  \A q \in Proc : Loaded(q)'
<1>0. PICK n : n = frame[p].line
  OBVIOUS
<1>1. UNCHANGED <<tableVars, files, calm>> /\ UNCHANGED <<count, keys>> /\ pc[p] \in {"new", "idx"}
  BY DEF ak_new, ReadCount, tableVars
<1>2. CASE Return(p)
  BY <1>1, <1>2, LoadedOthers DEF Return, Loading
<1>3. CASE ~Return(p)
  <2>1. PICK s, f : /\ Goto(p, s, f) /\ s \in {"idx", "store"}
                    /\ f.info = frame[p].info /\ f.line = frame[p].line
    <3>1. /\ [frame[p] EXCEPT !.at = count].info = frame[p].info
          /\ [frame[p] EXCEPT !.at = count].line = frame[p].line
      BY DEF TypeOK
    <3> QED BY <1>3, <3>1 DEF ak_new, ReadCount
  <2>2. s \in Loading /\ pc'[p] = s /\ frame'[p] = f
    BY <2>1, GotoIs DEF Loading
  <2>3. n \in 1..Len(files) /\ frame[p].info = files[n] /\ Before(n)
    BY <1>0, <1>1, <2>1, GotoAlone DEF LoadInv, Loaded, Loading
  <2>4. Before(n)'
    <3>1. count \in Nat
      BY LimitAssumption DEF TypeOK
    <3> QED BY <1>1, <2>3, <3>1, BeforeKept
  <2>5. Before(frame[p].line)'
    BY <1>0, <2>1, <2>2, <2>4 DEF Before
  <2>6. Loaded(p)'
    BY <1>0, <1>1, <2>1, <2>2, <2>3, <2>5 DEF Loaded
  <2> QED BY <2>1, <2>2, <2>6, LoadedAlone
<1> QED BY <1>2, <1>3

\* ak_new takes an entry that has no name.
LEMMA LoadedNew ==
    ASSUME TypeOK, WorkType, Alone, LoadInv, alone', calm', NEW p \in Proc, StoreCount(p) \/ CopyName(p)
    PROVE  \A q \in Proc : Loaded(q)'
<1>0. PICK n : n = frame[p].line
  OBVIOUS
<1> DEFINE i == frame[p].at
<1>1. PICK s \in {"name", "value"} : Goto(p, s, frame[p])
  BY DEF StoreCount, CopyName
<1>2. s \in Loading /\ pc'[p] = s /\ frame'[p] = frame[p]
  BY <1>1, GotoIs DEF Loading
<1>3. UNCHANGED <<files, calm>> /\ pc[p] \in {"store", "name"}
  BY DEF StoreCount, CopyName
<1>4. n \in 1..Len(files) /\ frame[p].info = files[n] /\ Before(n)
  BY <1>0, <1>1, <1>3, GotoAlone DEF LoadInv, Loaded, Loading
<1>5. i \in Idx /\ count \in Nat
  BY <1>3, LimitAssumption DEF WorkType, TypeOK, AtEntry
<1>6. count' >= count /\ count' \in Nat
  <2>1. CASE StoreCount(p)
    BY <1>5, <2>1 DEF StoreCount, Alone, WorkInPlace
  <2>2. CASE CopyName(p)
    BY <1>5, <2>2 DEF CopyName
  <2> QED BY <2>1, <2>2
<1>7. \A j \in Idx : j < count /\ keys[j].name # NoName => keys'[j] = keys[j]
  <2>1. CASE StoreCount(p)
    BY <2>1 DEF StoreCount
  <2>2. CASE CopyName(p)
    <3>1. keys[i].name = NoName
      BY <2>2 DEF CopyName, Alone, WorkInPlace
    <3>2. \A j \in Idx : j # i => keys'[j] = keys[j]
      BY <2>2, <1>5 DEF CopyName, TypeOK
    <3> QED BY <3>1, <3>2
  <2> QED BY <2>1, <2>2
<1>8. Before(n)'
  <2> QED BY <1>3, <1>4, <1>6, <1>7, BeforeKept
<1>9. Before(frame[p].line)'
  BY <1>0, <1>2, <1>8 DEF Before
<1>10. Loaded(p)'
  BY <1>0, <1>2, <1>3, <1>4, <1>9 DEF Loaded
<1> QED BY <1>1, <1>2, <1>10, LoadedAlone

\* The value of a line goes to the entry of its key, which no other key of an
\* earlier line has.
LEMMA LoadedValue ==
    ASSUME TypeOK, WorkType, Alone, LoadInv, alone', calm', NEW p \in Proc, SetValue(p)
    PROVE  \A q \in Proc : Loaded(q)'
<1>0. PICK n : n = frame[p].line
  OBVIOUS
<1> DEFINE i == frame[p].at
           f == [frame[p] EXCEPT !.line = @ + 1]
<1>1. Goto(p, "line", f) /\ UNCHANGED <<files, count, calm>> /\ pc[p] = "value"
  BY DEF SetValue, NextLine
<1>2. pc'[p] = "line" /\ frame'[p] = f
  BY <1>1, GotoIs
<1>3. n \in 1..Len(files) /\ frame[p].info = files[n] /\ Before(n)
  BY <1>0, <1>1, GotoAlone DEF LoadInv, Loaded, Loading
<1>4. i \in Idx /\ i < count /\ keys[i].name = files[n].key /\ files[n] \in KeyLine
  BY <1>1, <1>3 DEF WorkType, Alone, WorkInPlace, Working, AtEntry
<1>5. /\ keys'[i].name = files[n].key /\ keys'[i].value = files[n].value
      /\ \A j \in Idx : j # i => keys'[j] = keys[j]
  BY <1>3, <1>4 DEF SetValue, TypeOK
<1>6. frame'[p].line = n + 1 /\ n \in Nat
  BY <1>0, <1>2, <1>3 DEF TypeOK
<1> HIDE DEF i, f
<1>7. ASSUME NEW m \in 1..Len(files), m < n + 1, IsKey(m)
      PROVE  Again(m, n + 1)' \/ Has(files[m].key, files[m].value)'
  <2>1. CASE files[m].key = files[n].key /\ m # n
    <3>1. IsKey(n) /\ m < n /\ n < n + 1
      BY <1>3, <1>4, <1>6, <1>7, <2>1 DEF IsKey, KeyLine
    <3>2. Again(m, n + 1)
      BY <1>3, <2>1, <3>1 DEF Again
    <3> QED BY <1>1, <3>2 DEF Again, IsKey
  <2>2. CASE m = n
    BY <1>1, <1>4, <1>5, <2>2 DEF Has
  <2>3. CASE files[m].key # files[n].key
    <3>1. m < n
      BY <1>6, <1>7, <2>3
    <3>2. CASE Again(m, n)
      <4>1. Again(m, n + 1)
        <5>1. PICK l \in 1..Len(files) : m < l /\ l < n /\ IsKey(l) /\ files[l].key = files[m].key
          BY <3>2 DEF Again
        <5>2. l < n + 1
          BY <1>6, <5>1
        <5> QED BY <5>1, <5>2 DEF Again
      <4> QED BY <1>1, <4>1 DEF Again, IsKey
    <3>3. CASE Has(files[m].key, files[m].value)
      <4>1. PICK j \in Idx : j < count /\ keys[j].name = files[m].key /\ keys[j].value = files[m].value
        BY <3>3 DEF Has
      <4>2. keys'[j] = keys[j]
        BY <1>4, <1>5, <2>3, <4>1
      <4> QED BY <1>1, <4>1, <4>2 DEF Has
    <3> QED BY <1>3, <1>7, <3>1, <3>2, <3>3 DEF Before
  <2> QED BY <2>1, <2>2, <2>3
<1>8. Before(frame[p].line)'
  BY <1>1, <1>6, <1>7 DEF Before, IsKey
<1>9. Loaded(p)'
  BY <1>2, <1>8 DEF Loaded
<1> QED BY <1>1, <1>9, LoadedAlone DEF Loading

-----------------------------------------------------------------------------
\* No process loads at first.
LEMMA LoadInit == Init => LoadInv
BY DEF Init, LoadInv, Loaded, Loading

\* Every step keeps the invariant.
LEMMA LoadStep == KeyInv /\ LoadInv /\ [Next]_vars => LoadInv'
<1> SUFFICES ASSUME KeyInv, LoadInv, [Next]_vars, alone', calm' PROVE \A q \in Proc : Loaded(q)'
  BY DEF LoadInv
<1>1. TypeOK /\ WorkType /\ (alone => Alone)
  BY DEF KeyInv
<1>2. CASE UNCHANGED <<count, keys, pc, frame, files, alone, calm>>
  BY <1>2 DEF LoadInv, Loaded, Before, Again, Has, IsKey
<1>3. ASSUME NEW p \in Proc, StoreCount(p) \/ CopyName(p) \/ SetValue(p) PROVE alone
  <2>1. \E s, f : Goto(p, s, f)
    BY <1>3 DEF StoreCount, CopyName, SetValue, NextLine
  <2> QED BY <2>1, GotoAlone
<1>4. ASSUME NEW p \in Proc, Load(p) \/ appkey_reload(p) PROVE \A q \in Proc : Loaded(q)'
  BY <1>1, <1>3, <1>4, LoadedMoves, LoadedBegin, LoadedSkip, LoadedLine, LoadedRoom, LoadedNew, LoadedValue
     DEF Load, SetLimit, appkey_reload
<1>5. ASSUME NEW p \in Proc, Attach(p) \/ init(p) \/ Kill(p) PROVE \A q \in Proc : Loaded(q)'
  BY <1>1, <1>5, LoadedMoves
<1>6. ASSUME NEW p \in Proc, NEW k \in Key, appkey_getbyname(p, k) PROVE \A q \in Proc : Loaded(q)'
  BY <1>2, <1>6 DEF appkey_getbyname, tableVars
<1>7. ~Edit /\ \A p \in Proc, k \in Key, v \in Value : ~appkey_set(p, k, v)
  BY DEF Edit, appkey_set
<1>8. CASE UNCHANGED vars
  BY <1>2, <1>8 DEF vars, tableVars
<1> QED BY <1>4, <1>5, <1>6, <1>7, <1>8 DEF Next, Use

\* What a load has set so far is what the lines before its own say.
THEOREM LoadsInOrder == Spec => []LoadInv
BY LoadInit, LoadStep, KeysCorrect, PTL DEF Spec

-----------------------------------------------------------------------------
\* A non-empty set of numbers of lines has a greatest one.
LEMMA LastOne ==
    ASSUME NEW N \in Nat, NEW S, S \subseteq 1..N, S # {}
    PROVE  \E n \in S : \A m \in S : m <= n
<1> DEFINE Rel == {ss \in Nat \X Nat : ss[1] < ss[2]}
           T == {N - n : n \in S}
<1>1. IsWellFoundedOn(Rel, Nat)
  <2>1. Rel = OpToRel(<, Nat)
    BY Zenon DEF OpToRel
  <2> QED BY <2>1, NatLessThanWellFounded, Zenon
<1>2. T \subseteq Nat /\ T # {}
  <2>1. \A n \in S : N - n \in Nat
    OBVIOUS
  <2> QED BY <2>1
<1>3. PICK t \in T : \A u \in T : ~(<<u, t>> \in Rel)
  <2> HIDE DEF Rel, T
  <2> QED BY <1>1, <1>2, WFMin
<1>4. PICK n \in S : t = N - n
  BY <1>3
<1>5. ASSUME NEW m \in S PROVE m <= n
  <2>1. N - m \in T /\ N - m \in Nat /\ t \in Nat
    BY <1>2, <1>3
  <2>2. ~(N - m < t)
    BY <1>3, <2>1
  <2> QED BY <1>4, <2>1, <2>2
<1> QED BY <1>5

\* What the files want a key to be is what its last line says.
LEMMA WantedIs ==
    ASSUME TypeOK, NEW k, LinesOf(k) # {}
    PROVE  \E n \in LinesOf(k) : Wanted(k) = files[n].value /\ \A m \in LinesOf(k) : m <= n
<1> DEFINE S == LinesOf(k)
<1>1. S \subseteq 1..Len(files) /\ Len(files) \in Nat
  BY KeyLineType DEF LinesOf
<1> HIDE DEF S
<1>2. \E n \in S : \A m \in S : m <= n
  BY <1>1, LastOne DEF S
<1>3. PICK n : n = CHOOSE l \in S : \A m \in S : m <= l
  OBVIOUS
<1>4. n \in S /\ \A m \in S : m <= n
  BY <1>2, <1>3
<1>5. Wanted(k) = files[n].value
  BY <1>3 DEF Wanted, S
<1> QED BY <1>4, <1>5 DEF S

\* When every line is done the files are applied.
LEMMA AllBefore ==
    ASSUME TypeOK, NEW n \in Nat, n > Len(files), Before(n)
    PROVE  Applied
<1> SUFFICES ASSUME NEW k \in Key, LinesOf(k) # {} PROVE Has(k, Wanted(k))
  BY DEF Applied, Has
<1>1. PICK l \in LinesOf(k) : Wanted(k) = files[l].value /\ \A m \in LinesOf(k) : m <= l
  BY WantedIs
<1>2. l \in 1..Len(files) /\ IsKey(l) /\ files[l].key = k /\ Len(files) \in Nat
  BY KeyLineType DEF LinesOf, IsKey
<1>3. ~Again(l, n)
  BY <1>1, <1>2 DEF Again, LinesOf, IsKey
<1> QED BY <1>1, <1>2, <1>3 DEF Before

\* A load that nothing disturbed leaves every key of the files in the table
\* with the value of its last line, unless the table is full or a file could
\* not be opened (load, load_line, ak_new).
THEOREM LoadsApply == Spec => LoadApplies
<1>1. ASSUME KeyInv, LoadInv, Next, NEW p \in Proc, pc[p] \in Busy \ {"claim"}, pc'[p] = "ready", alone, calm
      PROVE  Applied' \/ count >= limit \/ \E n \in 1..Len(files) : files[n].kind = "unreadable"
  <2>1. TypeOK /\ Loaded(p)
    BY <1>1 DEF KeyInv, LoadInv
  <2>2. ASSUME NEW q \in Proc, NEW s, NEW f, Goto(q, s, f) PROVE q = p /\ s = "ready"
    BY <1>1, <2>1, <2>2 DEF Goto, TypeOK, Busy
  <2>3. ~UNCHANGED pc
    BY <1>1 DEF Busy
  <2>4. SkipLine(p) \/ ak_new(p) \/ LoadEnds(p)
    <3>1. ASSUME NEW q \in Proc,
                 \/ Attach(q) \/ init(q) \/ Claim(q) \/ SetLimit(q) \/ appkey_reload(q)
                 \/ load_line(q) \/ ReadCount(q) \/ StoreCount(q) \/ CopyName(q) \/ SetValue(q) \/ Kill(q)
          PROVE  FALSE
      <4>1. CASE init(q)
        <5>1. q = p
          BY <2>2, <4>1 DEF init
        <5> QED BY <1>1, <4>1, <5>1 DEF init, Busy
      <4>2. CASE ~init(q)
        <5>1. \E s \in {"check", "limit", "line", "new", "store", "name", "value", "off"} :
                \E f : Goto(q, s, f)
          BY <3>1, <4>2 DEF Attach, Claim, SetLimit, appkey_reload, Begin, load_line, WorkOn, ReadCount, StoreCount,
             CopyName, SetValue, NextLine, Kill
        <5> QED BY <2>2, <5>1
      <4> QED BY <4>1, <4>2
    <3>2. ASSUME NEW q \in Proc, SkipLine(q) \/ ak_new(q) \/ LoadEnds(q) PROVE q = p
      <4>1. \E s, f : Goto(q, s, f)
        BY <3>2 DEF SkipLine, ak_new, LoadEnds, NextLine, Return
      <4> QED BY <2>2, <4>1
    <3>3. ~Edit /\ \A q \in Proc : /\ \A k \in Key : ~appkey_getbyname(q, k)
                                 /\ \A k \in Key, v \in Value : ~appkey_set(q, k, v)
      BY <2>3 DEF Edit, appkey_getbyname, appkey_set
    <3> QED BY <1>1, <3>1, <3>2, <3>3 DEF Next, Load, Use
  <2>5. CASE SkipLine(p)
    <3>1. ~NextLine(p)
      BY <2>2 DEF NextLine
    <3>2. frame[p].line \in 1..Len(files) /\ files[frame[p].line].kind = "unreadable"
      BY <2>1, <2>5, <3>1, KeyLineType DEF SkipLine, AtLine, current, TypeOK
    <3> QED BY <3>2
  <2>6. CASE ak_new(p)
    <3>1. ~Goto(p, "idx", frame[p])
      BY <2>2
    <3> QED BY <2>6, <3>1 DEF ak_new
  <2>7. CASE LoadEnds(p)
    <3>1. Before(frame[p].line) /\ frame[p].line \in Nat /\ frame[p].line > Len(files)
      BY <2>1, <2>7, KeyLineType DEF LoadEnds, Loaded, Loading, TypeOK
    <3>2. Applied
      BY <2>1, <3>1, AllBefore
    <3>3. UNCHANGED <<count, keys, files>>
      BY <2>7 DEF LoadEnds, tableVars
    <3>4. \A k : LinesOf(k)' = LinesOf(k)
      BY <3>3 DEF LinesOf
    <3>5. \A k : Wanted(k)' = Wanted(k)
      BY <3>3, <3>4 DEF Wanted
    <3> QED BY <3>2, <3>3, <3>4, <3>5 DEF Applied
  <2> QED BY <2>4, <2>5, <2>6, <2>7
<1>2. ASSUME KeyInv, LoadInv, Next
      PROVE  \A p \in Proc :
               pc[p] \in Busy \ {"claim"} /\ pc'[p] = "ready" /\ alone /\ calm =>
                  Applied' \/ count >= limit \/ \E n \in 1..Len(files) : files[n].kind = "unreadable"
  BY <1>1, <1>2
<1>3. KeyInv /\ LoadInv /\ [Next]_vars =>
        [\A p \in Proc :
           pc[p] \in Busy \ {"claim"} /\ pc'[p] = "ready" /\ alone /\ calm =>
              Applied' \/ count >= limit \/ \E n \in 1..Len(files) : files[n].kind = "unreadable"]_vars
  BY <1>2
<1> QED BY <1>3, KeysCorrect, LoadsInOrder, PTL DEF Spec, LoadApplies
=============================================================================
