------------------------------ MODULE StateFile ------------------------------
(***************************************************************************)
(* The file protocol of UsageStateStore::save and ModelRegistry::save, and *)
(* of their loads: the new contents go to <path>.tmp, which is truncated,  *)
(* written in one or more write calls and renamed over <path>.  Every      *)
(* caller uses the same <path>.tmp.  The file system is external: names    *)
(* bound to inodes, an inode living on while a descriptor is open on it,   *)
(* and POSIX rename replacing the target name in one step.                 *)
(*                                                                         *)
(* A file is Chunks blocks, each holding the value of the save that wrote  *)
(* it last: the file is torn when the blocks disagree or one is Blank.     *)
(***************************************************************************)
EXTENDS Integers

CONSTANTS
    Writers,  \* callers of save
    Readers,  \* callers of load
    Values,   \* the states they save
    Inodes,   \* bound: files that exist at once
    Chunks,   \* write calls a save takes
    Blank,    \* a block that was not written since the file was truncated
    Missing   \* what load returns when there is no file

NoFile == 0
Blocks == 1..Chunks

ASSUME FileAssumption ==
    /\ Inodes \subseteq Nat \ {0}
    /\ Chunks \in Nat \ {0}
    /\ Blank \notin Values
    /\ Missing \notin Values

VARIABLES
    path, tmp,  \* the inode each name is bound to, or NoFile
    content,    \* content[i]: the blocks of inode i
    wpc, wino, wval, wblock,  \* save: where it is, its inode, value, next block
    outcome,    \* what the writer's last save returned
    rpc, rino, rblock, got    \* load: where it is, its inode, next block, result

writer == <<wpc, wino, wval, wblock, outcome>>
reader == <<rpc, rino, rblock, got>>
vars == <<path, tmp, content, writer, reader>>

Init ==
    /\ path = NoFile /\ tmp = NoFile
    /\ content = [i \in Inodes |-> [b \in Blocks |-> Blank]]
    /\ wpc = [w \in Writers |-> "idle"] /\ wino = [w \in Writers |-> NoFile]
    /\ wval = [w \in Writers |-> Missing] /\ wblock = [w \in Writers |-> 1]
    /\ outcome = [w \in Writers |-> "none"]
    /\ rpc = [r \in Readers |-> "idle"] /\ rino = [r \in Readers |-> NoFile]
    /\ rblock = [r \in Readers |-> 1]
    /\ got = [r \in Readers |-> [b \in Blocks |-> Missing]]

\* An inode is free when no name and no open descriptor refers to it.
Free(i) ==
    /\ i # path /\ i # tmp
    /\ \A w \in Writers : wpc[w] # "idle" => wino[w] # i
    /\ \A r \in Readers : rpc[r] = "reading" => rino[r] # i
-----------------------------------------------------------------------------
\* ofstream out(tmp_path, trunc): creates <path>.tmp or empties the one there is.
OpenTmp(w) ==
    /\ wpc[w] = "idle"
    /\ \E i \in Inodes, v \in Values :
          /\ IF tmp = NoFile THEN Free(i) ELSE i = tmp
          /\ tmp' = i
          /\ content' = [content EXCEPT ![i] = [b \in Blocks |-> Blank]]
          /\ wino' = [wino EXCEPT ![w] = i]
          /\ wval' = [wval EXCEPT ![w] = v]
    /\ wpc' = [wpc EXCEPT ![w] = "writing"]
    /\ wblock' = [wblock EXCEPT ![w] = 1]
    /\ outcome' = [outcome EXCEPT ![w] = "none"]
    /\ UNCHANGED <<path, reader>>

\* open fails: save returns false with nothing changed.
OpenFails(w) ==
    /\ wpc[w] = "idle"
    /\ outcome' = [outcome EXCEPT ![w] = "failed"]
    /\ UNCHANGED <<path, tmp, content, wpc, wino, wval, wblock, reader>>

LastBlock(b) == b = Chunks

\* One write call; after the last one the stream is flushed and closed.
WriteBlock(w) ==
    /\ wpc[w] = "writing"
    /\ content' = [content EXCEPT ![wino[w]][wblock[w]] = wval[w]]
    /\ IF LastBlock(wblock[w])
       THEN wpc' = [wpc EXCEPT ![w] = "rename"] /\ UNCHANGED wblock
       ELSE wblock' = [wblock EXCEPT ![w] = @ + 1] /\ UNCHANGED wpc
    /\ UNCHANGED <<path, tmp, wino, wval, outcome, reader>>

\* What ends a save: the descriptor is closed and the caller gets its result.
Return(w, result) ==
    /\ wpc' = [wpc EXCEPT ![w] = "idle"]
    /\ wino' = [wino EXCEPT ![w] = NoFile]
    /\ wval' = [wval EXCEPT ![w] = Missing]
    /\ wblock' = [wblock EXCEPT ![w] = 1]
    /\ outcome' = [outcome EXCEPT ![w] = result]

\* Mutations: renaming before the stream is flushed; a failed rename taken for done.
RenameSucceeds_BeforeFlush(w) ==
    /\ wpc[w] # "idle" /\ tmp # NoFile
    /\ path' = tmp /\ tmp' = NoFile
    /\ Return(w, "ok")
    /\ UNCHANGED <<content, reader>>

RenameFails_ReportsOk(w) ==
    /\ wpc[w] = "rename"
    /\ tmp' = NoFile
    /\ Return(w, "ok")
    /\ UNCHANGED <<path, content, reader>>

\* rename fails when another save took <path>.tmp away, or for any other reason.
RenameSucceeds(w) ==
    /\ wpc[w] = "rename" /\ tmp # NoFile
    /\ path' = tmp /\ tmp' = NoFile
    /\ Return(w, "ok")
    /\ UNCHANGED <<content, reader>>

RenameFails(w) ==
    /\ wpc[w] = "rename"
    /\ tmp' = NoFile
    /\ Return(w, "failed")
    /\ UNCHANGED <<path, content, reader>>

\* out.good() is false after a write, or the process dies: <path>.tmp stays.
GiveUp(w) ==
    /\ wpc[w] # "idle"
    /\ Return(w, "failed")
    /\ UNCHANGED <<path, tmp, content, reader>>

\* ifstream in(path): the load keeps its inode whatever the name does then.
OpenPath(r) ==
    /\ rpc[r] = "idle"
    /\ got' = [got EXCEPT ![r] = [b \in Blocks |-> Missing]]
    /\ IF path = NoFile
       THEN UNCHANGED <<rpc, rino, rblock>>
       ELSE /\ rpc' = [rpc EXCEPT ![r] = "reading"]
            /\ rino' = [rino EXCEPT ![r] = path]
            /\ rblock' = [rblock EXCEPT ![r] = 1]
    /\ UNCHANGED <<path, tmp, content, writer>>

ReadBlock(r) ==
    /\ rpc[r] = "reading"
    /\ got' = [got EXCEPT ![r][rblock[r]] = content[rino[r]][rblock[r]]]
    /\ IF LastBlock(rblock[r])
       THEN rpc' = [rpc EXCEPT ![r] = "idle"] /\ UNCHANGED rblock
       ELSE rblock' = [rblock EXCEPT ![r] = @ + 1] /\ UNCHANGED rpc
    /\ UNCHANGED <<path, tmp, content, rino, writer>>

Next ==
    \/ \E w \in Writers : \/ OpenTmp(w) \/ OpenFails(w) \/ WriteBlock(w)
                          \/ RenameSucceeds(w) \/ RenameFails(w) \/ GiveUp(w)
    \/ \E r \in Readers : OpenPath(r) \/ ReadBlock(r)

Spec == Init /\ [][Next]_vars
-----------------------------------------------------------------------------
TypeOK ==
    /\ path \in Inodes \cup {NoFile} /\ tmp \in Inodes \cup {NoFile}
    /\ content \in [Inodes -> [Blocks -> Values \cup {Blank}]]
    /\ wpc \in [Writers -> {"idle", "writing", "rename"}]
    /\ wino \in [Writers -> Inodes \cup {NoFile}]
    /\ \A w \in Writers : wpc[w] # "idle" => wino[w] \in Inodes /\ wval[w] \in Values
    /\ wval \in [Writers -> Values \cup {Missing}]
    /\ wblock \in [Writers -> Blocks]
    /\ outcome \in [Writers -> {"none", "ok", "failed"}]
    /\ rpc \in [Readers -> {"idle", "reading"}]
    /\ rino \in [Readers -> Inodes \cup {NoFile}]
    /\ \A r \in Readers : rpc[r] = "reading" => rino[r] \in Inodes
    /\ rblock \in [Readers -> Blocks]
    /\ got \in [Readers -> [Blocks -> Values \cup {Blank, Missing}]]

\* All blocks hold the value of one and the same save.
Whole(blocks) == \E v \in Values : \A b \in Blocks : blocks[b] = v

(***************************************************************************)
(* A finished load saw one complete saved state or no file, never a mix of *)
(* two saves nor a truncated file, although it reads block by block while  *)
(* saves replace the file (docs/usage-model.md:95, "neither process can    *)
(* observe a torn/partial file").                                          *)
(***************************************************************************)
NeverTorn ==
    \A r \in Readers : rpc[r] = "idle" =>
        Whole(got[r]) \/ \A b \in Blocks : got[r][b] = Missing

(***************************************************************************)
(* The refinement of the atomic register: the save takes effect in the     *)
(* rename, the load when it opens the file.                                *)
(***************************************************************************)
Cell == INSTANCE DurableCell WITH
    cell    <- IF path = NoFile THEN Missing ELSE content[path][1],
    pending <- wval,
    seen    <- [r \in Readers |-> IF rpc[r] = "reading" THEN content[rino[r]][1] ELSE got[r][1]]

(***************************************************************************)
(* One save at a time implements the register: a save that returned true   *)
(* is what the next load returns, one that returned false or died changed  *)
(* nothing, and every load returns a value the file held when it started.  *)
(***************************************************************************)
ImplementsCell == Cell!Spec
=============================================================================
