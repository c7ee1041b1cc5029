------------------------------ MODULE FileTools ------------------------------
(***************************************************************************)
(* The file tools (crates/unly-tools/src/builtin/fs.rs): fs_read, fs_list,  *)
(* fs_write, fs_delete, fs_copy, fs_move, fs_mkdir, fs_stat and fs_grep.    *)
(* The calls of one turn follow one another; those of other turns, of       *)
(* subagents and jobs run at the same time, so each call is a process and   *)
(* one action is one system call, or a few that nothing here tells apart.   *)
(*                                                                          *)
(* The tree has two names at the top and one below each.  A file is an      *)
(* inode, its content a sequence of texts: a call writes its own number.    *)
(* Paths with ".." are refused before anything happens and are left out.    *)
(***************************************************************************)
EXTENDS Naturals, Sequences, FiniteSets, FiniteSetsExt

CONSTANTS
  FileCalls,       (* the calls, 1..n, numbered in the order they begin    *)
  FirstTrees,      (* what may be there: sets of [path, is] with is one of
                      "dir", "file" and "empty"                             *)
  MaxHits          (* max_results of fs_grep                               *)

Tops == {1, 2}
Paths == {<<t>> : t \in Tops} \union {<<t, 0>> : t \in Tops}

Under(p, q) == Len(p) <= Len(q) /\ SubSeq(q, 1, Len(p)) = p
Beneath(p) == {q \in Paths : Under(p, q) /\ q # p}
Rebase(src, dst, p) == dst \o SubSeq(p, Len(src) + 1, Len(p))

(* The text, and the inode, that a path has at first. *)
Old(p) == 10 * Len(p) + p[1]

NoEntry == 0
Directory == 100
Nodes == FileCalls \union {Old(p) : p \in Paths}

(* A call's number is not an inode that was there; a tree has one entry at a
   path, and entries in directories only. *)
ASSUME FilesAssumption ==
  /\ FileCalls \intersect ({NoEntry, Directory} \union {Old(p) : p \in Paths}) = {}
  /\ \A tree \in FirstTrees :
       /\ tree \subseteq [path : Paths, is : {"dir", "file", "empty"}]
       /\ \A e, f \in tree : e.path = f.path => e = f
       /\ \A e \in tree : Len(e.path) = 2 => [path |-> <<e.path[1]>>, is |-> "dir"] \in tree

VARIABLES
  entry,           (* path -> NoEntry, Directory or an inode               *)
  text,            (* inode -> sequence of texts                           *)
  call,            (* each call: [op, at, reads, writes, got]; at is the next
                      step, or how the call ended: "ok", "error"            *)
  firstTexts       (* history: the paths that held a text at first         *)

fileToolVars == <<entry, text, call, firstTexts>>

IsFile(p) == entry[p] \in Nodes
IsDir(p) == entry[p] = Directory
Hangs(p) == Len(p) = 1 \/ entry[<<p[1]>>] = Directory

NoRequest == [do |-> "none", path |-> <<>>, dst |-> <<>>, flag |-> FALSE]

Looks == {"read", "list", "stat", "grep"}

(* What a turn may ask for. *)
Ops ==
  [do : Looks \union {"mkdir"}, path : Paths, dst : {<<>>}, flag : {FALSE}]
  \union [do : {"write", "delete"}, path : Paths, dst : {<<>>}, flag : BOOLEAN]
  \union [do : {"copy", "move"}, path : Paths, dst : Paths, flag : {FALSE}]

FileToolsInit ==
  \E tree \in FirstTrees :
    /\ entry = [p \in Paths |->
         IF \E e \in tree : e.path = p /\ e.is = "dir" THEN Directory
         ELSE IF \E e \in tree : e.path = p THEN Old(p) ELSE NoEntry]
    /\ text = [i \in Nodes |->
         IF \E e \in tree : e.is = "file" /\ Old(e.path) = i THEN <<i>> ELSE <<>>]
    /\ firstTexts = {e.path : e \in {f \in tree : f.is = "file"}}
    /\ call = [c \in FileCalls |-> [op |-> NoRequest, at |-> "new", reads |-> 0, writes |-> 0, got |-> {}]]

-----------------------------------------------------------------------------
(* Steps of a call. *)

Stands(c, do, at) == call[c].op.do = do /\ call[c].at = at
Moves(c, at) == call' = [call EXCEPT ![c].at = at]
Refused(c) == Moves(c, "error") /\ UNCHANGED <<entry, text>>
Written(c) == IF call[c].op.do \in {"copy", "move"} THEN call[c].op.dst ELSE call[c].op.path

BeginCall(c) ==
  /\ call[c].at = "new"
  /\ \A d \in FileCalls : d < c => call[d].at # "new"
  /\ \E o \in Ops :
       call' = [call EXCEPT ![c].op = o,
                            ![c].at = CASE o.do \in Looks -> "look"
                                        [] o.do = "delete" -> "kind"
                                        [] OTHER -> "parents"]
  /\ UNCHANGED <<entry, text>>

(* create_dir_all(parent), the first step of fs_write, fs_copy and fs_move;
   fs_mkdir does it for the path itself. *)
MakeParents(c) ==
  LET p == Written(c)
      next == CASE call[c].op.do = "write" -> "open" [] call[c].op.do = "copy" -> "source"
                [] call[c].op.do = "move" -> "rename" [] OTHER -> "mkdir"
  IN /\ call[c].at = "parents"
     /\ IF Hangs(p) THEN Moves(c, next) /\ UNCHANGED entry
        ELSE IF entry[<<p[1]>>] = NoEntry
             THEN Moves(c, next) /\ entry' = [entry EXCEPT ![<<p[1]>>] = Directory]
             ELSE Moves(c, "error") /\ UNCHANGED entry
     /\ UNCHANGED text

MakeDirectory(c) ==
  LET p == Written(c)
  IN /\ Stands(c, "mkdir", "mkdir")
     /\ IF IsFile(p) \/ ~Hangs(p) THEN Refused(c)
        ELSE Moves(c, "ok") /\ entry' = [entry EXCEPT ![p] = Directory] /\ UNCHANGED text

(* Opens p for writing, creating it, and empties it if asked to. *)
Opens(c, p, empties) ==
  IF IsDir(p) \/ ~Hangs(p) THEN Refused(c)
  ELSE LET i == IF IsFile(p) THEN entry[p] ELSE c
       IN /\ entry' = [entry EXCEPT ![p] = i]
          /\ text' = IF empties THEN [text EXCEPT ![i] = <<>>] ELSE text
          /\ call' = [call EXCEPT ![c].at = "fill", ![c].writes = i]

(* Mutant: the file is emptied, append or not. *)
WriteOpens_AlwaysEmpties(c) == Stands(c, "write", "open") /\ Opens(c, call[c].op.path, TRUE)

(* fs_write: the flag is `append`. *)
WriteOpens(c) == Stands(c, "write", "open") /\ Opens(c, call[c].op.path, ~call[c].op.flag)

(* Writing at the beginning leaves what is behind. *)
Over(new, old) == new \o SubSeq(old, Len(new) + 1, Len(old))

(* Each write may fail, with the file already emptied. *)
WriteFills(c) ==
  /\ Stands(c, "write", "fill")
  /\ \/ LET i == call[c].writes
        IN /\ text' = [text EXCEPT ![i] = IF call[c].op.flag THEN Append(@, c) ELSE Over(<<c>>, @)]
           /\ Moves(c, "ok") /\ UNCHANGED entry
     \/ Refused(c)

(* std::fs::copy: the source is opened, then the destination emptied... *)
CopyOpensSource(c) ==
  /\ Stands(c, "copy", "source")
  /\ IF ~IsFile(call[c].op.path) THEN Refused(c)
     ELSE /\ call' = [call EXCEPT ![c].at = "open", ![c].reads = entry[call[c].op.path]]
          /\ UNCHANGED <<entry, text>>

CopyOpens(c) == Stands(c, "copy", "open") /\ Opens(c, call[c].op.dst, TRUE)

(* ... and the content read from what is there by then. *)
CopyFills(c) ==
  /\ Stands(c, "copy", "fill")
  /\ \/ /\ text' = [text EXCEPT ![call[c].writes] = Over(text[call[c].reads], @)]
        /\ Moves(c, "ok") /\ UNCHANGED entry
     \/ Refused(c)

(* rename(2): a directory replaces an empty one only, a file no directory,
   and nothing moves below itself. *)
MayRename(src, dst) ==
  /\ entry[src] # NoEntry /\ Hangs(dst) /\ (Under(src, dst) => src = dst)
  /\ \/ src = dst \/ entry[dst] = NoEntry
     \/ IsFile(src) /\ IsFile(dst)
     \/ IsDir(src) /\ IsDir(dst) /\ \A q \in Beneath(dst) : entry[q] = NoEntry

(* fs_move; moving a directory that has something below itself two levels
   down is outside the tree and refused. *)
Rename(c) ==
  LET src == call[c].op.path
      dst == call[c].op.dst
      moved == {q \in Paths : Under(src, q)}
  IN /\ Stands(c, "move", "rename")
     /\ IF ~MayRename(src, dst) \/ \E q \in moved : entry[q] # NoEntry /\ Rebase(src, dst, q) \notin Paths
        THEN Refused(c)
        ELSE /\ entry' = [q \in Paths |->
                  IF src = dst THEN entry[q]
                  ELSE IF Under(dst, q)
                       THEN LET old == Rebase(dst, src, q)
                            IN IF old \in Paths THEN entry[old] ELSE NoEntry
                       ELSE IF q \in moved THEN NoEntry ELSE entry[q]]
             /\ Moves(c, "ok") /\ UNCHANGED text

(* fs_delete looks at the path and then acts on what it saw; the flag is
   `recursive`. *)
DeleteLooks(c) ==
  /\ Stands(c, "delete", "kind")
  /\ LET p == call[c].op.path
     IN Moves(c, CASE entry[p] = NoEntry -> "error" [] IsFile(p) -> "unlink"
                   [] call[c].op.flag -> "children" [] OTHER -> "rmdir")
  /\ UNCHANGED <<entry, text>>

DeleteFile(c) ==
  LET p == call[c].op.path
  IN /\ Stands(c, "delete", "unlink")
     /\ IF IsFile(p) THEN entry' = [entry EXCEPT ![p] = NoEntry] /\ Moves(c, "ok") /\ UNCHANGED text
        ELSE Refused(c)

DeleteChildren(c) ==
  LET p == call[c].op.path
  IN /\ Stands(c, "delete", "children")
     /\ IF IsDir(p)
        THEN /\ entry' = [q \in Paths |-> IF q \in Beneath(p) THEN NoEntry ELSE entry[q]]
             /\ Moves(c, "rmdir") /\ UNCHANGED text
        ELSE Refused(c)

DeleteDirectory(c) ==
  LET p == call[c].op.path
  IN /\ Stands(c, "delete", "rmdir")
     /\ IF IsDir(p) /\ \A q \in Beneath(p) : entry[q] = NoEntry
        THEN entry' = [entry EXCEPT ![p] = NoEntry] /\ Moves(c, "ok") /\ UNCHANGED text
        ELSE Refused(c)

(* The files in which fs_grep finds lines: every text is a line that matches. *)
Hits(p) == {q \in Paths : Under(p, q) /\ IsFile(q) /\ text[entry[q]] # <<>>}
LinesIn(found) == FoldSet(LAMBDA q, n : n + Len(text[entry[q]]), 0, found)

(* fs_read, fs_list, fs_stat and fs_grep change nothing. *)
LooksAt(c, do, found, ok) ==
  /\ Stands(c, do, "look")
  /\ call' = [call EXCEPT ![c].got = found, ![c].at = IF ok THEN "ok" ELSE "error"]
  /\ UNCHANGED <<entry, text>>

FsRead(c) == LooksAt(c, "read", {call[c].op.path}, IsFile(call[c].op.path))

FsList(c) ==
  LET p == call[c].op.path
  IN LooksAt(c, "list", {q \in Beneath(p) : entry[q] # NoEntry}, IsDir(p))

FsStat(c) == LooksAt(c, "stat", {call[c].op.path}, entry[call[c].op.path] # NoEntry)

(* fs_grep never fails, and stops at max_results lines, file by file in the
   order of the directory. *)
FsGrep(c) ==
  LET hits == Hits(call[c].op.path)
  IN \E found \in SUBSET hits :
       /\ found = hits \/ LinesIn(found) >= MaxHits
       /\ Cardinality(found) <= MaxHits
       /\ LooksAt(c, "grep", found, TRUE)

FileStep(c) ==
  BeginCall(c) \/ MakeParents(c) \/ MakeDirectory(c) \/ WriteOpens(c) \/ WriteFills(c)
  \/ CopyOpensSource(c) \/ CopyOpens(c) \/ CopyFills(c) \/ Rename(c)
  \/ DeleteLooks(c) \/ DeleteFile(c) \/ DeleteChildren(c) \/ DeleteDirectory(c)
  \/ FsRead(c) \/ FsList(c) \/ FsStat(c) \/ FsGrep(c)

FileToolsNext == (\E c \in FileCalls : FileStep(c)) /\ UNCHANGED firstTexts

-----------------------------------------------------------------------------
(* Properties. *)

Begun == {c \in FileCalls : call[c].at # "new"}
Named(c) == {call[c].op.path, Written(c)}

(* Places between which the moves of the calls in D may have taken a file. *)
MoveWithin(S, D) ==
  \A d \in D, p \in Paths :
    LET o == call[d].op
    IN o.do = "move" /\ Under(o.path, p) /\ Rebase(o.path, o.dst, p) \in Paths =>
         (p \in S <=> Rebase(o.path, o.dst, p) \in S)
Homes(p, D) ==
  {q \in Paths : \A S \in SUBSET Paths : MoveWithin(S, D) => (p \in S <=> q \in S)}

(* A call that was asked to give up what p holds. *)
AskedToLose(d, p) ==
  LET o == call[d].op
  IN \/ o.do = "write" /\ ~o.flag /\ o.path = p
     \/ o.do = "delete" /\ IF o.flag THEN Under(o.path, p) ELSE o.path = p
     \/ o.do = "copy" /\ o.dst = p
     \/ o.do = "move" /\ o.dst = p /\ o.path # p

(* ... where the moves of others may have taken the file at p. *)
GivenUp(p, D) == \E d \in D, q \in Paths : AskedToLose(d, q) /\ q \in Homes(p, Begun \ {d})

Linked(t) == \E q \in Paths : IsFile(q) /\ \E k \in DOMAIN text[entry[q]] : text[entry[q]][k] = t

(* A text that was there, or that fs_write reported as written, is still in
   some file, however the calls interleave and whichever fail, unless a call
   was asked to overwrite or delete a place where others may have moved it:
   appends, moves, copies elsewhere and deletes of directories that are not
   empty lose nothing (fs.rs:204-232, 311-325, 403-423, 487-502). *)
TextSurvives ==
  /\ \A p \in firstTexts : Linked(Old(p)) \/ GivenUp(p, Begun)
  /\ \A c \in Begun : Stands(c, "write", "ok") => Linked(c) \/ GivenUp(call[c].op.path, Begun \ {c})

(* No other call had to do with the paths of c. *)
Undisturbed(c) ==
  \A d \in Begun \ {c} : \A p \in Named(c), q \in Named(d) : ~Under(p, q) /\ ~Under(q, p)

(* What a call that succeeded has reported: the text is all the file holds (or
   its end, for an append), the copy is what the source is, what was moved or
   deleted is gone, what was looked up is there.  A copy onto itself is the
   exception: it empties the file. *)
IsSo(c) ==
  LET p == call[c].op.path
      q == call[c].op.dst
      do == call[c].op.do
  IN /\ do = "write" =>
          /\ IsFile(p) /\ text[entry[p]] # <<>> /\ text[entry[p]][Len(text[entry[p]])] = c
          /\ ~call[c].op.flag => text[entry[p]] = <<c>>
     /\ do = "delete" => \A r \in Paths : Under(p, r) => entry[r] = NoEntry
     /\ do = "mkdir" => IsDir(p)
     /\ do = "copy" /\ p # q => IsFile(p) /\ IsFile(q) /\ text[entry[p]] = text[entry[q]]
     /\ do = "move" => entry[q] # NoEntry /\ (p # q => entry[p] = NoEntry)
     /\ do = "grep" => call[c].got \subseteq Hits(p) /\ Cardinality(call[c].got) <= MaxHits
     /\ do = "list" => call[c].got = {r \in Beneath(p) : entry[r] # NoEntry}
     /\ do = "read" => IsFile(p)
     /\ do = "stat" => entry[p] # NoEntry

(* What a call reports is so, whatever calls on other paths do meanwhile. *)
SuccessIsTrue == \A c \in Begun : call[c].at = "ok" /\ Undisturbed(c) => IsSo(c)

(* The file tools under any interleaving and failure: no text is lost that no
   call was asked to give up, and a success that was reported is true. *)
FilesInv == TextSurvives /\ SuccessIsTrue

=============================================================================
