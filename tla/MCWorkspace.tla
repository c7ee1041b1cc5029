---------------------------- MODULE MCWorkspace ----------------------------
(* What the handlers of the chats and the commands of the operator share, one
   thing at a time: the sessions, the files of the first boot, the memory, the
   files of the workspace, the installation.  part says which of them a
   behaviour is about, and the state of the others stays as it is at first.
   They share no variable.  The handlers go on as long as there are turns left;
   the other parts may stop. *)
EXTENDS MCChatSession, BootMode, Memory, FileTools, Installation

CONSTANTS
  b1, b2, k1, k2,
  MaxChanges       (* bound: releases and commands of the operator together *)

VARIABLE part

EntryAt(path, is) == [path |-> path, is |-> is]
Trees ==
  {{},
   {EntryAt(<<1>>, "dir"), EntryAt(<<1, 0>>, "file"), EntryAt(<<2>>, "dir")},
   {EntryAt(<<1>>, "dir"), EntryAt(<<1, 0>>, "file"), EntryAt(<<2>>, "empty")},
   {EntryAt(<<1>>, "file"), EntryAt(<<2>>, "file")},
   {EntryAt(<<1>>, "dir"), EntryAt(<<1, 0>>, "file"), EntryAt(<<2>>, "dir"), EntryAt(<<2, 0>>, "file")},
   {EntryAt(<<1>>, "dir"), EntryAt(<<1, 0>>, "empty"), EntryAt(<<2>>, "file")}}

(* Equal words are most similar, and a few pairs of words not at all. *)
Similarity(question, memo) ==
  IF question = memo[1] THEN 2 ELSE IF question + memo[2] = 4 THEN 0 ELSE 1

IndexFiles == {<<1>>, <<3, 5, 1>>, <<9, 2>>, <<2, 2, 2, 4>>, <<3, 3, 3>>}

Said(chat, question, reply) ==
  [chat |-> chat, user |-> "u1", said |-> question, reply |-> reply]
EarlierTurns ==
  {<<>>, <<Said(k1, 2, 2), Said(k2, 0, 2)>>, <<Said(k1, 0, 2), Said(k1, 2, 0), Said(k1, 2, 2)>>}

storeVars == <<bootVars, memoryVars, fileToolVars, installVars>>
workspaceVars == <<part, vars, storeVars>>

WorkspaceInit ==
  /\ part \in {"sessions", "boot", "memory", "files", "installation"}
  /\ Init /\ BootInit /\ MemoryInit /\ FileToolsInit /\ InstallInit
  /\ part # "memory" => rows = <<>>
  /\ part # "files" => \A p \in Paths : entry[p] = NoEntry

WorkspaceNext ==
  /\ UNCHANGED part
  /\ \/ part = "sessions" /\ Next /\ UNCHANGED storeVars
     \/ part # "sessions" /\ UNCHANGED <<vars, storeVars>>
     \/ part = "boot" /\ BootNext /\ UNCHANGED <<vars, memoryVars, fileToolVars, installVars>>
     \/ part = "memory" /\ MemoryNext /\ UNCHANGED <<vars, bootVars, fileToolVars, installVars>>
     \/ part = "files" /\ FileToolsNext /\ UNCHANGED <<vars, bootVars, memoryVars, installVars>>
     \/ part = "installation" /\ InstallNext /\ published' + commands' <= MaxChanges
        /\ UNCHANGED <<vars, bootVars, memoryVars, fileToolVars>>

(* What is fair is disabled at first, so it asks nothing of the other parts. *)
WorkspaceSpec == WorkspaceInit /\ [][WorkspaceNext]_workspaceVars /\ Fairness

=============================================================================
