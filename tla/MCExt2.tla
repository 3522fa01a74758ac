------------------------------- MODULE MCExt2 -------------------------------
(***************************************************************************)
(* Ext2 and DirBlock as TLC checks them.                                   *)
(*                                                                         *)
(* Two files of up to eight blocks of two words, with one direct block, so *)
(* that all three levels of index blocks are built and taken down.  They   *)
(* belong to the last of two groups: blocks that balloc() takes from the   *)
(* first group have the right numbers.                                     *)
(*                                                                         *)
(* A directory of 88 bytes and names of six lengths: blocks that fill to   *)
(* the last byte, entries that reach four bytes beyond it, and directories *)
(* that grow behind such an entry.                                         *)
(* The two modules share no state, so a behaviour is one of either and TLC *)
(* does not multiply their states.                                         *)
(***************************************************************************)
EXTENDS Ext2, DirBlock

MCGroup == [f \in FileIds |-> NGroups - 1]
MCMaxSize == <<16, 5>>
MCReserved == {0, 1, PerGroup}

MCNameLen == [n \in EntryNames \cup Dots |->
    CASE n = "."  -> 1
      [] n = ".." -> 2
      [] n = "ls" -> 2
      [] n = "abc" -> 3
      [] n = "link" -> 4
      [] n = "mkdir" -> 5
      [] n = "pipetest" -> 8
      [] n = "counterproductive" -> 17]

MCInit == Init /\ DirInit
MCFiles == dents = <<>> /\ Next /\ UNCHANGED <<dents, size>>
MCDirectory == ops = 0 /\ DirNext /\ UNCHANGED vars

MCSpec == MCInit /\ [][MCFiles \/ MCDirectory]_<<vars, dents, size>>
=============================================================================
