------------------------------ MODULE MCFiles -------------------------------
(* Files as TLC checks it: two processes, a disk with the root directory,  *)
(* a directory d in it, a file f in the root, and one free inode number.   *)
(* With three slots, two of them taken by the root and d, a file or a pipe *)
(* finds the slot of another, and a third one has to wait; three fcbs are  *)
(* one pipe and one file.                                                  *)
EXTENDS Files, TLC

Abs(elems) == [abs |-> TRUE, elems |-> elems]
Rel(elems) == [abs |-> FALSE, elems |-> elems]

(* A path of chdir() and the pieces that abspath() sees.                   *)
Cut(path, toks) == [abs |-> path.abs, elems |-> path.elems,
                    text |-> [abs |-> path.abs, toks |-> toks]]
Said(path) == Cut(path, path.elems)

Of(name, paths) == [name : {name}, path : paths]
Opens(creat, sized, paths) ==
    [name : {"open"}, creat : {creat}, sized : {sized}, path : paths]

MCPathCalls ==
    Of("chdir", {Said(Rel(<<"d">>)), Said(Rel(<<"..">>)), Said(Abs(<<"f">>)),
                 Cut(Abs(<<>>), <<"gap">>), Cut(Abs(<<>>), <<"gap", "gap">>)})
    \cup Of("mkdir", {Rel(<<"d", "f">>)})
    \cup Of("creat", {Rel(<<"..">>), Rel(<<"f">>)})
    \cup Of("stat", {Abs(<<"f">>)})
    \cup Of("chmod", {Abs(<<>>)})
    \cup Of("truncate", {Abs(<<"f">>), Rel(<<"d", "f">>)})
    \cup Opens(FALSE, FALSE, {Abs(<<"f">>)})
    \cup Opens(FALSE, TRUE, {Abs(<<"f">>)})
    \cup Opens(TRUE, FALSE, {Rel(<<"d", "f">>), Abs(<<>>)})
    \cup {[name |-> "link", path |-> Abs(<<"f">>), new |-> Rel(<<"d", "f">>)]}

Empty == [m \in DirNames |-> 0]
MCTree == [n \in Inos |->
    CASE n = 1 -> [Empty EXCEPT !["."] = 1, ![".."] = 1, !["d"] = 2, !["f"] = 3]
      [] n = 2 -> [Empty EXCEPT !["."] = 2, ![".."] = 1]
      [] OTHER -> Empty]

Sym == Permutations(Procs)
=============================================================================
