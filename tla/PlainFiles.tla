----------------------------- MODULE PlainFiles -----------------------------
(***************************************************************************)
(* What fs/ext2fs.c promises about file contents: a file is a sequence of  *)
(* words, a write replaces or appends words at an offset inside the file,  *)
(* truncate() cuts the file or fills it up with zeros, and no call on one  *)
(* file touches another.                                                   *)
(***************************************************************************)
EXTENDS Integers, Sequences

CONSTANTS
    FileIds,
    MaxSize,        \* the greatest size of each file
    Word(_, _)      \* what a program writes in a file at an offset

VARIABLE content

Init == content = [f \in FileIds |-> <<>>]

(* The words from offset off up to end are written.                        *)
Wrote(f, old, new, off, end) ==
    new = [i \in 1 .. (IF end > Len(old) THEN end ELSE Len(old)) |->
              IF i > off /\ i <= end THEN Word(f, i - 1) ELSE old[i]]

Truncated(old, new, len) == new = [i \in 1 .. len |-> IF i <= Len(old) THEN old[i] ELSE 0]

Next == \E f \in FileIds : \E old \in {content[f]}, new \in {content'[f]} :
            /\ \A g \in FileIds \ {f} : content'[g] = content[g]
            /\ \/ \E len \in 0 .. MaxSize[f] : Truncated(old, new, len)
               \/ \E off \in 0 .. Len(old), end \in 0 .. MaxSize[f] :
                     off < end /\ Wrote(f, old, new, off, end)

Spec == Init /\ [][Next]_content
=============================================================================
