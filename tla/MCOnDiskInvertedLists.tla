------------------------- MODULE MCOnDiskInvertedLists -------------------------
(* Instances of OnDiskInvertedLists for TLC.  Run ondisk_storage has        *)
(* entries of four bytes, so that others can use what lists leave behind.   *)
EXTENDS OnDiskInvertedLists

NoSources == {}
AllOps == {"add", "resize", "update", "merge", "crop", "save"}
AddAndShrink == {"add", "shrink"}
MergeThenAdd == {"merge", "add"}
AddOnly == {"add"}
MergeOnly == {"merge"}

(* entries of a source: source i, local ids from 0; codes are all different *)
Entry(i, id) == [code |-> 100 * i + id, id |-> id]
Run(i, first, n) == [k \in 1 .. n |-> Entry(i, first + k - 1)]

(* a source with a entries in list 0 and b in list 1 *)
SourceOf(i, a, b) == (0 :> Run(i, 0, a)) @@ (1 :> Run(i, a, b))

(* one to two sources, each of at most two entries a list *)
EqualShards ==
    {[ils |-> <<SourceOf(1, a, 2 - a), SourceOf(2, b, 2 - b)>>, shift |-> sh] :
        a, b \in 0 .. 2, sh \in BOOLEAN}
    \union {[ils |-> <<SourceOf(1, a, b)>>, shift |-> FALSE] : a, b \in 0 .. 2}

(* For ListsKeepApart and MergeContinuesIds, which do not hold (README,     *)
(* section 4): one source, which leaves list 1 empty                        *)
OneListFull == {[ils |-> <<SourceOf(1, 2, 0)>>, shift |-> FALSE]}

(* two shards, each numbered from 0, the second smaller than the first *)
SmallerSecondShard ==
    {[ils |-> <<SourceOf(1, 2, 0), SourceOf(2, 1, 0)>>, shift |-> TRUE]}
================================================================================
