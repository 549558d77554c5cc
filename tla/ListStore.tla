------------------------------- MODULE ListStore -------------------------------
(***************************************************************************)
(* What the inverted lists promise, whatever they are stored in: each list *)
(* is a sequence of entries, an entry is a code together with its id.      *)
(* add_entries appends, resize keeps the common prefix and leaves the rest *)
(* unspecified, update_entries overwrites entries in place.  An index that *)
(* is opened again has in each list what it had when it was saved, but for *)
(* the lists that changed since.                                           *)
(***************************************************************************)
EXTENDS Naturals, Sequences, FiniteSets

VARIABLES content,   \* list number -> sequence of [code, id]
          nadded,    \* entries written so far; entry k has code k and id k
          kept,      \* the saved lists that did not change since
          nopened    \* times the saved index was opened

svars == <<content, nadded, kept, nopened>>

Fresh(n) == [i \in 1 .. n |-> [code |-> nadded + i, id |-> nadded + i]]

(* the saved index, if there is one, is out of date for list l *)
Touch(l) ==
    /\ kept' = [m \in DOMAIN kept \ {l} |-> kept[m]]
    /\ UNCHANGED nopened

AddEntries(l, n) ==
    /\ nadded' = nadded + n
    /\ content' = [content EXCEPT ![l] = @ \o Fresh(n)]
    /\ Touch(l)

Resize(l) ==
    /\ UNCHANGED nadded
    /\ Touch(l)
    /\ LET new == content'
           old == content
       IN  /\ DOMAIN new = DOMAIN old
           /\ \A i \in DOMAIN old[l] \cap DOMAIN new[l] : new[l][i] = old[l][i]
           /\ \A m \in DOMAIN old \ {l} : new[m] = old[m]

Overwrite(l, first, n) ==
    /\ nadded' = nadded + n
    /\ first + n <= Len(content[l])
    /\ content' = [content EXCEPT ![l] =
          [i \in DOMAIN @ |-> IF i - first \in 1 .. n
                              THEN Fresh(n)[i - first] ELSE @[i]]]
    /\ Touch(l)

(* fill an empty store with the given lists *)
Load(newContent) ==
    /\ content' = newContent
    /\ kept' = <<>>
    /\ UNCHANGED <<nadded, nopened>>

(* keep the lists l0 .. l1 - 1, renumbered from 0 *)
Crop(l0, l1) ==
    /\ kept' = <<>>
    /\ UNCHANGED <<nadded, nopened>>
    /\ content' = [l \in 0 .. (l1 - l0 - 1) |-> content[l0 + l]]

Save ==
    /\ UNCHANGED <<nadded, nopened, content>>
    /\ kept' = content

Reopen ==
    /\ UNCHANGED nadded
    /\ kept' = <<>>
    /\ nopened' = nopened + 1
    /\ LET new == content'
       IN  /\ DOMAIN kept \subseteq DOMAIN new
           /\ \A l \in DOMAIN kept : new[l] = kept[l]

CONSTANTS MaxChunk, MaxSize, Loads

SInit ==
    /\ nadded = 0
    /\ kept = <<>>
    /\ nopened = 0
    /\ \E nlist \in 1 .. 3 : content = [l \in 0 .. (nlist - 1) |-> <<>>]

SNext ==
    \/ \E l \in DOMAIN content :
          \/ \E n \in 0 .. MaxChunk : AddEntries(l, n)
          \/ Resize(l)
          \/ \E n \in 1 .. MaxChunk, first \in 0 .. MaxSize : Overwrite(l, first, n)
    \/ /\ \A l \in DOMAIN content : content[l] = <<>>
       /\ \E c \in Loads : Load(c)
    \/ \E l1 \in 0 .. Cardinality(DOMAIN content) : \E l0 \in 0 .. l1 : Crop(l0, l1)
    \/ Save
    \/ Reopen

SSpec == SInit /\ [][SNext]_svars
================================================================================
