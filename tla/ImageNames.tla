----------------------------- MODULE ImageNames -----------------------------
(***************************************************************************)
(* What creating and removing volumes promises about the images of a Ceph  *)
(* pool, as if every operation were one step of one process: a name leads  *)
(* to at most one image; a removed volume's image is deleted, or kept      *)
(* under a backup name made of the old one and a number (the remove action *)
(* rename, main.go:33), which no other image has; and if no request ever   *)
(* speaks of the backups of a volume, they are numbered from 0 on, one     *)
(* after another.                                                          *)
(*                                                                         *)
(* The name of a backup is a name like any other, and may itself be asked  *)
(* for, be removed and have backups: a name is a word and the numbers that *)
(* were put before it in the course of time.                               *)
(***************************************************************************)
EXTENDS Integers, Sequences

CONSTANTS
    Name,       \* words, the names that are no backup's
    Image,      \* images, told apart whatever they are called
    LastNumber, \* the highest number generateImageBackupName recognises
    NoName,     \* the name of an image that is not there yet
    Gone,       \* the name of a deleted image
    ToCreate, ToRemove,     \* the names in the requests
    Alike,          \* pairs n, m: n, read as a pattern, matches m
    RemoveAction    \* what removing a volume may do to its image

VARIABLE names  \* what each image is called

Number == 0 .. LastNumber + 1
FullName == Name \X Seq(Number)

Trash(k, n) == <<n[1], Append(n[2], k)>>    \* "trash_k_n"

TypeOK == names \in [Image -> FullName \union {NoName, Gone}]

Called(name) == {i \in Image : names[i] = name}

\* No request speaks of the backups of n, and n matches no name but itself.
LeftAlone(n) ==
    /\ \A k \in Number : Trash(k, n) \notin ToCreate \union ToRemove
    /\ \A p \in Alike : p[1] # n

\* One more than the highest number in use.
NextNumber(n, k) ==
    /\ \A i \in Image, j \in Number : names[i] = Trash(j, n) => j < k
    /\ k = 0 \/ Called(Trash(k - 1, n)) # {}

-----------------------------------------------------------------------------
Init == names = [i \in Image |-> NoName]

Make(i, n) ==
    /\ names[i] = NoName
    /\ Called(n) = {}
    /\ names' = [names EXCEPT ![i] = n]

Keep(i, n) ==
    /\ "rename" \in RemoveAction
    /\ names[i] = n
    /\ \E k \in Number :
          /\ Called(Trash(k, n)) = {}
          /\ LeftAlone(n) => NextNumber(n, k)
          /\ names' = [names EXCEPT ![i] = Trash(k, n)]

Delete(i, n) ==
    /\ "delete" \in RemoveAction
    /\ names[i] = n
    /\ names' = [names EXCEPT ![i] = Gone]

Next ==
    \E i \in Image :
        \/ \E n \in ToCreate : Make(i, n)
        \/ \E n \in ToRemove : Keep(i, n) \/ Delete(i, n)

Spec == Init /\ [][Next]_names

-----------------------------------------------------------------------------
(***************************************************************************)
(* No two images go by one name, neither a volume's nor a backup's.        *)
(***************************************************************************)
OneImagePerName ==
    \A i, j \in Image : names[i] = names[j] /\ names[i] \in FullName => i = j
=============================================================================
