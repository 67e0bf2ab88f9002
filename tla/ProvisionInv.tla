---------------------------- MODULE ProvisionInv ----------------------------
(***************************************************************************)
(* The inductive invariant behind the theorems of ProvisionProofs.         *)
(***************************************************************************)
EXTENDS Provision

Removing == {"rinfo", "rls", "rename", "rm"}

\* Each handler serves a request of its kind, and a Create without options
\* works on the image it is asked for.
TargetFits ==
    \A h \in Host :
        /\ pc[h] \in Removing => req[h].op = "remove"
        /\ pc[h] \notin Removing \union {"idle"} =>
              req[h].op = "create" /\ (Options \/ req[h].target = req[h].name)

\* A Remove does what some host is told to do.
ActionsFit ==
    \A h \in Host :
        /\ pc[h] \in {"rls", "rename"} => "rename" \in RemoveAction
        /\ pc[h] = "rm" => "delete" \in RemoveAction

\* A session belongs to one host, and so do the mutexes made with it.
SessionsOwned ==
    /\ \A k \in keys : k.sess <= lastSession
    /\ \A h \in Host : mine[h] # NoKey => mine[h].sess <= lastSession
    /\ \A g, h \in Host : g # h =>
          /\ session[g] # 0 => session[g] # session[h]
          /\ mine[g] # NoKey => session[h] # mine[g].sess

\* A mutex is for one handler, which has not locked it before "acquire".
MutexesFit ==
    /\ \A h \in Host : mine[h] # NoKey =>
          /\ pc[h] \in Working \union {"acquire"}
          /\ mine[h].vol = req[h].name /\ mine[h].mode = "rw"
    /\ \A g, h \in Host : g # h /\ mine[g] # NoKey /\ mine[h] # NoKey
          => mine[g].id # mine[h].id
    /\ \A h \in Host : pc[h] = "acquire" => \A k \in keys : k.id # mine[h].id

\* The lock service excludes, and guarded says what it should.
LocksExclude ==
    /\ S!E!RWExclusion
    /\ guarded => \A h \in Host : HasLock(h)

\* The image a Create has mapped was called by its name, and it may have
\* been removed since; an image that is not there yet is nobody's device.
BackupNames == {I!Trash(k, n) : k \in I!Number, n \in ToRemove}

DevicesNamed ==
    /\ \A i \in Image : names[i] = NoName => fs[i] = 0 /\ \A h \in Host : dev[h] # i
    /\ \A h \in Host : pc[h] = "mkfs" =>
          names[dev[h]] \in {Gone, req[h].target} \union BackupNames

\* No volume is created under the name of a backup that a Remove may make.
BackupsApart == BackupNames \intersect ToCreate = {}

\* From rbd create to mkfs, what a Create works on has no filesystem and is
\* its own.
Unformatted ==
    guarded /\ ~Options /\ BackupsApart =>
        /\ \A h \in Host : pc[h] = "map" => \A i \in Named(h) : fs[i] = 0
        /\ \A h \in Host : pc[h] = "mkfs" => fs[dev[h]] = 0
        /\ \A g, h \in Host : g # h /\ pc[g] = "mkfs" /\ pc[h] = "mkfs" => dev[g] # dev[h]
        /\ \A i \in Image : fs[i] <= 1

\* The backup numbers of a volume whose backups no request speaks of are used
\* from 0 on; the number a Remove has chosen may have been used meanwhile, but
\* the numbers below it are all in use.
Used(j, n) == I!Called(I!Trash(j, n)) # {}

NumbersUsed ==
    /\ \A n \in ToRemove : I!LeftAlone(n) =>
          \A j, k \in I!Number : j < k /\ Used(k, n) => Used(j, n)
    /\ \A h \in Host : pc[h] = "rename" /\ I!LeftAlone(req[h].name) =>
          \A j \in I!Number : j < number[h] => Used(j, req[h].name)

IInv ==
    /\ TargetFits
    /\ ActionsFit
    /\ SessionsOwned
    /\ MutexesFit
    /\ LocksExclude
    /\ DevicesNamed
    /\ Unformatted
    /\ NumbersUsed
=============================================================================
