--------------------------- MODULE OciStoreProofs ---------------------------
(***************************************************************************)
(* The safety properties of OciStore, proved for any commands, names,      *)
(* images, registry and number of commands.                                *)
(*                                                                         *)
(* Types and roles come first: which command can be at which place, and    *)
(* what it has in hand there. Inv then says what the local store owes to   *)
(* interrupted copies (Halves), what TryFromLocal (Fetched), build         *)
(* (Output) and the writers of the index (Fresh) can rely on while they    *)
(* are not disturbed, and the properties that follow from these.           *)
(***************************************************************************)
EXTENDS OciStore, TLAPS

AllBlobs == UNION {Blobs(i) : i \in Images}

\* An index gives names to images that exist.
IsIndex(x) == DOMAIN x \subseteq Refs /\ \A r \in DOMAIN x : x[r] \in Images

Commands == {"none", "pull", "push", "try", "package", "tag", "build"}

\* The types of the stores, of the processes and of the history variables.
StoreTypes ==
  /\ blobs \in [Sites -> SUBSET AllBlobs]
  /\ DOMAIN index = Sites /\ \A s \in Sites : IsIndex(index[s])
  /\ torn \in BOOLEAN
  /\ ofile \in Images \cup {NoImage}
  /\ commands \in 0..MaxCommands
  /\ interrupted \subseteq Images

LocalTypes ==
  /\ pc \in [Procs -> PCs]
  /\ cmd \in [Procs -> Commands]
  /\ ref \in [Procs -> Refs \cup {NoRef}]
  /\ to \in [Procs -> Refs \cup {NoRef}]
  /\ img \in [Procs -> Images \cup {NoImage}]
  /\ want \in [Procs -> Images \cup {NoImage}]
  /\ DOMAIN mem = Procs /\ \A c \in Procs : IsIndex(mem[c])
  /\ named \in [Procs -> BOOLEAN]
  /\ reason \in [Procs -> {"none", "local", "torn", "save", "remote", "build"}]
  /\ stale \in [Procs -> BOOLEAN]
  /\ disturbed \in [Procs -> BOOLEAN]
  /\ clobbered \in [Procs -> BOOLEAN]

\* Which command is where, and what it has by then.
Roles ==
  \A c \in Procs :
    /\ pc[c] \notin Resting => to[c] \in Refs
    /\ pc[c] \in {"look", "pullfirst", "readfirst", "pull", "read"} => cmd[c] = "try"
    /\ pc[c] \in {"tagload", "tagsave", "tagwrite"} => cmd[c] = "tag"
    /\ pc[c] \in {"create", "compile", "pack", "buildopen"} =>
         cmd[c] = "build" /\ want[c] \in Images
    /\ pc[c] = "resolve" => cmd[c] \notin {"tag", "build"}
    /\ pc[c] \in Copying => cmd[c] # "tag"
    /\ pc[c] \in {"compile", "pack"} => ofile # NoImage
    /\ pc[c] \in {"save", "write"} => Dest(c) = "local"
    /\ pc[c] \in Copying \cup {"readfirst", "pull", "read", "tagsave", "tagwrite", "buildopen"} =>
         img[c] \in Images
    /\ cmd[c] = "try" => ref[c] = to[c]

TypeInv == StoreTypes /\ LocalTypes /\ Roles

\* Adding a name to an index changes that name only.
LEMMA WithIndex ==
  ASSUME NEW x, IsIndex(x), NEW r \in Refs, NEW i \in Images
  PROVE  /\ IsIndex(With(x, r, i))
         /\ DOMAIN With(x, r, i) = DOMAIN x \cup {r}
         /\ With(x, r, i)[r] = i
         /\ \A y \in DOMAIN x : y # r => With(x, r, i)[y] = x[y]
BY DEF IsIndex, With

\* The stores and processes are well typed before the first command.
LEMMA TypeInit == Init => TypeInv
<1> SUFFICES ASSUME Init PROVE TypeInv
  OBVIOUS
<1> PICK g \in Registries :
      /\ index = [s \in Sites |-> IF s = "remote" THEN g ELSE << >>]
      /\ blobs = [s \in Sites |->
                    IF s = "remote" THEN UNION {Blobs(g[r]) : r \in DOMAIN g} ELSE {}]
  BY DEF Init
<1>1. IsIndex(g) /\ IsIndex(<< >>)
  BY RegistriesAssumption DEF IsIndex
<1>2. UNION {Blobs(g[r]) : r \in DOMAIN g} \subseteq AllBlobs
  BY <1>1 DEF IsIndex, AllBlobs
<1>t. torn \in BOOLEAN
  BY DEF Init
<1>3. StoreTypes
  BY <1>1, <1>2, <1>t, BoundAssumption DEF Init, StoreTypes
<1>4. named \in [Procs -> BOOLEAN] /\ stale \in [Procs -> BOOLEAN]
      /\ disturbed \in [Procs -> BOOLEAN] /\ clobbered \in [Procs -> BOOLEAN]
  BY DEF Init
<1>5. LocalTypes
  BY <1>1, <1>4 DEF Init, LocalTypes, PCs, Resting, Commands
<1>6. Roles
  BY DEF Init, Roles, Resting, Copying
<1> QED
  BY <1>3, <1>5, <1>6 DEF TypeInv

\* A command line is well typed when it begins at the right place.
LEMMA BeginTypes ==
  ASSUME TypeInv, NEW c \in Procs, NEW name \in Commands,
         NEW l \in {"resolve", "look", "tagload", "create"},
         NEW r \in Refs \cup {NoRef}, NEW t \in Refs, NEW source \in Images \cup {NoImage},
         l = "resolve" => name \notin {"tag", "build"},
         l = "look" => name = "try",
         l = "tagload" => name = "tag",
         l = "create" => name = "build" /\ source \in Images,
         name = "try" => r = t,
         Begin(c, name, l, r, t, source)
  PROVE  /\ LocalTypes' /\ Roles'
         /\ commands' \in 0..MaxCommands /\ torn' = torn /\ ofile' = ofile /\ interrupted' = interrupted
<1>1. IsIndex(<< >>)
  BY DEF IsIndex
<1>2. mem' = [mem EXCEPT ![c] = << >>] /\ DOMAIN mem = Procs /\ \A d \in Procs : IsIndex(mem[d])
  BY DEF Begin, TypeInv, LocalTypes
<1>3. DOMAIN mem' = Procs /\ \A d \in Procs : IsIndex(mem'[d])
  BY <1>1, <1>2
<1>4. (named \in [Procs -> BOOLEAN] /\ stale \in [Procs -> BOOLEAN]
      /\ disturbed \in [Procs -> BOOLEAN] /\ clobbered \in [Procs -> BOOLEAN])'
  BY DEF Begin, TypeInv, LocalTypes
<1>5. commands' \in 0..MaxCommands /\ torn' = torn /\ ofile' = ofile /\ interrupted' = interrupted
  BY BoundAssumption DEF Begin, TypeInv, StoreTypes
<1>6. LocalTypes'
  BY <1>3, <1>4 DEF Begin, TypeInv, LocalTypes, Goto, PCs, Resting
<1>7. Roles'
  BY DEF Begin, TypeInv, LocalTypes, Roles, Goto, Resting, Copying, Dest
<1> QED
  BY <1>5, <1>6, <1>7

\* What a save of the index leaves well typed.
SavedTypes ==
  /\ DOMAIN index' = Sites /\ \A s \in Sites : IsIndex(index'[s])
  /\ torn' \in BOOLEAN /\ stale' \in [Procs -> BOOLEAN] /\ disturbed' \in [Procs -> BOOLEAN]
  /\ blobs' = blobs /\ ofile' = ofile /\ interrupted' = interrupted /\ clobbered' = clobbered

\* A save writes an index and moves the history of the other commands.
LEMMA SaveTypes ==
  ASSUME TypeInv, NEW c \in Procs, NEW x, IsIndex(x), SaveIndex(c, x)
  PROVE  SavedTypes
<1>1. DOMAIN index' = Sites /\ \A s \in Sites : IsIndex(index'[s])
  BY DEF SaveIndex, TypeInv, StoreTypes, Sites
<1>2. stale' \in [Procs -> BOOLEAN]
  BY DEF SaveIndex, TypeInv, LocalTypes
<1>3. disturbed' \in [Procs -> BOOLEAN]
  BY DEF SaveIndex, TypeInv, LocalTypes
<1>4. torn' \in BOOLEAN
  BY DEF SaveIndex
<1> QED
  BY <1>1, <1>2, <1>3, <1>4 DEF SaveIndex, SavedTypes

\* Every step of every command keeps the types and the roles.
LEMMA TypeStep == TypeInv /\ [Next]_vars => TypeInv'
<1> SUFFICES ASSUME TypeInv, [Next]_vars PROVE TypeInv'
  OBVIOUS
<1>1. CASE UNCHANGED vars
  BY <1>1 DEF vars, stores, local, history, TypeInv, StoreTypes, LocalTypes, Roles, Dest
<1> USE DEF TypeInv, StoreTypes, Sites, Commands
<1>2. ASSUME NEW c \in Procs, Start(c) PROVE TypeInv'
  <2>1. ASSUME NEW r \in Refs, StartPull(c, r) PROVE TypeInv'
    BY <2>1, BeginTypes DEF StartPull
  <2>2. ASSUME NEW r \in Refs, StartPush(c, r) PROVE TypeInv'
    BY <2>2, BeginTypes DEF StartPush
  <2>3. ASSUME NEW r \in Refs, StartTry(c, r) PROVE TypeInv'
    BY <2>3, BeginTypes DEF StartTry
  <2>4. ASSUME NEW r \in Refs, StartPackage(c, r) PROVE TypeInv'
    BY <2>4, BeginTypes DEF StartPackage, IsIndex
  <2>5. ASSUME NEW r \in Refs, NEW t \in Refs, StartTag(c, r, t) PROVE TypeInv'
    BY <2>5, BeginTypes DEF StartTag
  <2>6. ASSUME NEW t \in Refs, NEW i \in Sources, StartBuild(c, t, i) PROVE TypeInv'
    BY <2>6, BeginTypes, ImagesAssumption DEF StartBuild
  <2> QED
    BY <1>2, <2>1, <2>2, <2>3, <2>4, <2>5, <2>6 DEF Start
<1> USE DEF LocalTypes, Roles, PCs, Resting, Copying, Goto, Fail, stores, local, history
<1>3. ASSUME NEW c \in Procs, Step(c) PROVE TypeInv'
  <2>1. CASE Resolve(c)
    BY <2>1 DEF Resolve, Resolves, Unresolved, Dest, From, IsIndex
  <2>2. CASE CopyName(c)
    <3>1. IsIndex(index[Dest(c)])
      BY DEF Dest
    <3>2. IsIndex(With(index[Dest(c)], to[c], img[c]))
      BY <2>2, <3>1, WithIndex DEF CopyName
    <3>3. DOMAIN index' = Sites /\ \A s \in Sites : IsIndex(index'[s])
      BY <2>2, <3>2 DEF CopyName
    <3>4. torn' \in BOOLEAN /\ named' \in [Procs -> BOOLEAN]
      BY <2>2 DEF CopyName
    <3> QED
      BY <2>2, <3>3, <3>4 DEF CopyName, Dest
  <2>3. CASE CopyLoadIndex(c)
    BY <2>3 DEF CopyLoadIndex, LoadIndex, Dest, IsIndex
  <2>4. CASE CopySaveIndex(c)
    <3>0. IsIndex(<< >>)
      BY DEF IsIndex
    <3>1. IsIndex(With(mem[c], to[c], img[c]))
      BY <2>4, WithIndex DEF CopySaveIndex
    <3>2. SavedTypes
      BY <2>4, <3>1, SaveTypes DEF CopySaveIndex
    <3>3. DOMAIN mem' = Procs /\ \A d \in Procs : IsIndex(mem'[d])
      BY <2>4, <3>0 DEF CopySaveIndex
    <3>4. named' \in [Procs -> BOOLEAN]
      BY <2>4 DEF CopySaveIndex
    <3> QED
      BY <2>4, <3>2, <3>3, <3>4 DEF CopySaveIndex, SavedTypes, Dest
  <2>5. CASE CopyDone(c)
    BY <2>5 DEF CopyDone, Dest
  <2>6. CASE CopyFails(c)
    BY <2>6 DEF CopyFails, Dest, From
  <2>7. CASE LookLocal(c)
    BY <2>7 DEF LookLocal, Resolves, Dest, IsIndex
  <2>8. CASE PullFirst(c)
    BY <2>8 DEF PullFirst, Resolves, Dest, IsIndex
  <2>9. CASE Pull(c)
    BY <2>9 DEF Pull, Resolves, Unresolved, Dest, IsIndex
  <2>10. CASE PullRead(c)
    BY <2>10 DEF PullRead, Dest
  <2>11. CASE TagLoad(c)
    <3>1. IsIndex(index["local"]) /\ index["local"][ref[c]] \in Images
      BY <2>11 DEF TagLoad, IsIndex
    <3>2. DOMAIN mem' = Procs /\ \A d \in Procs : IsIndex(mem[d])'
      BY <2>11, <3>1 DEF TagLoad, LoadIndex
    <3> QED
      BY <2>11, <3>1, <3>2 DEF TagLoad, LoadIndex, Dest
  <2>12. CASE TagSave(c)
    <3>0. IsIndex(<< >>)
      BY DEF IsIndex
    <3>1. IsIndex(With(mem[c], to[c], img[c]))
      BY <2>12, WithIndex DEF TagSave
    <3>2. SavedTypes
      BY <2>12, <3>1, SaveTypes DEF TagSave, Tagged
    <3>3. DOMAIN mem' = Procs /\ \A d \in Procs : IsIndex(mem'[d])
      BY <2>12, <3>0 DEF TagSave
    <3> QED
      BY <2>12, <3>2, <3>3 DEF TagSave, SavedTypes, Dest
  <2>13. CASE BuildCreate(c)
    BY <2>13, ImagesAssumption DEF BuildCreate, Dest, Clobber
  <2>14. CASE BuildCompile(c)
    <3>1. clobbered' \in [Procs -> BOOLEAN]
      BY <2>14 DEF BuildCompile, Clobber
    <3> QED
      BY <2>14, <3>1, ImagesAssumption DEF BuildCompile, Dest
  <2>15. CASE BuildCompileFails(c)
    BY <2>15 DEF BuildCompileFails, Dest
  <2>16. CASE BuildPack(c)
    BY <2>16 DEF BuildPack, Dest
  <2>17. CASE \E b \in Wanted(img[c]) : CopyBlob(c, b)
    BY <2>17 DEF CopyBlob, Wanted, AllBlobs, Dest
  <2>18. CASE EmptyIndex(c)
    BY <2>18 DEF EmptyIndex, Saving, Dest
  <2>19. CASE SaveFails(c)
    BY <2>19 DEF SaveFails, Saving, Dest, IsIndex
  <2>20. CASE ReadFirst(c)
    BY <2>20 DEF ReadFirst, Dest
  <2>21. CASE TagFails(c)
    BY <2>21 DEF TagFails, Unresolved, Dest
  <2>22. CASE BuildOpen(c)
    BY <2>22 DEF BuildOpen, Dest
  <2> QED
    BY <1>3, <2>1, <2>2, <2>3, <2>4, <2>5, <2>6, <2>7, <2>8, <2>9, <2>10, <2>11, <2>12, <2>13,
       <2>14, <2>15, <2>16, <2>17, <2>18, <2>19, <2>20, <2>21, <2>22
    DEF Step, Copy
<1>4. ASSUME NEW c \in Procs, Killed(c) PROVE TypeInv'
  BY <1>4 DEF Killed, IsIndex, Dest
<1> QED
  BY <1>1, <1>2, <1>3, <1>4 DEF Next

\* Every command, however it is interrupted, leaves only images that exist under
\* names that exist, and has an image in hand whenever it copies one.
THEOREM TypeCorrect == Spec => []TypeOK
<1>1. TypeInv => TypeOK
  BY DEF TypeInv, TypeOK, StoreTypes, LocalTypes, Roles, Copying, IsIndex, AllBlobs
<1> QED
  BY <1>1, TypeInit, TypeStep, PTL DEF Spec

-----------------------------------------------------------------------------
(* What the stores hold and what the commands know of it.                  *)

\* The images that may be in the local store in part: those of bee that are not
\* complete there are being copied into it, or a copy of them was interrupted.
Accounted ==
  {i \in Images :
     \/ i \in Foreign \/ Blobs(i) \subseteq blobs["local"]
     \/ i \in interrupted
     \/ \E c \in Procs : pc[c] \in Copying /\ Dest(c) = "local" /\ img[c] = i}

\* Not only what the index names, also what commands have loaded of it and will
\* save again.
Halves ==
  /\ \A r \in DOMAIN index["local"] : index["local"][r] \in Accounted
  /\ \A c \in Procs : Saving(c) =>
       \A r \in DOMAIN mem[c] : mem[c][r] \in Accounted
  /\ \A c \in Procs : pc[c] \in {"tagsave", "tagwrite"} => img[c] \in Accounted

\* TryFromLocal from the copy to the read, as long as nobody changes its name.
Fetched ==
  \A c \in Procs :
    /\ pc[c] = "pull" => named[c]
    /\ pc[c] \in {"pull", "read"} => disturbed[c] \/ Wanted(img[c]) \subseteq blobs["local"]
    /\ cmd[c] = "try" /\ pc[c] \in Copying \cup {"pull"} /\ named[c] /\ ~disturbed[c] =>
         ref[c] \in DOMAIN index["local"] /\ index["local"][ref[c]] = img[c]
    /\ cmd[c] = "try" /\ pc[c] \in {"look", "resolve", "pullfirst", "readfirst"} => ~named[c]

\* The output file between the compiler and the Push.
Output ==
  \A c \in Procs :
    /\ pc[c] = "pack" /\ ~clobbered[c] => ofile = want[c]
    /\ pc[c] = "buildopen" /\ ~clobbered[c] => img[c] = want[c]

\* The index a command has loaded is the one in the store until another saves it.
Fresh ==
  \A c \in Procs : Saving(c) /\ ~stale[c] => mem[c] = index["local"]

Inv ==
  /\ TypeInv /\ Halves /\ Fetched /\ Output /\ Fresh
  /\ LocalDamageRepaired /\ BuildSavesItsOutput

\* A copy takes all of an image of bee, and what Pull reads is all there.
LEMMA WantedOfBee ==
  ASSUME NEW i, i \notin Foreign
  PROVE  Wanted(i) = Blobs(i) /\ (Wanted(i) \subseteq blobs["local"] => Readable(i))
<1>1. Blobs(i) = {Config, [of |-> i, type |-> "program"]}
  BY DEF Blobs
<1>2. Wanted(i) = Blobs(i)
  BY <1>1 DEF Wanted, AllowedMediaTypes, Config
<1>3. Config.type = "config" /\ [of |-> i, type |-> "program"].type = "program"
  BY DEF Config
<1>4. {b.type : b \in Wanted(i)} = {"config", "program"}
  BY <1>1, <1>2, <1>3
<1> QED
  BY <1>2, <1>4 DEF Readable

\* What a command line changes.
Begun(c) ==
  /\ pc[c] \in Resting /\ pc'[c] \in {"resolve", "look", "tagload", "create", "failed"}
  /\ ~named'[c] /\ reason'[c] \in {"none", "torn"}
  /\ \A d \in Procs \ {c} :
       /\ pc'[d] = pc[d] /\ cmd'[d] = cmd[d] /\ ref'[d] = ref[d] /\ to'[d] = to[d]
       /\ img'[d] = img[d] /\ want'[d] = want[d] /\ mem'[d] = mem[d]
       /\ named'[d] = named[d] /\ reason'[d] = reason[d] /\ stale'[d] = stale[d]
       /\ disturbed'[d] = disturbed[d] /\ clobbered'[d] = clobbered[d]
  /\ \A s \in Sites \ {c} : blobs'[s] = blobs[s] /\ index'[s] = index[s]
  /\ torn' = torn /\ ofile' = ofile /\ interrupted' = interrupted

\* Every command line begins that way, also the one of package.
LEMMA StartEffect ==
  ASSUME TypeInv, NEW c \in Procs, Start(c)
  PROVE  Begun(c)
<1>1. ASSUME NEW name, NEW l \in {"resolve", "look", "tagload", "create"}, NEW r, NEW t, NEW source,
             Begin(c, name, l, r, t, source),
             \A s \in Sites \ {c} : blobs'[s] = blobs[s] /\ index'[s] = index[s]
      PROVE  Begun(c)
  BY <1>1 DEF TypeInv, StoreTypes, LocalTypes, Begin, Begun, Goto
<1>2. ASSUME NEW r \in Refs, StartPackage(c, r)
      PROVE  \A s \in Sites \ {c} : blobs'[s] = blobs[s] /\ index'[s] = index[s]
  BY <1>2 DEF TypeInv, StoreTypes, StartPackage
<1> QED
  BY <1>1, <1>2 DEF Start, StartPull, StartPush, StartTry, StartTag, StartBuild, StartPackage

\* Only the saving of an index changes what the local store knows.
LEMMA FreshStep == TypeInv /\ Fresh /\ [Next]_vars => Fresh'
<1> SUFFICES ASSUME TypeInv, Fresh, [Next]_vars PROVE Fresh'
  OBVIOUS
<1> USE DEF Fresh, Saving, Resting
<1>1. CASE UNCHANGED vars
  BY <1>1 DEF vars, stores, local, history
<1>2. ASSUME NEW c \in Procs, Start(c) PROVE Fresh'
  BY <1>2, StartEffect, ProcsAssumption DEF Begun, Sites
<1> USE DEF TypeInv, StoreTypes, LocalTypes, Roles, Goto, Fail, stores, local, history
<1>3. ASSUME NEW c \in Procs, Step(c) PROVE Fresh'
  <2>1. CASE Resolve(c)
    BY <2>1 DEF Resolve, Resolves, Unresolved
  <2>2. CASE CopyName(c)
    BY <2>2 DEF CopyName
  <2>3. CASE CopyLoadIndex(c)
    BY <2>3 DEF CopyLoadIndex, LoadIndex
  <2>4. CASE CopySaveIndex(c)
    BY <2>4 DEF CopySaveIndex, SaveIndex
  <2>5. CASE CopyDone(c)
    BY <2>5 DEF CopyDone
  <2>6. CASE CopyFails(c)
    BY <2>6 DEF CopyFails
  <2>7. CASE LookLocal(c)
    BY <2>7 DEF LookLocal, Resolves
  <2>8. CASE PullFirst(c)
    BY <2>8 DEF PullFirst, Resolves
  <2>9. CASE Pull(c)
    BY <2>9 DEF Pull, Resolves, Unresolved
  <2>10. CASE PullRead(c)
    BY <2>10 DEF PullRead
  <2>11. CASE TagLoad(c)
    BY <2>11 DEF TagLoad, LoadIndex
  <2>12. CASE TagSave(c)
    BY <2>12 DEF TagSave, SaveIndex
  <2>13. CASE BuildCreate(c)
    BY <2>13 DEF BuildCreate, Clobber
  <2>14. CASE BuildCompile(c)
    BY <2>14 DEF BuildCompile, Clobber
  <2>15. CASE BuildCompileFails(c)
    BY <2>15 DEF BuildCompileFails
  <2>16. CASE BuildPack(c)
    BY <2>16 DEF BuildPack
  <2>17. CASE \E b \in Wanted(img[c]) : CopyBlob(c, b)
    BY <2>17 DEF CopyBlob
  <2>18. CASE EmptyIndex(c)
    BY <2>18 DEF EmptyIndex, Saving
  <2>19. CASE SaveFails(c)
    BY <2>19 DEF SaveFails, Saving
  <2>20. CASE ReadFirst(c)
    BY <2>20 DEF ReadFirst
  <2>21. CASE TagFails(c)
    BY <2>21 DEF TagFails, Unresolved
  <2>22. CASE BuildOpen(c)
    BY <2>22 DEF BuildOpen
  <2> QED
    BY <1>3, <2>1, <2>2, <2>3, <2>4, <2>5, <2>6, <2>7, <2>8, <2>9, <2>10, <2>11, <2>12, <2>13,
       <2>14, <2>15, <2>16, <2>17, <2>18, <2>19, <2>20, <2>21, <2>22
    DEF Step, Copy
<1>4. ASSUME NEW c \in Procs, Killed(c) PROVE Fresh'
  BY <1>4 DEF Killed
<1> QED
  BY <1>1, <1>2, <1>3, <1>4 DEF Next

\* A build that nobody disturbs finds in the output file what it compiled.
LEMMA OutputStep == TypeInv /\ Output /\ [Next]_vars => Output'
<1> SUFFICES ASSUME TypeInv, Output, [Next]_vars PROVE Output'
  OBVIOUS
<1> USE DEF Output, Resting, Copying
<1>1. CASE UNCHANGED vars
  BY <1>1 DEF vars, stores, local, history
<1>2. ASSUME NEW c \in Procs, Start(c) PROVE Output'
  BY <1>2, StartEffect, ProcsAssumption DEF Begun
<1> USE DEF TypeInv, StoreTypes, LocalTypes, Roles, Goto, Fail, stores, local, history
<1>3. ASSUME NEW c \in Procs, Step(c) PROVE Output'
  <2>1. CASE Resolve(c)
    BY <2>1 DEF Resolve, Resolves, Unresolved
  <2>2. CASE CopyName(c)
    BY <2>2 DEF CopyName
  <2>3. CASE CopyLoadIndex(c)
    BY <2>3 DEF CopyLoadIndex, LoadIndex
  <2>4. CASE CopySaveIndex(c)
    BY <2>4 DEF CopySaveIndex, SaveIndex
  <2>5. CASE CopyDone(c)
    BY <2>5 DEF CopyDone
  <2>6. CASE CopyFails(c)
    BY <2>6 DEF CopyFails
  <2>7. CASE LookLocal(c)
    BY <2>7 DEF LookLocal, Resolves
  <2>8. CASE PullFirst(c)
    BY <2>8 DEF PullFirst, Resolves
  <2>9. CASE Pull(c)
    BY <2>9 DEF Pull, Resolves, Unresolved
  <2>10. CASE PullRead(c)
    BY <2>10 DEF PullRead
  <2>11. CASE TagLoad(c)
    BY <2>11 DEF TagLoad, LoadIndex
  <2>12. CASE TagSave(c)
    BY <2>12 DEF TagSave, SaveIndex
  <2>13. CASE BuildCreate(c)
    BY <2>13 DEF BuildCreate, Clobber, Building
  <2>14. CASE BuildCompile(c)
    BY <2>14 DEF BuildCompile, Clobber, Building
  <2>15. CASE BuildCompileFails(c)
    BY <2>15 DEF BuildCompileFails
  <2>16. CASE BuildPack(c)
    BY <2>16 DEF BuildPack
  <2>17. CASE \E b \in Wanted(img[c]) : CopyBlob(c, b)
    BY <2>17 DEF CopyBlob
  <2>18. CASE EmptyIndex(c)
    BY <2>18 DEF EmptyIndex, Saving
  <2>19. CASE SaveFails(c)
    BY <2>19 DEF SaveFails, Saving
  <2>20. CASE ReadFirst(c)
    BY <2>20 DEF ReadFirst
  <2>21. CASE TagFails(c)
    BY <2>21 DEF TagFails, Unresolved
  <2>22. CASE BuildOpen(c)
    BY <2>22 DEF BuildOpen
  <2> QED
    BY <1>3, <2>1, <2>2, <2>3, <2>4, <2>5, <2>6, <2>7, <2>8, <2>9, <2>10, <2>11, <2>12, <2>13,
       <2>14, <2>15, <2>16, <2>17, <2>18, <2>19, <2>20, <2>21, <2>22
    DEF Step, Copy
<1>4. ASSUME NEW c \in Procs, Killed(c) PROVE Output'
  BY <1>4 DEF Killed
<1> QED
  BY <1>1, <1>2, <1>3, <1>4 DEF Next

\* What a build copies is what was in the output file.
LEMMA BuildStep == TypeInv /\ Output /\ BuildSavesItsOutput /\ [Next]_vars => BuildSavesItsOutput'
<1> SUFFICES ASSUME TypeInv, Output, BuildSavesItsOutput, [Next]_vars PROVE BuildSavesItsOutput'
  OBVIOUS
<1> USE DEF BuildSavesItsOutput, Output, Resting, Copying
<1>1. CASE UNCHANGED vars
  BY <1>1 DEF vars, stores, local, history
<1>2. ASSUME NEW c \in Procs, Start(c) PROVE BuildSavesItsOutput'
  BY <1>2, StartEffect, ProcsAssumption DEF Begun
<1> USE DEF TypeInv, StoreTypes, LocalTypes, Roles, Goto, Fail, stores, local, history
<1>3. ASSUME NEW c \in Procs, Step(c) PROVE BuildSavesItsOutput'
  <2>1. CASE Resolve(c)
    BY <2>1 DEF Resolve, Resolves, Unresolved
  <2>2. CASE CopyName(c)
    BY <2>2 DEF CopyName
  <2>3. CASE CopyLoadIndex(c)
    BY <2>3 DEF CopyLoadIndex, LoadIndex
  <2>4. CASE CopySaveIndex(c)
    BY <2>4 DEF CopySaveIndex, SaveIndex
  <2>5. CASE CopyDone(c)
    BY <2>5 DEF CopyDone
  <2>6. CASE CopyFails(c)
    BY <2>6 DEF CopyFails
  <2>7. CASE LookLocal(c)
    BY <2>7 DEF LookLocal, Resolves
  <2>8. CASE PullFirst(c)
    BY <2>8 DEF PullFirst, Resolves
  <2>9. CASE Pull(c)
    BY <2>9 DEF Pull, Resolves, Unresolved
  <2>10. CASE PullRead(c)
    BY <2>10 DEF PullRead
  <2>11. CASE TagLoad(c)
    BY <2>11 DEF TagLoad, LoadIndex
  <2>12. CASE TagSave(c)
    BY <2>12 DEF TagSave, SaveIndex
  <2>13. CASE BuildCreate(c)
    BY <2>13 DEF BuildCreate, Clobber
  <2>14. CASE BuildCompile(c)
    BY <2>14 DEF BuildCompile, Clobber
  <2>15. CASE BuildCompileFails(c)
    BY <2>15 DEF BuildCompileFails
  <2>16. CASE BuildPack(c)
    BY <2>16 DEF BuildPack
  <2>17. CASE \E b \in Wanted(img[c]) : CopyBlob(c, b)
    BY <2>17 DEF CopyBlob
  <2>18. CASE EmptyIndex(c)
    BY <2>18 DEF EmptyIndex, Saving
  <2>19. CASE SaveFails(c)
    BY <2>19 DEF SaveFails, Saving
  <2>20. CASE ReadFirst(c)
    BY <2>20 DEF ReadFirst
  <2>21. CASE TagFails(c)
    BY <2>21 DEF TagFails, Unresolved
  <2>22. CASE BuildOpen(c)
    BY <2>22 DEF BuildOpen
  <2> QED
    BY <1>3, <2>1, <2>2, <2>3, <2>4, <2>5, <2>6, <2>7, <2>8, <2>9, <2>10, <2>11, <2>12, <2>13,
       <2>14, <2>15, <2>16, <2>17, <2>18, <2>19, <2>20, <2>21, <2>22
    DEF Step, Copy
<1>4. ASSUME NEW c \in Procs, Killed(c) PROVE BuildSavesItsOutput'
  BY <1>4 DEF Killed
<1> QED
  BY <1>1, <1>2, <1>3, <1>4 DEF Next

\* What a save by c leaves to the commands it does not disturb.
Undisturbed(c) ==
  \A d \in Procs \ {c} : ~disturbed'[d] =>
    /\ ~disturbed[d]
    /\ \A i \in Images :
         ref[d] \in DOMAIN index["local"] /\ index["local"][ref[d]] = i =>
           ref[d] \in DOMAIN index'["local"] /\ index'["local"][ref[d]] = i

\* A name that another command relies on is as it was, or the command is disturbed.
LEMMA SaveUndisturbed ==
  ASSUME TypeInv, NEW c \in Procs, NEW x, SaveIndex(c, x)
  PROVE  Undisturbed(c)
<1> SUFFICES ASSUME NEW d \in Procs \ {c}, ~disturbed'[d]
             PROVE  /\ ~disturbed[d]
                    /\ \A i \in Images :
                         ref[d] \in DOMAIN index["local"] /\ index["local"][ref[d]] = i =>
                           ref[d] \in DOMAIN index'["local"] /\ index'["local"][ref[d]] = i
  BY DEF Undisturbed
<1>1. index'["local"] = x
  BY DEF SaveIndex, TypeInv, StoreTypes, Sites
<1>2. ~disturbed[d] /\ Named(x, ref[d]) = Named(index["local"], ref[d])
  BY DEF SaveIndex
<1> QED
  BY <1>1, <1>2, ImagesAssumption DEF Named

\* An undisturbed TryFromLocal finds the image it has copied.
LEMMA FetchedStep == TypeInv /\ Fetched /\ [Next]_vars => Fetched'
<1> SUFFICES ASSUME TypeInv, Fetched, [Next]_vars PROVE Fetched'
  OBVIOUS
<1> USE DEF Fetched, Sites, Resting, Copying
<1>1. CASE UNCHANGED vars
  BY <1>1 DEF vars, stores, local, history
<1>2. ASSUME NEW c \in Procs, Start(c) PROVE Fetched'
  BY <1>2, StartEffect, ProcsAssumption DEF Begun
<1> USE DEF TypeInv, StoreTypes, LocalTypes, Roles, Goto, Fail, stores, local, history
<1>3. ASSUME NEW c \in Procs, Step(c) PROVE Fetched'
  <2>1. CASE Resolve(c)
    BY <2>1 DEF Resolve, Resolves, Unresolved
  <2>2. CASE CopyName(c)
    BY <2>2, ProcsAssumption DEF CopyName, Dest
  <2>3. CASE CopyLoadIndex(c)
    BY <2>3 DEF CopyLoadIndex, LoadIndex
  <2>4. CASE CopySaveIndex(c)
    <3>1. pc[c] = "write" /\ to[c] \in Refs /\ img[c] \in Images /\ IsIndex(mem[c])
      BY <2>4 DEF CopySaveIndex
    <3>2. /\ to[c] \in DOMAIN With(mem[c], to[c], img[c])
          /\ With(mem[c], to[c], img[c])[to[c]] = img[c]
      BY DEF With
    <3>3. Undisturbed(c)
      BY <2>4, SaveUndisturbed DEF CopySaveIndex
    <3> QED
      BY <2>4, <3>1, <3>2, <3>3 DEF CopySaveIndex, SaveIndex, Undisturbed
  <2>5. CASE CopyDone(c)
    BY <2>5 DEF CopyDone, Dest
  <2>6. CASE CopyFails(c)
    BY <2>6 DEF CopyFails
  <2>7. CASE LookLocal(c)
    BY <2>7 DEF LookLocal, Resolves
  <2>8. CASE PullFirst(c)
    BY <2>8 DEF PullFirst, Resolves
  <2>9. CASE Pull(c)
    BY <2>9 DEF Pull, Resolves, Unresolved
  <2>10. CASE PullRead(c)
    BY <2>10 DEF PullRead
  <2>11. CASE TagLoad(c)
    BY <2>11 DEF TagLoad, LoadIndex
  <2>12. CASE TagSave(c)
    <3>1. Undisturbed(c)
      BY <2>12, SaveUndisturbed DEF TagSave
    <3> QED
      BY <2>12, <3>1 DEF TagSave, SaveIndex, Undisturbed
  <2>13. CASE BuildCreate(c)
    BY <2>13 DEF BuildCreate, Clobber
  <2>14. CASE BuildCompile(c)
    BY <2>14 DEF BuildCompile, Clobber
  <2>15. CASE BuildCompileFails(c)
    BY <2>15 DEF BuildCompileFails
  <2>16. CASE BuildPack(c)
    BY <2>16 DEF BuildPack
  <2>17. CASE \E b \in Wanted(img[c]) : CopyBlob(c, b)
    BY <2>17 DEF CopyBlob, Dest
  <2>18. CASE EmptyIndex(c)
    BY <2>18 DEF EmptyIndex, Saving
  <2>19. CASE SaveFails(c)
    BY <2>19 DEF SaveFails, Saving
  <2>20. CASE ReadFirst(c)
    BY <2>20 DEF ReadFirst
  <2>21. CASE TagFails(c)
    BY <2>21 DEF TagFails, Unresolved
  <2>22. CASE BuildOpen(c)
    BY <2>22 DEF BuildOpen
  <2> QED
    BY <1>3, <2>1, <2>2, <2>3, <2>4, <2>5, <2>6, <2>7, <2>8, <2>9, <2>10, <2>11, <2>12, <2>13,
       <2>14, <2>15, <2>16, <2>17, <2>18, <2>19, <2>20, <2>21, <2>22
    DEF Step, Copy
<1>4. ASSUME NEW c \in Procs, Killed(c) PROVE Fetched'
  BY <1>4 DEF Killed
<1> QED
  BY <1>1, <1>2, <1>3, <1>4 DEF Next

\* TryFromLocal fails on an image of the local store only when it was disturbed.
LEMMA RepairStep == TypeInv /\ Fetched /\ LocalDamageRepaired /\ [Next]_vars => LocalDamageRepaired'
<1> SUFFICES ASSUME TypeInv, Fetched, LocalDamageRepaired, [Next]_vars PROVE LocalDamageRepaired'
  OBVIOUS
<1> USE DEF LocalDamageRepaired, Fetched, Resting, Copying
<1>1. CASE UNCHANGED vars
  BY <1>1 DEF vars, stores, local, history
<1>2. ASSUME NEW c \in Procs, Start(c) PROVE LocalDamageRepaired'
  BY <1>2, StartEffect, ProcsAssumption DEF Begun
<1> USE DEF TypeInv, StoreTypes, LocalTypes, Roles, Goto, Fail, stores, local, history
<1>3. ASSUME NEW c \in Procs, Step(c) PROVE LocalDamageRepaired'
  <2>1. CASE Resolve(c)
    BY <2>1 DEF Resolve, Resolves, Unresolved, From
  <2>2. CASE CopyName(c)
    BY <2>2 DEF CopyName
  <2>3. CASE CopyLoadIndex(c)
    BY <2>3 DEF CopyLoadIndex, LoadIndex
  <2>4. CASE CopySaveIndex(c)
    BY <2>4 DEF CopySaveIndex, SaveIndex
  <2>5. CASE CopyDone(c)
    BY <2>5 DEF CopyDone
  <2>6. CASE CopyFails(c)
    BY <2>6 DEF CopyFails, From
  <2>7. CASE LookLocal(c)
    BY <2>7 DEF LookLocal, Resolves
  <2>8. CASE PullFirst(c)
    BY <2>8 DEF PullFirst, Resolves
  <2>9. CASE Pull(c)
    BY <2>9 DEF Pull, Resolves, Unresolved
  <2>10. CASE PullRead(c)
    BY <2>10, WantedOfBee DEF PullRead
  <2>11. CASE TagLoad(c)
    BY <2>11 DEF TagLoad, LoadIndex
  <2>12. CASE TagSave(c)
    BY <2>12 DEF TagSave, SaveIndex
  <2>13. CASE BuildCreate(c)
    BY <2>13 DEF BuildCreate, Clobber
  <2>14. CASE BuildCompile(c)
    BY <2>14 DEF BuildCompile, Clobber
  <2>15. CASE BuildCompileFails(c)
    BY <2>15 DEF BuildCompileFails
  <2>16. CASE BuildPack(c)
    BY <2>16 DEF BuildPack
  <2>17. CASE \E b \in Wanted(img[c]) : CopyBlob(c, b)
    BY <2>17 DEF CopyBlob
  <2>18. CASE EmptyIndex(c)
    BY <2>18 DEF EmptyIndex, Saving
  <2>19. CASE SaveFails(c)
    BY <2>19 DEF SaveFails, Saving
  <2>20. CASE ReadFirst(c)
    BY <2>20 DEF ReadFirst
  <2>21. CASE TagFails(c)
    BY <2>21 DEF TagFails, Unresolved
  <2>22. CASE BuildOpen(c)
    BY <2>22 DEF BuildOpen
  <2> QED
    BY <1>3, <2>1, <2>2, <2>3, <2>4, <2>5, <2>6, <2>7, <2>8, <2>9, <2>10, <2>11, <2>12, <2>13,
       <2>14, <2>15, <2>16, <2>17, <2>18, <2>19, <2>20, <2>21, <2>22
    DEF Step, Copy
<1>4. ASSUME NEW c \in Procs, Killed(c) PROVE LocalDamageRepaired'
  BY <1>4 DEF Killed
<1> QED
  BY <1>1, <1>2, <1>3, <1>4 DEF Next

\* The reason why a part of an image is in the local store remains, or the rest comes.
LEMMA AccountedStep ==
  ASSUME TypeInv, [Next]_vars
  PROVE  Accounted \subseteq Accounted'
<1> SUFFICES ASSUME NEW i \in Accounted PROVE (i \in Accounted)'
  OBVIOUS
<1> USE DEF Accounted, Sites, Resting, Copying
<1>1. CASE UNCHANGED vars
  BY <1>1 DEF vars, stores, local, history, Dest
<1>2. ASSUME NEW c \in Procs, Start(c) PROVE (i \in Accounted)'
  BY <1>2, StartEffect, ProcsAssumption DEF Begun, Dest
<1> USE DEF TypeInv, StoreTypes, LocalTypes, Roles, Goto, Fail, stores, local, history, Dest
<1>3. ASSUME NEW c \in Procs, Step(c) PROVE (i \in Accounted)'
  <2>1. CASE Resolve(c)
    BY <2>1 DEF Resolve, Resolves, Unresolved
  <2>2. CASE CopyName(c)
    BY <2>2 DEF CopyName
  <2>3. CASE CopyLoadIndex(c)
    BY <2>3 DEF CopyLoadIndex, LoadIndex
  <2>4. CASE CopySaveIndex(c)
    BY <2>4 DEF CopySaveIndex, SaveIndex
  <2>5. CASE CopyDone(c)
    BY <2>5, WantedOfBee DEF CopyDone
  <2>6. CASE CopyFails(c)
    BY <2>6 DEF CopyFails
  <2>7. CASE LookLocal(c)
    BY <2>7 DEF LookLocal, Resolves
  <2>8. CASE PullFirst(c)
    BY <2>8 DEF PullFirst, Resolves
  <2>9. CASE Pull(c)
    BY <2>9 DEF Pull, Resolves, Unresolved
  <2>10. CASE PullRead(c)
    BY <2>10 DEF PullRead
  <2>11. CASE TagLoad(c)
    BY <2>11 DEF TagLoad, LoadIndex
  <2>12. CASE TagSave(c)
    BY <2>12 DEF TagSave, SaveIndex
  <2>13. CASE BuildCreate(c)
    BY <2>13 DEF BuildCreate, Clobber
  <2>14. CASE BuildCompile(c)
    BY <2>14 DEF BuildCompile, Clobber
  <2>15. CASE BuildCompileFails(c)
    BY <2>15 DEF BuildCompileFails
  <2>16. CASE BuildPack(c)
    BY <2>16 DEF BuildPack
  <2>17. CASE \E b \in Wanted(img[c]) : CopyBlob(c, b)
    BY <2>17 DEF CopyBlob
  <2>18. CASE EmptyIndex(c)
    BY <2>18 DEF EmptyIndex, Saving
  <2>19. CASE SaveFails(c)
    BY <2>19 DEF SaveFails, Saving
  <2>20. CASE ReadFirst(c)
    BY <2>20 DEF ReadFirst
  <2>21. CASE TagFails(c)
    BY <2>21 DEF TagFails, Unresolved
  <2>22. CASE BuildOpen(c)
    BY <2>22 DEF BuildOpen
  <2> QED
    BY <1>3, <2>1, <2>2, <2>3, <2>4, <2>5, <2>6, <2>7, <2>8, <2>9, <2>10, <2>11, <2>12, <2>13,
       <2>14, <2>15, <2>16, <2>17, <2>18, <2>19, <2>20, <2>21, <2>22
    DEF Step, Copy
<1>4. ASSUME NEW c \in Procs, Killed(c) PROVE (i \in Accounted)'
  BY <1>4 DEF Killed
<1> QED
  BY <1>1, <1>2, <1>3, <1>4 DEF Next

\* Names come into the local index only with a reason.
LEMMA HalvesStep == TypeInv /\ Halves /\ [Next]_vars => Halves'
<1> SUFFICES ASSUME TypeInv, Halves, [Next]_vars PROVE Halves'
  OBVIOUS
<1> USE AccountedStep
<1> USE DEF Halves, Sites, Resting, Copying, Saving
<1>1. CASE UNCHANGED vars
  BY <1>1 DEF vars, stores, local, history
<1>2. ASSUME NEW c \in Procs, Start(c) PROVE Halves'
  BY <1>2, StartEffect, ProcsAssumption DEF Begun
<1> USE DEF TypeInv, StoreTypes, LocalTypes, Roles, Goto, Fail, stores, local, history
<1>3. ASSUME NEW c \in Procs, Step(c) PROVE Halves'
  <2>1. CASE Resolve(c)
    BY <2>1 DEF Resolve, Resolves, Unresolved
  <2>2. CASE CopyName(c)
    BY <2>2, ProcsAssumption DEF CopyName
  <2>3. CASE CopyLoadIndex(c)
    BY <2>3 DEF CopyLoadIndex, LoadIndex
  <2>4. CASE CopySaveIndex(c)
    <3>1. img[c] \in Accounted
      BY <2>4 DEF CopySaveIndex, Accounted
    <3>2. \A r \in DOMAIN With(mem[c], to[c], img[c]) : With(mem[c], to[c], img[c])[r] \in Accounted
      BY <2>4, <3>1 DEF CopySaveIndex, With
    <3> QED
      BY <2>4, <3>2 DEF CopySaveIndex, SaveIndex, Tagged
  <2>5. CASE CopyDone(c)
    BY <2>5 DEF CopyDone
  <2>6. CASE CopyFails(c)
    BY <2>6 DEF CopyFails
  <2>7. CASE LookLocal(c)
    BY <2>7 DEF LookLocal, Resolves
  <2>8. CASE PullFirst(c)
    BY <2>8 DEF PullFirst, Resolves
  <2>9. CASE Pull(c)
    BY <2>9 DEF Pull, Resolves, Unresolved
  <2>10. CASE PullRead(c)
    BY <2>10 DEF PullRead
  <2>11. CASE TagLoad(c)
    BY <2>11 DEF TagLoad, LoadIndex
  <2>12. CASE TagSave(c)
    <3>1. img[c] \in Accounted
      BY <2>12 DEF TagSave
    <3>2. \A r \in DOMAIN With(mem[c], to[c], img[c]) : With(mem[c], to[c], img[c])[r] \in Accounted
      BY <2>12, <3>1 DEF TagSave, With
    <3> QED
      BY <2>12, <3>2 DEF TagSave, SaveIndex, Tagged
  <2>13. CASE BuildCreate(c)
    BY <2>13 DEF BuildCreate, Clobber
  <2>14. CASE BuildCompile(c)
    BY <2>14 DEF BuildCompile, Clobber
  <2>15. CASE BuildCompileFails(c)
    BY <2>15 DEF BuildCompileFails
  <2>16. CASE BuildPack(c)
    BY <2>16 DEF BuildPack
  <2>17. CASE \E b \in Wanted(img[c]) : CopyBlob(c, b)
    BY <2>17 DEF CopyBlob
  <2>18. CASE EmptyIndex(c)
    BY <2>18 DEF EmptyIndex, Saving
  <2>19. CASE SaveFails(c)
    BY <2>19 DEF SaveFails, Saving
  <2>20. CASE ReadFirst(c)
    BY <2>20 DEF ReadFirst
  <2>21. CASE TagFails(c)
    BY <2>21 DEF TagFails, Unresolved
  <2>22. CASE BuildOpen(c)
    BY <2>22 DEF BuildOpen
  <2> QED
    BY <1>3, <2>1, <2>2, <2>3, <2>4, <2>5, <2>6, <2>7, <2>8, <2>9, <2>10, <2>11, <2>12, <2>13,
       <2>14, <2>15, <2>16, <2>17, <2>18, <2>19, <2>20, <2>21, <2>22
    DEF Step, Copy
<1>4. ASSUME NEW c \in Procs, Killed(c) PROVE Halves'
  BY <1>4 DEF Killed
<1> QED
  BY <1>1, <1>2, <1>3, <1>4 DEF Next

\* The empty local store satisfies the invariant.
LEMMA InvInit == Init => Inv
<1> SUFFICES ASSUME Init PROVE Inv
  OBVIOUS
<1>1. \A c \in Procs : pc[c] = "idle" /\ cmd[c] = "none" /\ ~named[c]
  BY DEF Init
<1>2. index["local"] = << >>
  BY ProcsAssumption DEF Init, Sites
<1>3. Halves
  BY <1>1, <1>2 DEF Halves, Saving
<1>4. Fetched /\ Output /\ Fresh
  BY <1>1 DEF Fetched, Output, Fresh, Copying, Saving
<1>5. LocalDamageRepaired /\ BuildSavesItsOutput
  BY <1>1 DEF LocalDamageRepaired, BuildSavesItsOutput, Copying
<1> QED
  BY <1>3, <1>4, <1>5, TypeInit DEF Inv

\* Each conjunct of Inv is kept by a step; together they are inductive.
LEMMA Inductive == Spec => []Inv
<1>1. Inv /\ [Next]_vars => Inv'
  BY TypeStep, HalvesStep, FetchedStep, OutputStep, FreshStep, RepairStep, BuildStep
  DEF Inv
<1> QED
  BY <1>1, InvInit, PTL DEF Spec

-----------------------------------------------------------------------------
(* The theorems.                                                           *)

\* A name in the local store whose image, one of bee, is incomplete has a cause: a
\* copy that is still going on, or one that was killed or failed.
THEOREM HalvesHaveCauses == Spec => []HalvesExplained
<1>1. Inv => HalvesExplained
  BY DEF Inv, Halves, Accounted, HalvesExplained, Copying
<1> QED
  BY <1>1, Inductive, PTL

\* TryFromLocal does not fail because an image is missing from the local store or
\* not all there, but for one that another command takes the name from while it
\* runs, or that has no program; the index itself it needs to be readable.
THEOREM DamageRepaired == Spec => []LocalDamageRepaired
<1>1. Inv => LocalDamageRepaired
  BY DEF Inv
<1> QED
  BY <1>1, Inductive, PTL

\* A build packages what it compiled, unless another build used its output file.
THEOREM BuildKeepsItsOutput == Spec => []BuildSavesItsOutput
<1>1. Inv => BuildSavesItsOutput
  BY DEF Inv
<1> QED
  BY <1>1, Inductive, PTL

\* What a step does to a name of the local store.
Keeps(r) ==
  \/ r \in DOMAIN index'["local"] /\ index'["local"][r] = index["local"][r]
  \/ \E c \in Procs : /\ pc[c] \in {"write", "tagwrite"} /\ pc'[c] # pc[c]
                      /\ stale[c] \/ to[c] = r

\* Only a command that saves the index can change a name.
LEMMA NamesStep ==
  ASSUME TypeInv, Fresh, [Next]_vars, NEW r \in DOMAIN index["local"]
  PROVE  Keeps(r)
<1> USE DEF Keeps, Sites
<1>1. CASE UNCHANGED vars
  BY <1>1 DEF vars, stores, local, history
<1>2. ASSUME NEW c \in Procs, Start(c) PROVE Keeps(r)
  BY <1>2, StartEffect, ProcsAssumption DEF Begun
<1> USE DEF TypeInv, StoreTypes, LocalTypes, Roles, Goto, Fail, stores, local, history
<1>3. ASSUME NEW c \in Procs, Step(c) PROVE Keeps(r)
  <2>1. CASE Resolve(c)
    BY <2>1 DEF Resolve, Resolves, Unresolved
  <2>2. CASE CopyName(c)
    BY <2>2, ProcsAssumption DEF CopyName
  <2>3. CASE CopyLoadIndex(c)
    BY <2>3 DEF CopyLoadIndex, LoadIndex
  <2>4. CASE CopySaveIndex(c)
    <3>1. index'["local"] = With(mem[c], to[c], img[c]) /\ pc'[c] # pc[c]
      BY <2>4 DEF CopySaveIndex, SaveIndex, Tagged
    <3>2. CASE stale[c] \/ to[c] = r
      BY <2>4, <3>1, <3>2 DEF CopySaveIndex
    <3>3. CASE ~stale[c] /\ to[c] # r
      <4>1. mem[c] = index["local"]
        BY <2>4, <3>3 DEF CopySaveIndex, Fresh, Saving
      <4>2. /\ r \in DOMAIN With(mem[c], to[c], img[c])
            /\ With(mem[c], to[c], img[c])[r] = index["local"][r]
        BY <3>3, <4>1 DEF With
      <4> QED
        BY <3>1, <4>2
    <3> QED
      BY <3>2, <3>3
  <2>5. CASE CopyDone(c)
    BY <2>5 DEF CopyDone
  <2>6. CASE CopyFails(c)
    BY <2>6 DEF CopyFails
  <2>7. CASE LookLocal(c)
    BY <2>7 DEF LookLocal, Resolves
  <2>8. CASE PullFirst(c)
    BY <2>8 DEF PullFirst, Resolves
  <2>9. CASE Pull(c)
    BY <2>9 DEF Pull, Resolves, Unresolved
  <2>10. CASE PullRead(c)
    BY <2>10 DEF PullRead
  <2>11. CASE TagLoad(c)
    BY <2>11 DEF TagLoad, LoadIndex
  <2>12. CASE TagSave(c)
    <3>1. index'["local"] = With(mem[c], to[c], img[c]) /\ pc'[c] # pc[c]
      BY <2>12 DEF TagSave, SaveIndex, Tagged
    <3>2. CASE stale[c] \/ to[c] = r
      BY <2>12, <3>1, <3>2 DEF TagSave
    <3>3. CASE ~stale[c] /\ to[c] # r
      <4>1. mem[c] = index["local"]
        BY <2>12, <3>3 DEF TagSave, Fresh, Saving
      <4>2. /\ r \in DOMAIN With(mem[c], to[c], img[c])
            /\ With(mem[c], to[c], img[c])[r] = index["local"][r]
        BY <3>3, <4>1 DEF With
      <4> QED
        BY <3>1, <4>2
    <3> QED
      BY <3>2, <3>3
  <2>13. CASE BuildCreate(c)
    BY <2>13 DEF BuildCreate, Clobber
  <2>14. CASE BuildCompile(c)
    BY <2>14 DEF BuildCompile, Clobber
  <2>15. CASE BuildCompileFails(c)
    BY <2>15 DEF BuildCompileFails
  <2>16. CASE BuildPack(c)
    BY <2>16 DEF BuildPack
  <2>17. CASE \E b \in Wanted(img[c]) : CopyBlob(c, b)
    BY <2>17 DEF CopyBlob
  <2>18. CASE EmptyIndex(c)
    BY <2>18 DEF EmptyIndex, Saving
  <2>19. CASE SaveFails(c)
    BY <2>19 DEF SaveFails, Saving
  <2>20. CASE ReadFirst(c)
    BY <2>20 DEF ReadFirst
  <2>21. CASE TagFails(c)
    BY <2>21 DEF TagFails, Unresolved
  <2>22. CASE BuildOpen(c)
    BY <2>22 DEF BuildOpen
  <2> QED
    BY <1>3, <2>1, <2>2, <2>3, <2>4, <2>5, <2>6, <2>7, <2>8, <2>9, <2>10, <2>11, <2>12, <2>13,
       <2>14, <2>15, <2>16, <2>17, <2>18, <2>19, <2>20, <2>21, <2>22
    DEF Step, Copy
<1>4. ASSUME NEW c \in Procs, Killed(c) PROVE Keeps(r)
  BY <1>4 DEF Killed
<1> QED
  BY <1>1, <1>2, <1>3, <1>4 DEF Next

\* When the index is torn and no command holds one that it loaded before, a step
\* leaves it torn and no command with one.
Beyond == torn /\ \A c \in Procs : ~Saving(c)

LEMMA TornStep ==
  ASSUME TypeInv, [Next]_vars, Beyond
  PROVE  torn' /\ \A c \in Procs : ~Saving(c)'
<1> DEFINE Goal == torn' /\ \A c \in Procs : ~Saving(c)'
<1> USE DEF Beyond, Saving, Resting
<1>1. CASE UNCHANGED vars
  BY <1>1 DEF vars, stores, local, history
<1>2. ASSUME NEW c \in Procs, Start(c) PROVE Goal
  BY <1>2, StartEffect DEF Begun
<1> USE DEF TypeInv, StoreTypes, LocalTypes, Goto, Fail, stores, local, history
<1>3. ASSUME NEW c \in Procs, Step(c) PROVE Goal
  <2>1. CASE Resolve(c)
    BY <2>1 DEF Resolve
  <2>2. CASE CopyName(c)
    BY <2>2 DEF CopyName
  <2>3. CASE CopyLoadIndex(c)
    BY <2>3 DEF CopyLoadIndex, LoadIndex
  <2>4. CASE CopySaveIndex(c)
    BY <2>4 DEF CopySaveIndex
  <2>5. CASE CopyDone(c)
    BY <2>5 DEF CopyDone
  <2>6. CASE CopyFails(c)
    BY <2>6 DEF CopyFails
  <2>7. CASE LookLocal(c)
    BY <2>7 DEF LookLocal
  <2>8. CASE PullFirst(c)
    BY <2>8 DEF PullFirst
  <2>9. CASE Pull(c)
    BY <2>9 DEF Pull
  <2>10. CASE PullRead(c)
    BY <2>10 DEF PullRead
  <2>11. CASE TagLoad(c)
    BY <2>11 DEF TagLoad, LoadIndex
  <2>12. CASE TagSave(c)
    BY <2>12 DEF TagSave
  <2>13. CASE BuildCreate(c)
    BY <2>13 DEF BuildCreate
  <2>14. CASE BuildCompile(c)
    BY <2>14 DEF BuildCompile
  <2>15. CASE BuildCompileFails(c)
    BY <2>15 DEF BuildCompileFails
  <2>16. CASE BuildPack(c)
    BY <2>16 DEF BuildPack
  <2>17. CASE \E b \in Wanted(img[c]) : CopyBlob(c, b)
    BY <2>17 DEF CopyBlob
  <2>18. CASE EmptyIndex(c)
    BY <2>18 DEF EmptyIndex
  <2>19. CASE SaveFails(c)
    BY <2>19 DEF SaveFails
  <2>20. CASE ReadFirst(c)
    BY <2>20 DEF ReadFirst
  <2>21. CASE TagFails(c)
    BY <2>21 DEF TagFails
  <2>22. CASE BuildOpen(c)
    BY <2>22 DEF BuildOpen
  <2> QED
    BY <1>3, <2>1, <2>2, <2>3, <2>4, <2>5, <2>6, <2>7, <2>8, <2>9, <2>10, <2>11, <2>12, <2>13,
       <2>14, <2>15, <2>16, <2>17, <2>18, <2>19, <2>20, <2>21, <2>22
    DEF Step, Copy
<1>4. ASSUME NEW c \in Procs, Killed(c) PROVE Goal
  BY <1>4 DEF Killed
<1> QED
  BY <1>1, <1>2, <1>3, <1>4 DEF Next

\* A save of the local index that was cut short is never made good: no command
\* writes the index again once those that had loaded it before are gone.
THEOREM TornIsForGood == Spec => TornStays
<1>1. TypeInv /\ [Next]_vars =>
        [torn /\ (\A c \in Procs : ~Saving(c)) => torn' /\ \A c \in Procs : ~Saving(c)']_vars
  BY TornStep DEF Beyond
<1> QED
  BY <1>1, TypeInit, TypeStep, PTL DEF Spec, TornStays

\* pull, build, TryFromLocal and tag change the one name they were given in the
\* local index, unless another command has saved it since they loaded it.
THEOREM NamesAreKept == Spec => NamesKept
<1>1. Inv /\ [Next]_vars =>
        [\A r \in DOMAIN index["local"] :
           \/ r \in DOMAIN index'["local"] /\ index'["local"][r] = index["local"][r]
           \/ \E c \in Procs : /\ pc[c] \in {"write", "tagwrite"} /\ pc'[c] # pc[c]
                               /\ stale[c] \/ to[c] = r]_vars
  BY NamesStep DEF Inv, Keeps
<1> QED
  BY <1>1, Inductive, PTL DEF Spec, NamesKept
=============================================================================
