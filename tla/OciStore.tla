------------------------------ MODULE OciStore ------------------------------
(***************************************************************************)
(* Images: the local store of bee, a registry, and the commands that copy  *)
(* between them (build, pull, push, tag, package, and TryFromLocal for run *)
(* and describe).                                                          *)
(*                                                                         *)
(* A store is a set of blobs, named by their contents, and an index that   *)
(* gives names to images. A command is a process of its own. It loads the  *)
(* index and saves it later, and another command may have saved it in      *)
(* between; it may be killed, or lose the registry, between any two steps. *)
(* Nothing removes a blob.                                                 *)
(*                                                                         *)
(* oras is modelled from its use: a copy writes the blobs its destination  *)
(* lacks and the name, in any order, but a registry takes the name last.   *)
(* The index of the local store is one file, which is emptied and then     *)
(* written: in between, and for good if the command that saves it ends     *)
(* there, it cannot be decoded, and to load it is an error. A blob is      *)
(* written whole or not at all.                                            *)
(***************************************************************************)
EXTENDS Integers, FiniteSets

CONSTANTS
  Procs,          \* commands that run at the same time
  Refs,           \* names of images
  Images,
  Sources,        \* programs: the images bee build makes of them here
  Empty,          \* the image of an output file that is empty
  Foreign,        \* images of the registry that bee did not build
  Registries,     \* what the registry may hold in the beginning
  NoImage, NoRef,
  MaxCommands     \* bound: commands in a behaviour

ASSUME ImagesAssumption ==
  /\ Sources \cup Foreign \cup {Empty} \subseteq Images
  /\ NoImage \notin Images /\ NoRef \notin Refs
ASSUME ProcsAssumption == "local" \notin Procs /\ "remote" \notin Procs
ASSUME RegistriesAssumption ==
  \A g \in Registries : DOMAIN g \subseteq Refs /\ \A r \in DOMAIN g : g[r] \in Images
ASSUME BoundAssumption == MaxCommands \in Nat

VARIABLES
  blobs,          \* blobs[s] and index[s]: the contents of the store s; a process
  index,          \*   stands for the temporary store it has in package
  torn,           \* the local index is empty on disk; index has what it held before
  ofile,          \* the output file of build
  pc, cmd,
  ref,            \* the image a command is about, by name
  to,             \* the name it gives
  img,            \* the image it has resolved, read or built
  want,           \* build: the image of its source
  mem,            \* the index it has loaded
  named,          \* its copy has written the name
  reason,         \* why it failed
  commands,
  interrupted,    \* history: images a copy of which ended half way
  stale,          \* history: another command has saved the index since this one loaded it
  disturbed,      \* history: another command has changed the name this one is about
  clobbered       \* history: another build has used the output file since this one began

stores  == <<blobs, index, torn, ofile>>
local   == <<cmd, ref, to, img, want, mem, named, reason>>
history == <<interrupted, stale, disturbed, clobbered>>
vars == <<stores, pc, local, commands, history>>

-----------------------------------------------------------------------------
Sites == {"local", "remote"} \cup Procs

\* Every image of bee has the same config: EbpfConfig has no fields.
Config == [of |-> NoImage, type |-> "config"]

\* Push: a program and a config. A foreign image has a layer of another type.
Blobs(i) ==
  {Config, [of |-> i, type |-> IF i \in Foreign THEN "other" ELSE "program"]}

AllowedMediaTypes == {"program", "config"}

\* What a copy takes along.
Wanted(i) == {b \in Blobs(i) : b.type \in AllowedMediaTypes}

\* Pull finds the program and the config of i in the local store.
Readable(i) ==
  /\ Wanted(i) \subseteq blobs["local"]
  /\ {"program", "config"} \subseteq {b.type : b \in Wanted(i)}

Init ==
  /\ \E g \in Registries :
       /\ index = [s \in Sites |-> IF s = "remote" THEN g ELSE << >>]
       /\ blobs = [s \in Sites |->
                     IF s = "remote" THEN UNION {Blobs(g[r]) : r \in DOMAIN g} ELSE {}]
  /\ torn = FALSE
  /\ ofile = NoImage
  /\ pc = [c \in Procs |-> "idle"]
  /\ cmd = [c \in Procs |-> "none"]
  /\ ref = [c \in Procs |-> NoRef]
  /\ to = [c \in Procs |-> NoRef]
  /\ img = [c \in Procs |-> NoImage]
  /\ want = [c \in Procs |-> NoImage]
  /\ mem = [c \in Procs |-> << >>]
  /\ named = [c \in Procs |-> FALSE]
  /\ reason = [c \in Procs |-> "none"]
  /\ commands = 0
  /\ interrupted = {}
  /\ stale = [c \in Procs |-> FALSE]
  /\ disturbed = [c \in Procs |-> FALSE]
  /\ clobbered = [c \in Procs |-> FALSE]

Resting == {"idle", "ok", "failed", "killed"}
Copying == {"copy", "save", "write"}
Goto(c, l) == pc' = [pc EXCEPT ![c] = l]
Fail(c, why) == Goto(c, "failed") /\ reason' = [reason EXCEPT ![c] = why]

\* A command line: the first place of the command, its names, its source. All but
\* build open the local store at once, and NewOCI loads the index.
Begin(c, name, l, r, t, source) ==
  /\ pc[c] \in Resting
  /\ commands < MaxCommands
  /\ commands' = commands + 1
  /\ Goto(c, IF torn /\ name # "build" THEN "failed" ELSE l)
  /\ cmd' = [cmd EXCEPT ![c] = name]
  /\ ref' = [ref EXCEPT ![c] = r]
  /\ to' = [to EXCEPT ![c] = t]
  /\ img' = [img EXCEPT ![c] = NoImage]
  /\ want' = [want EXCEPT ![c] = source]
  /\ mem' = [mem EXCEPT ![c] = << >>]
  /\ named' = [named EXCEPT ![c] = FALSE]
  /\ reason' = [reason EXCEPT ![c] = IF torn /\ name # "build" THEN "torn" ELSE "none"]
  /\ stale' = [stale EXCEPT ![c] = FALSE]
  /\ disturbed' = [disturbed EXCEPT ![c] = FALSE]
  /\ clobbered' = [clobbered EXCEPT ![c] = FALSE]
  /\ UNCHANGED <<torn, ofile, interrupted>>

StartPull(c, r) == Begin(c, "pull", "resolve", r, r, NoImage) /\ UNCHANGED <<blobs, index>>
StartPush(c, r) == Begin(c, "push", "resolve", r, r, NoImage) /\ UNCHANGED <<blobs, index>>
StartTry(c, r)  == Begin(c, "try", "look", r, r, NoImage) /\ UNCHANGED <<blobs, index>>
StartTag(c, r, t) == Begin(c, "tag", "tagload", r, t, NoImage) /\ UNCHANGED <<blobs, index>>
StartBuild(c, t, i) == Begin(c, "build", "create", NoRef, t, i) /\ UNCHANGED <<blobs, index>>

\* package makes a new temporary store.
StartPackage(c, r) ==
  /\ Begin(c, "package", "resolve", r, r, NoImage)
  /\ blobs' = [blobs EXCEPT ![c] = {}]
  /\ index' = [index EXCEPT ![c] = << >>]

-----------------------------------------------------------------------------
(* oras.Copy                                                               *)

From(c) == IF cmd[c] \in {"push", "package"} THEN "local" ELSE "remote"
Dest(c) == CASE cmd[c] = "push" -> "remote" [] cmd[c] = "package" -> c [] OTHER -> "local"

\* Adding a name to an index, and looking one up.
Named(x, r) == IF r \in DOMAIN x THEN x[r] ELSE NoImage
With(x, r, i) == [y \in DOMAIN x \cup {r} |-> IF y = r THEN i ELSE x[y]]

\* Build copies from memory.
Has(c, b) == cmd[c] = "build" \/ b \in blobs[From(c)]

\* The error of a name that the store s does not give, or of its index.
Unresolved(s) == IF s = "local" /\ torn THEN "torn" ELSE s
Resolves(s, r) == r \in DOMAIN index[s] /\ ~(s = "local" /\ torn)

Resolve(c) ==
  /\ pc[c] = "resolve"
  /\ IF Resolves(From(c), ref[c])
       THEN /\ img' = [img EXCEPT ![c] = index[From(c)][ref[c]]]
            /\ Goto(c, "copy")
            /\ UNCHANGED reason
       ELSE Fail(c, Unresolved(From(c))) /\ UNCHANGED img
  /\ UNCHANGED <<stores, cmd, ref, to, want, mem, named, commands, history>>

CopyBlob(c, b) ==
  /\ pc[c] = "copy"
  /\ b \in Wanted(img[c]) \ blobs[Dest(c)]
  /\ Has(c, b)
  /\ blobs' = [blobs EXCEPT ![Dest(c)] = @ \cup {b}]
  /\ UNCHANGED <<index, torn, ofile, pc, local, commands, history>>

\* The name in a registry or in a temporary store.
CopyName(c) ==
  /\ pc[c] = "copy"
  /\ ~named[c]
  /\ Dest(c) # "local"
  /\ Dest(c) = "remote" => Wanted(img[c]) \subseteq blobs["remote"]
  /\ index' = [index EXCEPT ![Dest(c)] = With(@, to[c], img[c])]
  /\ named' = [named EXCEPT ![c] = TRUE]
  /\ UNCHANGED <<blobs, torn, ofile, pc, cmd, ref, to, img, want, mem, reason, commands, history>>

\* Mutant: an index that cannot be decoded is taken for one that is not there.
LoadLenient(c) ==
  /\ mem' = [mem EXCEPT ![c] = IF torn THEN << >> ELSE index["local"]]
  /\ stale' = [stale EXCEPT ![c] = FALSE]

LoadIndex(c) ==
  /\ ~torn
  /\ mem' = [mem EXCEPT ![c] = index["local"]]
  /\ stale' = [stale EXCEPT ![c] = FALSE]

\* The name in the local store: the index is loaded, and saved with the name.
CopyLoadIndex(c) ==
  /\ pc[c] = "copy"
  /\ ~named[c]
  /\ Dest(c) = "local"
  /\ LoadIndex(c)
  /\ Goto(c, "save")
  /\ UNCHANGED <<stores, cmd, ref, to, img, want, named, reason, commands,
                 interrupted, disturbed, clobbered>>

\* SaveIndex opens the file, which empties it ...
EmptyIndex(c) ==
  /\ pc[c] \in {"save", "tagsave"}
  /\ torn' = TRUE
  /\ Goto(c, IF pc[c] = "save" THEN "write" ELSE "tagwrite")
  /\ UNCHANGED <<blobs, index, ofile, local, commands, history>>

\* ... and writes what this command has loaded and changed.
SaveIndex(c, x) ==
  /\ index' = [index EXCEPT !["local"] = x]
  /\ torn' = FALSE
  /\ stale' = [d \in Procs |-> stale[d] \/ d # c]
  /\ disturbed' = [d \in Procs |-> disturbed[d] \/
                     (d # c /\ Named(x, ref[d]) # Named(index["local"], ref[d]))]
  /\ UNCHANGED <<blobs, ofile, interrupted, clobbered>>

CopySaveIndex(c) ==
  /\ pc[c] = "write"
  /\ SaveIndex(c, With(mem[c], to[c], img[c]))
  /\ named' = [named EXCEPT ![c] = TRUE]
  /\ mem' = [mem EXCEPT ![c] = << >>]
  /\ Goto(c, "copy")
  /\ UNCHANGED <<cmd, ref, to, img, want, reason, commands>>

\* A command that has loaded the index and has still to write it.
Saving(c) == pc[c] \in {"save", "write", "tagsave", "tagwrite"}

\* The file cannot be opened or written.
SaveFails(c) ==
  /\ Saving(c)
  /\ Fail(c, "save")
  /\ interrupted' = interrupted \cup (IF pc[c] \in Copying THEN {img[c]} ELSE {})
  /\ mem' = [mem EXCEPT ![c] = << >>]
  /\ UNCHANGED <<stores, cmd, ref, to, img, want, named, commands, stale, disturbed, clobbered>>

\* Mutant: the copy is over when the image has its name.
CopyDoneByName(c) ==
  /\ pc[c] = "copy"
  /\ named[c]
  /\ Goto(c, IF cmd[c] = "try" THEN "pull" ELSE "ok")
  /\ UNCHANGED <<stores, local, commands, history>>

\* The copy is complete. TryFromLocal goes on to read the image.
CopyDone(c) ==
  /\ pc[c] = "copy"
  /\ named[c]
  /\ Wanted(img[c]) \subseteq blobs[Dest(c)]
  /\ Goto(c, IF cmd[c] = "try" THEN "pull" ELSE "ok")
  /\ UNCHANGED <<stores, local, commands, history>>

\* A blob cannot be read or written, or the index that is to get the name cannot
\* be loaded.
CopyFails(c) ==
  /\ pc[c] = "copy"
  /\ \/ Fail(c, From(c))
     \/ torn /\ ~named[c] /\ Dest(c) = "local" /\ Fail(c, "torn")
  /\ interrupted' = interrupted \cup {img[c]}
  /\ UNCHANGED <<stores, cmd, ref, to, img, want, mem, named, commands, stale, disturbed, clobbered>>

-----------------------------------------------------------------------------
(* TryFromLocal                                                            *)

\* Whether the local store has the name; an error of any kind means no.
LookLocal(c) ==
  /\ pc[c] = "look"
  /\ Goto(c, IF Resolves("local", ref[c]) THEN "pullfirst" ELSE "resolve")
  /\ UNCHANGED <<stores, local, commands, history>>

\* What resolves is pulled, and for that resolved again; if either fails, the
\* registry is asked.
PullFirst(c) ==
  /\ pc[c] = "pullfirst"
  /\ IF Resolves("local", ref[c])
       THEN Goto(c, "readfirst") /\ img' = [img EXCEPT ![c] = index["local"][ref[c]]]
       ELSE Goto(c, "resolve") /\ UNCHANGED img
  /\ UNCHANGED <<stores, cmd, ref, to, want, mem, named, reason, commands, history>>

\* Mutant: an image that resolves but cannot be read is an error.
ReadFirstOnly(c) ==
  /\ pc[c] = "readfirst"
  /\ IF Readable(img[c]) THEN Goto(c, "ok") /\ UNCHANGED reason ELSE Fail(c, "local")
  /\ UNCHANGED <<stores, cmd, ref, to, img, want, mem, named, commands, history>>

ReadFirst(c) ==
  /\ pc[c] = "readfirst"
  /\ Goto(c, IF Readable(img[c]) THEN "ok" ELSE "resolve")
  /\ UNCHANGED <<stores, local, commands, history>>

\* Pull of what should now be in the local store.
Pull(c) ==
  /\ pc[c] = "pull"
  /\ IF Resolves("local", ref[c])
       THEN Goto(c, "read") /\ img' = [img EXCEPT ![c] = index["local"][ref[c]]] /\ UNCHANGED reason
       ELSE Fail(c, Unresolved("local")) /\ UNCHANGED img
  /\ UNCHANGED <<stores, cmd, ref, to, want, mem, named, commands, history>>

PullRead(c) ==
  /\ pc[c] = "read"
  /\ IF Readable(img[c]) THEN Goto(c, "ok") /\ UNCHANGED reason ELSE Fail(c, "local")
  /\ UNCHANGED <<stores, cmd, ref, to, img, want, mem, named, commands, history>>

-----------------------------------------------------------------------------
(* tag                                                                     *)

\* Mutant: the error of Resolve is not looked at.
TagLoadUnchecked(c) ==
  /\ pc[c] = "tagload"
  /\ LoadIndex(c)
  /\ Goto(c, "tagsave")
  /\ img' = [img EXCEPT ![c] = Named(index["local"], ref[c])]
  /\ UNCHANGED <<stores, cmd, ref, to, want, named, reason, commands, interrupted, disturbed, clobbered>>

\* NewOCI and Resolve.
TagLoad(c) ==
  /\ pc[c] = "tagload"
  /\ LoadIndex(c)
  /\ ref[c] \in DOMAIN index["local"]
  /\ Goto(c, "tagsave")
  /\ img' = [img EXCEPT ![c] = index["local"][ref[c]]]
  /\ UNCHANGED <<stores, cmd, ref, to, want, named, reason, commands, interrupted, disturbed, clobbered>>

TagFails(c) ==
  /\ pc[c] = "tagload"
  /\ ~Resolves("local", ref[c])
  /\ Fail(c, Unresolved("local"))
  /\ UNCHANGED <<stores, cmd, ref, to, img, want, mem, named, commands, history>>

\* Mutant: both names share the annotations of one descriptor, and so the new name.
TaggedShared(x, r, t, i) == [y \in (DOMAIN x \ {r}) \cup {t} |-> IF y = t THEN i ELSE x[y]]

\* AddReference with a descriptor of its own.
Tagged(x, r, t, i) == With(x, t, i)

TagSave(c) ==
  /\ pc[c] = "tagwrite"
  /\ SaveIndex(c, Tagged(mem[c], ref[c], to[c], img[c]))
  /\ mem' = [mem EXCEPT ![c] = << >>]
  /\ Goto(c, "ok")
  /\ UNCHANGED <<cmd, ref, to, img, want, named, reason, commands>>

-----------------------------------------------------------------------------
(* build                                                                   *)

Building(c) == cmd[c] = "build" /\ pc[c] \in {"create", "compile", "pack"}

Clobber(c) ==
  clobbered' = [d \in Procs |-> clobbered[d] \/ (d # c /\ Building(d))]

\* os.Create empties the output file, also when only the script is to be printed
\* or the script cannot be read.
BuildCreate(c) ==
  /\ pc[c] = "create"
  /\ ofile' = Empty
  /\ Clobber(c)
  /\ \/ Goto(c, "compile") /\ UNCHANGED reason
     \/ Goto(c, "idle") /\ UNCHANGED reason
     \/ Fail(c, "build")
  /\ UNCHANGED <<blobs, index, torn, cmd, ref, to, img, want, mem, named, commands,
                 interrupted, stale, disturbed>>

\* buildLocal or buildDocker writes the file, and --binary-only ends here; so
\* does a command line without a name, with an error.
BuildCompile(c) ==
  /\ pc[c] = "compile"
  /\ ofile' = want[c]
  /\ Clobber(c)
  /\ \/ Goto(c, "pack") /\ UNCHANGED reason
     \/ Goto(c, "idle") /\ UNCHANGED reason
     \/ Fail(c, "build")
  /\ UNCHANGED <<blobs, index, torn, cmd, ref, to, img, want, mem, named, commands,
                 interrupted, stale, disturbed>>

BuildCompileFails(c) ==
  /\ pc[c] = "compile"
  /\ Fail(c, "build")
  /\ UNCHANGED <<stores, cmd, ref, to, img, want, mem, named, commands, history>>

\* Mutant: the file is read through the descriptor os.Create returned.
BuildPackCreated(c) ==
  /\ pc[c] = "pack"
  /\ img' = [img EXCEPT ![c] = Empty]
  /\ Goto(c, "buildopen")
  /\ UNCHANGED <<stores, cmd, ref, to, want, mem, named, reason, commands, history>>

\* The output file is opened again and read, and the local store is opened.
BuildPack(c) ==
  /\ pc[c] = "pack"
  /\ img' = [img EXCEPT ![c] = ofile]
  /\ Goto(c, "buildopen")
  /\ UNCHANGED <<stores, cmd, ref, to, want, mem, named, reason, commands, history>>

\* NewOCI, and Push begins.
BuildOpen(c) ==
  /\ pc[c] = "buildopen"
  /\ IF torn THEN Fail(c, "torn") ELSE Goto(c, "copy") /\ UNCHANGED reason
  /\ UNCHANGED <<stores, cmd, ref, to, img, want, mem, named, commands, history>>

-----------------------------------------------------------------------------
Killed(c) ==
  /\ pc[c] \notin Resting
  /\ Goto(c, "killed")
  /\ interrupted' = interrupted \cup (IF pc[c] \in Copying THEN {img[c]} ELSE {})
  /\ mem' = [mem EXCEPT ![c] = << >>]
  /\ UNCHANGED <<stores, cmd, ref, to, img, want, named, reason, commands, stale, disturbed, clobbered>>

Start(c) ==
  \/ \E r \in Refs : StartPull(c, r) \/ StartPush(c, r) \/ StartTry(c, r) \/ StartPackage(c, r)
  \/ \E r, t \in Refs : StartTag(c, r, t)
  \/ \E t \in Refs, i \in Sources : StartBuild(c, t, i)

Copy(c) ==
  \/ Resolve(c) \/ CopyName(c) \/ CopyLoadIndex(c) \/ CopySaveIndex(c) \/ CopyDone(c) \/ CopyFails(c)
  \/ EmptyIndex(c) \/ SaveFails(c)
  \/ \E b \in Wanted(img[c]) : CopyBlob(c, b)

Step(c) ==
  \/ Copy(c) \/ LookLocal(c) \/ PullFirst(c) \/ ReadFirst(c) \/ Pull(c) \/ PullRead(c)
  \/ TagLoad(c) \/ TagFails(c) \/ TagSave(c)
  \/ BuildCreate(c) \/ BuildCompile(c) \/ BuildCompileFails(c) \/ BuildPack(c) \/ BuildOpen(c)

Next == \E c \in Procs : Start(c) \/ Step(c) \/ Killed(c)

Spec == Init /\ [][Next]_vars

-----------------------------------------------------------------------------
(* Properties.                                                             *)

PCs == Resting \cup Copying \cup
       {"resolve", "look", "pullfirst", "readfirst", "pull", "read",
        "tagload", "tagsave", "tagwrite", "create", "compile", "pack", "buildopen"}

\* The range of every variable. Only images that exist have names.
TypeOK ==
  /\ pc \in [Procs -> PCs]
  /\ \A s \in Sites : blobs[s] \subseteq UNION {Blobs(i) : i \in Images}
  /\ \A s \in Sites : DOMAIN index[s] \subseteq Refs /\ \A r \in DOMAIN index[s] : index[s][r] \in Images
  /\ torn \in BOOLEAN
  /\ ofile \in Images \cup {NoImage}
  /\ img \in [Procs -> Images \cup {NoImage}]
  /\ \A c \in Procs : pc[c] \in Copying => img[c] \in Images
  /\ commands \in 0..MaxCommands
  /\ interrupted \subseteq Images

\* A name of the local store whose image is not all there is one of an image
\* that is being copied, or a copy of which was interrupted. Images that bee did
\* not build are left out: a copy takes only the blobs of the types that Pull
\* allows, and ends well with half of such an image.
HalvesExplained ==
  \A r \in DOMAIN index["local"] :
    LET i == index["local"][r] IN
    \/ i \in Foreign \/ Blobs(i) \subseteq blobs["local"]
    \/ i \in interrupted
    \/ \E c \in Procs : pc[c] \in Copying /\ img[c] = i

\* TryFromLocal repairs what other commands have left half copied in the local
\* store: an image that is not there, or not all there, makes it fail only if one
\* of them changed the name while it ran, or if the registry gave it an image
\* without a program. An index that cannot be read it does not repair: that is
\* another reason to fail, and TornStays is about it.
LocalDamageRepaired ==
  \A c \in Procs :
    cmd[c] = "try" /\ pc[c] = "failed" /\ reason[c] = "local" => disturbed[c] \/ img[c] \in Foreign

\* What bee build gives a name to is what it compiled, unless another build used
\* the same output file at the same time.
BuildSavesItsOutput ==
  \A c \in Procs :
    cmd[c] = "build" /\ pc[c] \in Copying \cup {"ok"} /\ ~clobbered[c] => img[c] = want[c]

\* A command changes the name it is given and no other, unless another command
\* has saved the index between its load and its save. While the index is torn,
\* the names are those it had before, so no name is lost to a damaged index.
NamesKept ==
  [][\A r \in DOMAIN index["local"] :
       \/ r \in DOMAIN index'["local"] /\ index'["local"][r] = index["local"][r]
       \/ \E c \in Procs : /\ pc[c] \in {"write", "tagwrite"} /\ pc'[c] # pc[c]
                           /\ stale[c] \/ to[c] = r]_vars

\* A save of the local index that is cut short is for good: when no command is
\* left that loaded the index before, none gets to write it again, so whatever it
\* held, bee neither repairs it nor replaces it by one with fewer names.
TornStays ==
  [][torn /\ (\A c \in Procs : ~Saving(c)) => torn' /\ \A c \in Procs : ~Saving(c)']_vars
=============================================================================
