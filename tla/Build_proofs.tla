---------------------------- MODULE Build_proofs ----------------------------
(***************************************************************************)
(* Proofs about Build, for any number of builds at once, any Vyomafiles    *)
(* and any base images.                                                    *)
(***************************************************************************)
EXTENDS Build, TLAPS

-----------------------------------------------------------------------------
(* The inductive invariant.                                                 *)

BuildVm  == [cmd : Copies \cup {None}, dev : Owner, up : BOOLEAN]
ImageDir == [hash : Files, pcrs : (SUBSET Builds) \cup {None}, manifest : BOOLEAN,
             seed : Owner, pub : Owner, rewritten : BOOLEAN]

\* The types, with the build VMs as a function and no torn extracted directory.
Types ==
    /\ prog \in [Builds -> Programs \cup {<<>>}] /\ pc \in [Builds -> Nat]
    /\ st \in [Builds -> Steps] /\ root \in [Builds -> Paths \cup {None}]
    /\ err \in [Builds -> BOOLEAN]
    /\ extr \in [Builds -> Files \ {Torn}] /\ name \in [Builds -> Names \cup {None}]
    /\ sqfs \in [Paths -> Files] /\ ext4 \in [Paths -> Files] /\ inj \in [Names -> Files]
    /\ origin \in Owner /\ snap \in Owner /\ mounted \in BOOLEAN
    /\ loops \in [Builds -> 0..2] /\ vm \in [Builds -> BuildVm \cup {None}]
    /\ initram \in Copies \cup {None}
    /\ chSock \in Owner /\ tpmSock \in Owner
    /\ pcr \in [Builds -> SUBSET Builds] /\ child \in [Builds -> BOOLEAN]
    /\ keyDir \in BOOLEAN /\ keyPub \in Owner /\ keySec \in Owner
    /\ out \in [Builds -> ImageDir]
    /\ spoiled \in SUBSET Builds /\ alone \in SUBSET Builds

\* A build that works has a rootfs, a directory where it needs one, and a layer name.
Work(b) ==
    /\ st[b] \in RunSteps \cup CopySteps \cup FinalSteps \/ snap = b => root[b] \in Paths
    /\ st[b] \in {"truncate", "mkfs", "inject"} => extr[b] \in Content
    /\ st[b] \in {"truncateRoot", "write"} => name[b] \in Names

Hashed == {"vtpm", "hyper", "socket", "boot", "read", "manifest"}
Keyed  == {"key", "mkdir", "pub", "sec"}

HasOrigin == {"snap", "initram", "spawn", "vm", "squash", "detach", "rmSnap", "rmOrigin"}
HasSnap   == {"initram", "spawn", "vm", "squash", "detach", "rmSnap"}
HasLoops  == {"origin", "snap", "initram", "spawn", "vm", "squash", "detach"}

\* While a build needs the devices of the shared name, they are its own; for the
\* linear device bars every other build, the initramfs file is its own as well.
Devices(b) ==
    /\ st[b] \in HasOrigin => origin = b
    /\ st[b] \in HasSnap => snap = b
    /\ st[b] = "spawn" => initram = <<b, pc[b]>>
    /\ st[b] = "vm" => vm[b].cmd = <<b, pc[b]>> /\ vm[b].dev = b

\* A build to which nothing untoward happened owns devices only where it needs them.
Returned(b) ==
    b \notin spoiled =>
        /\ origin = b => st[b] \in HasOrigin
        /\ snap = b => st[b] \in HasSnap
        /\ loops[b] # 0 => st[b] \in HasLoops

\* The hash is taken between the copy of the rootfs and the manifest.
Image(b) ==
    /\ st[b] \in Hashed => out[b].rewritten \/ out[b].hash = sqfs[Output(b)]
    /\ out[b].manifest => out[b].rewritten \/ out[b].hash = sqfs[Output(b)]
    /\ out[b].manifest => st[b] \in Keyed \cup Ended

Build(b) == Work(b) /\ Devices(b) /\ Returned(b) /\ Image(b)

BuildInv == Types /\ \A b \in Builds : Build(b)

-----------------------------------------------------------------------------
(* The other builds, and the helpers.                                       *)

\* A build that the step does not touch, and whose share of the devices it does
\* not touch, keeps its part of the invariant.
LEMMA OtherBuild ==
    ASSUME NEW c \in Builds, Build(c),
           st'[c] = st[c], pc'[c] = pc[c], root'[c] = root[c], extr'[c] = extr[c],
           name'[c] = name[c], vm'[c] = vm[c], loops'[c] = loops[c], out'[c] = out[c],
           sqfs'[Output(c)] = sqfs[Output(c)],
           origin' = c <=> origin = c, snap' = c <=> snap = c,
           st[c] = "spawn" => initram' = initram,
           c \in spoiled' <=> c \in spoiled
    PROVE  Build(c)'
  <1>1. Work(c)'  BY DEF Build, Work
  <1>2. Devices(c)'  BY DEF Build, Devices, HasOrigin, HasSnap
  <1>3. Returned(c)'  BY DEF Build, Returned
  <1>4. Image(c)'  BY DEF Build, Image
  <1>. QED  BY <1>1, <1>2, <1>3, <1>4 DEF Build

\* No file is no path.
LEMMA NonePath == None \notin Paths
  BY BuildAssumption DEF Paths, Images

\* The step writes the file at path p: if that is build c's image, it is rewritten.
Rewritten(c, p) ==
    /\ p # Output(c) => out'[c] = out[c]
    /\ p = Output(c) => /\ out'[c].rewritten /\ out'[c].manifest = out[c].manifest
                        /\ out'[c].pcrs = out[c].pcrs

\* So is a build whose image the step rewrites.
LEMMA RewrittenBuild ==
    ASSUME NEW c \in Builds, NEW p, Build(c), Rewritten(c, p),
           p # Output(c) => sqfs'[Output(c)] = sqfs[Output(c)],
           st'[c] = st[c], pc'[c] = pc[c], root'[c] = root[c], extr'[c] = extr[c],
           name'[c] = name[c], vm'[c] = vm[c], loops'[c] = loops[c],
           origin' = c <=> origin = c, snap' = c <=> snap = c,
           st[c] = "spawn" => initram' = initram,
           c \in spoiled' <=> c \in spoiled
    PROVE  Build(c)'
  <1>1. Work(c)'  BY DEF Build, Work
  <1>2. Devices(c)'  BY DEF Build, Devices, HasOrigin, HasSnap
  <1>3. Returned(c)'  BY DEF Build, Returned
  <1>4. Image(c)'  BY DEF Build, Image, Rewritten
  <1>. QED  BY <1>1, <1>2, <1>3, <1>4 DEF Build

\* What a COPY that writes the rootfs of build b does to the image directories.
LEMMA RewriteEntries ==
    ASSUME NEW b \in Builds, out \in [Builds -> ImageDir], Rewrite(b)
    PROVE  /\ out' \in [Builds -> ImageDir]
           /\ \A c \in Builds : Rewritten(c, root[b])
  <1>1. \A c \in Builds : [out[c] EXCEPT !.rewritten = TRUE] \in ImageDir  BY DEF ImageDir
  <1>2. out' \in [Builds -> ImageDir]  BY <1>1 DEF Rewrite
  <1>3. ASSUME NEW c \in Builds PROVE Rewritten(c, root[b])
    <2>1. out[c] \in ImageDir  OBVIOUS
    <2>2. CASE root[b] = Output(c)
      <3>1. out'[c] = [out[c] EXCEPT !.rewritten = TRUE]  BY <2>2 DEF Rewrite
      <3>. QED  BY <2>1, <2>2, <3>1 DEF Rewritten, ImageDir
    <2>3. CASE root[b] # Output(c)
      <3>1. out'[c] = out[c]  BY <2>3 DEF Rewrite
      <3>. QED  BY <2>3, <3>1 DEF Rewritten
    <2>. QED  BY <2>2, <2>3
  <1>. QED  BY <1>2, <1>3

\* A table keeps its type when one place gets a value of that type.
LEMMA TableType ==
    ASSUME NEW D, NEW S, NEW f \in [D -> S], NEW k, NEW x \in S
    PROVE  [f EXCEPT ![k] = x] \in [D -> S]
  OBVIOUS

\* One place of a table gets a value; the others keep theirs.
LEMMA TableEntry ==
    ASSUME NEW D, NEW S, NEW f \in [D -> S], NEW k \in D, NEW x
    PROVE  /\ [f EXCEPT ![k] = x][k] = x
           /\ \A d \in D \ {k} : [f EXCEPT ![k] = x][d] = f[d]
  OBVIOUS

\* A field of an image directory is written.
LEMMA ImageType ==
    ASSUME NEW x \in ImageDir
    PROVE  /\ \A f \in Files : [x EXCEPT !.hash = f] \in ImageDir
           /\ \A s \in SUBSET Builds : [x EXCEPT !.pcrs = s] \in ImageDir
           /\ [x EXCEPT !.manifest = TRUE] \in ImageDir
           /\ \A s, p \in Owner : [x EXCEPT !.seed = s, !.pub = p] \in ImageDir
           /\ [x EXCEPT !.rewritten = TRUE] \in ImageDir
  BY DEF ImageDir

\* The place of a build's image is no layer and no other build's place.
LEMMA OutputPath ==
    ASSUME NEW b \in Builds
    PROVE  /\ Output(b) \in Images /\ Output(b) \in Paths
           /\ \A c \in Builds : Output(b) # c
           /\ \A c \in Builds \ {b} : Output(b) # Output(c)
           /\ b \notin Images
  <1>1. \A c \in Builds : Output(b) # c  BY BuildAssumption
  <1>4. b \notin Images  BY BuildAssumption DEF Images
  <1>2. Output(b) \in Images /\ Output(b) \in Paths  BY DEF Images, Paths
  <1>3. \A c \in Builds \ {b} : Output(b) # Output(c)  BY DEF Output
  <1>. QED  BY <1>1, <1>2, <1>3, <1>4

\* The only step such a move makes is the build's own: a step that fails, or one of
\* finalize_image that writes neither the rootfs, the hash nor the manifest.
LEMMA MoveKeeps ==
    ASSUME BuildInv, NEW b \in Builds, NEW s \in Steps, st' = [st EXCEPT ![b] = s],
           extr' = extr \/ extr' = [extr EXCEPT ![b] = None],
           UNCHANGED <<prog, pc, root, err, name, sqfs, ext4, inj, origin, snap, mounted,
                       loops, vm, initram, out, spoiled, alone>>,
           chSock' \in Owner, tpmSock' \in Owner,
           pcr' \in [Builds -> SUBSET Builds], child' \in [Builds -> BOOLEAN],
           keyDir' \in BOOLEAN, keyPub' \in Owner, keySec' \in Owner,
           st[b] \notin HasOrigin \cup HasLoops,
           \/ s \in Ended
           \/ st[b] \in Hashed /\ s \in Hashed
           \/ st[b] \in Keyed /\ s \in Keyed
    PROVE  BuildInv'
  <1>0. Types /\ Build(b) /\ Work(b) /\ Devices(b) /\ Returned(b) /\ Image(b)
    BY DEF BuildInv, Build
  <1>1. st' \in [Builds -> Steps]  BY <1>0, TableType DEF Types
  <1>2. extr' \in [Builds -> Files \ {Torn}]
    <2>1. None \in Files \ {Torn}  BY BuildAssumption DEF Files
    <2>. QED  BY <1>0, <2>1, TableType DEF Types
  <1>3. Types'  BY <1>0, <1>1, <1>2 DEF Types
  <1>4. st'[b] = s /\ \A c \in Builds \ {b} : st'[c] = st[c] /\ extr'[c] = extr[c]
    BY <1>0 DEF Types
  <1>5. \A c \in Builds \ {b} : Build(c)'  BY <1>4, OtherBuild DEF BuildInv
  <1>6. Work(b)'  BY <1>0, <1>4 DEF Work, Hashed, Keyed, FinalSteps, RunSteps, CopySteps, Ended
  <1>7. Devices(b)'  BY <1>0, <1>4 DEF Devices, Hashed, Keyed, Ended, HasOrigin, HasSnap
  <1>8. Returned(b)'  BY <1>0, <1>4 DEF Returned, HasSnap, HasOrigin, HasLoops
  <1>9. Image(b)'  BY <1>0, <1>4 DEF Image, Hashed, Keyed, Ended
  <1>. QED  BY <1>3, <1>5, <1>6, <1>7, <1>8, <1>9 DEF BuildInv, Build

-----------------------------------------------------------------------------
(* One lemma per step of a build.                                           *)

\* Taking a request in keeps the invariant.
LEMMA BuildBeginKeeps ==
    ASSUME BuildInv, NEW b \in Builds, BuildBegin(b)
    PROVE  BuildInv'
  <1>. USE BuildAssumption
  <1>0. Types /\ Build(b) /\ Work(b) /\ Devices(b) /\ Returned(b) /\ Image(b)
    BY DEF BuildInv, Build
  <1>1. st[b] = "idle"  BY DEF BuildBegin
  <1>2. ASSUME NEW p \in Programs,
             prog' = [prog EXCEPT ![b] = p] /\ st' = [st EXCEPT ![b] = "next"],
             Lonely(b),
             UNCHANGED <<pc, root, err, extr, name, sqfs, ext4, inj, origin, snap, mounted, loops,
                          vm, initram, chSock, tpmSock, pcr, child, keyDir, keyPub, keySec,
                          out, spoiled>>
        PROVE  BuildInv'
    <2>1. p \in Programs \cup {<<>>}  BY <1>0, <1>1, <1>2 DEF Types
    <2>2. prog' \in [Builds -> Programs \cup {<<>>}]  BY <1>0, <1>2, <2>1, TableType DEF Types
    <2>3. "next" \in Steps  BY <1>0, <1>1, <1>2 DEF Steps, RunSteps, CopySteps, FinalSteps,
                               Ended
    <2>4. st' \in [Builds -> Steps]  BY <1>0, <1>2, <2>3, TableType DEF Types
    <2>5. alone' \in SUBSET Builds  BY <1>0, <1>1, <1>2 DEF Types, Lonely
    <2>6. Types'  BY <1>0, <1>2, <2>2, <2>4, <2>5 DEF Types
    <2>7. prog'[b] = p /\ st'[b] = "next"
      BY <1>0, <1>2, TableEntry DEF Types
    <2>8. \A c \in Builds \ {b} : prog'[c] = prog[c] /\ st'[c] = st[c]
      BY <1>0, <1>2, TableEntry DEF Types
    <2>9. \A c \in Builds \ {b} : Build(c)'
      BY <1>2, <2>8, OtherBuild DEF BuildInv
    <2>10. Work(b)'  BY <1>0, <1>1, <1>2, <2>7 DEF Work, Paths, RunSteps, CopySteps, FinalSteps
    <2>11. Devices(b)'  BY <1>0, <1>1, <1>2, <2>7 DEF Devices, HasOrigin, HasSnap
    <2>12. Returned(b)'  BY <1>0, <1>1, <1>2, <2>7 DEF Returned, HasOrigin, HasSnap, HasLoops
    <2>13. Image(b)'  BY <1>0, <1>1, <1>2, <2>7 DEF Image, Hashed, Keyed, Ended
    <2>. QED  BY <2>6, <2>9, <2>10, <2>11, <2>12, <2>13 DEF BuildInv, Build
  <1>3. ASSUME NEW p \in Programs,
             prog' = [prog EXCEPT ![b] = p] /\ st' = [st EXCEPT ![b] = "failed"],
             Lonely(b),
             UNCHANGED <<pc, root, err, extr, name, sqfs, ext4, inj, origin, snap, mounted, loops,
                          vm, initram, chSock, tpmSock, pcr, child, keyDir, keyPub, keySec,
                          out, spoiled>>
        PROVE  BuildInv'
    <2>1. p \in Programs \cup {<<>>}  BY <1>0, <1>1, <1>3 DEF Types
    <2>2. prog' \in [Builds -> Programs \cup {<<>>}]  BY <1>0, <1>3, <2>1, TableType DEF Types
    <2>3. "failed" \in Steps  BY <1>0, <1>1, <1>3 DEF Steps, RunSteps, CopySteps, FinalSteps,
                                 Ended
    <2>4. st' \in [Builds -> Steps]  BY <1>0, <1>3, <2>3, TableType DEF Types
    <2>5. alone' \in SUBSET Builds  BY <1>0, <1>1, <1>3 DEF Types, Lonely
    <2>6. Types'  BY <1>0, <1>3, <2>2, <2>4, <2>5 DEF Types
    <2>7. prog'[b] = p /\ st'[b] = "failed"
      BY <1>0, <1>3, TableEntry DEF Types
    <2>8. \A c \in Builds \ {b} : prog'[c] = prog[c] /\ st'[c] = st[c]
      BY <1>0, <1>3, TableEntry DEF Types
    <2>9. \A c \in Builds \ {b} : Build(c)'
      BY <1>3, <2>8, OtherBuild DEF BuildInv
    <2>10. Work(b)'  BY <1>0, <1>1, <1>3, <2>7 DEF Work, Paths, RunSteps, CopySteps, FinalSteps
    <2>11. Devices(b)'  BY <1>0, <1>1, <1>3, <2>7 DEF Devices, HasOrigin, HasSnap
    <2>12. Returned(b)'  BY <1>0, <1>1, <1>3, <2>7 DEF Returned, HasOrigin, HasSnap, HasLoops
    <2>13. Image(b)'  BY <1>0, <1>1, <1>3, <2>7 DEF Image, Hashed, Keyed, Ended
    <2>. QED  BY <2>6, <2>9, <2>10, <2>11, <2>12, <2>13 DEF BuildInv, Build
  <1>. QED  BY <1>2, <1>3 DEF BuildBegin, Goto, fileVars, devVars, measVars, keyVars

\* FROM keeps the invariant.
LEMMA HandleFromKeeps ==
    ASSUME BuildInv, NEW b \in Builds, HandleFrom(b)
    PROVE  BuildInv'
  <1>. USE BuildAssumption
  <1>0. Types /\ Build(b) /\ Work(b) /\ Devices(b) /\ Returned(b) /\ Image(b)
    BY DEF BuildInv, Build
  <1>1. At(b, "from")  BY DEF HandleFrom
  <1>2. CASE /\ Instr(b).image \in Images /\ sqfs[Instr(b).image] # None
             /\ root' = [root EXCEPT ![b] = Instr(b).image]
             /\ st' = [st EXCEPT ![b] = "next"] /\ pc' = [pc EXCEPT ![b] = pc[b] + 1]
             /\ UNCHANGED <<prog, err, extr, name, sqfs, ext4, inj, origin, snap, mounted, loops, vm,
                           initram, chSock, tpmSock, pcr, child, keyDir, keyPub, keySec, out,
                           spoiled, alone>>
    <2>1. Instr(b).image \in Paths \cup {None}  BY <1>0, <1>1, <1>2
                                                   DEF Types, Paths, Work, Files, RunSteps,
                                                       CopySteps, FinalSteps
    <2>2. root' \in [Builds -> Paths \cup {None}]  BY <1>0, <1>2, <2>1, TableType DEF Types
    <2>3. "next" \in Steps  BY <1>0, <1>1, <1>2 DEF Steps, RunSteps, CopySteps, FinalSteps,
                               Ended
    <2>4. st' \in [Builds -> Steps]  BY <1>0, <1>2, <2>3, TableType DEF Types
    <2>5. pc[b] + 1 \in Nat  BY <1>0, <1>1, <1>2 DEF Types
    <2>6. pc' \in [Builds -> Nat]  BY <1>0, <1>2, <2>5, TableType DEF Types
    <2>7. Types'  BY <1>0, <1>2, <2>2, <2>4, <2>6 DEF Types
    <2>8. root'[b] = Instr(b).image /\ st'[b] = "next" /\ pc'[b] = pc[b] + 1
      BY <1>0, <1>2, TableEntry DEF Types
    <2>9. \A c \in Builds \ {b} : root'[c] = root[c] /\ st'[c] = st[c] /\ pc'[c] = pc[c]
      BY <1>0, <1>2, TableEntry DEF Types
    <2>10. \A c \in Builds \ {b} : Build(c)'
      BY <1>2, <2>9, OtherBuild DEF BuildInv
    <2>11. Work(b)'  BY <1>0, <1>1, <1>2, <2>8 DEF Work, Paths, RunSteps, CopySteps,
                        FinalSteps, At
    <2>12. Devices(b)'  BY <1>0, <1>1, <1>2, <2>8 DEF Devices, HasOrigin, HasSnap, At
    <2>13. Returned(b)'  BY <1>0, <1>1, <1>2, <2>8 DEF Returned, HasOrigin, HasSnap, HasLoops,
                            At
    <2>14. Image(b)'  BY <1>0, <1>1, <1>2, <2>8 DEF Image, Hashed, Keyed, Ended, At
    <2>. QED  BY <2>7, <2>10, <2>11, <2>12, <2>13, <2>14 DEF BuildInv, Build
  <1>3. CASE /\ st' = [st EXCEPT ![b] = "failed"]
             /\ UNCHANGED <<prog, pc, root, err, extr, name, sqfs, ext4, inj, origin, snap, mounted,
                           loops, vm, initram, chSock, tpmSock, pcr, child, keyDir, keyPub,
                           keySec, out, spoiled, alone>>
    <2>1. chSock' \in Owner /\ tpmSock' \in Owner /\ pcr' \in [Builds -> SUBSET Builds]
          /\ child' \in [Builds -> BOOLEAN] /\ keyDir' \in BOOLEAN
          /\ keyPub' \in Owner /\ keySec' \in Owner
      BY <1>0, <1>3 DEF Types
    <2>2. "failed" \in Steps  BY DEF Steps, RunSteps, FinalSteps, Ended
    <2>. QED
      BY <1>1, <1>3, <2>1, <2>2, MoveKeeps
      DEF HasOrigin, HasLoops, Hashed, Keyed, Ended, At
  <1>. QED  BY <1>2, <1>3 DEF HandleFrom, Advance, Goto, fileVars, devVars, measVars, keyVars,
                              histVars

\* A line that fills the configuration keeps the invariant.
LEMMA HandleConfigKeeps ==
    ASSUME BuildInv, NEW b \in Builds, HandleConfig(b)
    PROVE  BuildInv'
  <1>. USE BuildAssumption
  <1>0. Types /\ Build(b) /\ Work(b) /\ Devices(b) /\ Returned(b) /\ Image(b)
    BY DEF BuildInv, Build
  <1>1. At(b, "config") \/ At(b, "measured")  BY DEF HandleConfig
  <1>2. CASE /\ st' = [st EXCEPT ![b] = "next"] /\ pc' = [pc EXCEPT ![b] = pc[b] + 1]
             /\ UNCHANGED <<prog, root, err, extr, name, sqfs, ext4, inj, origin, snap, mounted,
                           loops, vm, initram, chSock, tpmSock, pcr, child, keyDir, keyPub,
                           keySec, out, spoiled, alone>>
    <2>1. "next" \in Steps  BY <1>0, <1>1, <1>2 DEF Steps, RunSteps, CopySteps, FinalSteps,
                               Ended
    <2>2. st' \in [Builds -> Steps]  BY <1>0, <1>2, <2>1, TableType DEF Types
    <2>3. pc[b] + 1 \in Nat  BY <1>0, <1>1, <1>2 DEF Types
    <2>4. pc' \in [Builds -> Nat]  BY <1>0, <1>2, <2>3, TableType DEF Types
    <2>5. Types'  BY <1>0, <1>2, <2>2, <2>4 DEF Types
    <2>6. st'[b] = "next" /\ pc'[b] = pc[b] + 1
      BY <1>0, <1>2, TableEntry DEF Types
    <2>7. \A c \in Builds \ {b} : st'[c] = st[c] /\ pc'[c] = pc[c]
      BY <1>0, <1>2, TableEntry DEF Types
    <2>8. \A c \in Builds \ {b} : Build(c)'
      BY <1>2, <2>7, OtherBuild DEF BuildInv
    <2>9. Work(b)'  BY <1>0, <1>1, <1>2, <2>6 DEF Work, Paths, RunSteps, CopySteps,
                                                  FinalSteps, At
    <2>10. Devices(b)'  BY <1>0, <1>1, <1>2, <2>6 DEF Devices, HasOrigin, HasSnap, At
    <2>11. Returned(b)'  BY <1>0, <1>1, <1>2, <2>6 DEF Returned, HasOrigin, HasSnap, HasLoops,
                            At
    <2>12. Image(b)'  BY <1>0, <1>1, <1>2, <2>6 DEF Image, Hashed, Keyed, Ended, At
    <2>. QED  BY <2>5, <2>8, <2>9, <2>10, <2>11, <2>12 DEF BuildInv, Build
  <1>. QED  BY <1>2 DEF HandleConfig, Advance, Goto, fileVars, devVars, measVars, keyVars,
                        histVars

\* A file without FROM keeps the invariant.
LEMMA NoRootfsKeeps ==
    ASSUME BuildInv, NEW b \in Builds, NoRootfs(b)
    PROVE  BuildInv'
  <1>. USE BuildAssumption
  <1>0. Types /\ Build(b) /\ Work(b) /\ Devices(b) /\ Returned(b) /\ Image(b)
    BY DEF BuildInv, Build
  <1>1. st[b] = "next" /\ root[b] = None  BY DEF NoRootfs, At
  <1>2. CASE /\ st' = [st EXCEPT ![b] = "failed"]
             /\ UNCHANGED <<prog, pc, root, err, extr, name, sqfs, ext4, inj, origin, snap, mounted,
                           loops, vm, initram, chSock, tpmSock, pcr, child, keyDir, keyPub,
                           keySec, out, spoiled, alone>>
    <2>1. chSock' \in Owner /\ tpmSock' \in Owner /\ pcr' \in [Builds -> SUBSET Builds]
          /\ child' \in [Builds -> BOOLEAN] /\ keyDir' \in BOOLEAN
          /\ keyPub' \in Owner /\ keySec' \in Owner
      BY <1>0, <1>2 DEF Types
    <2>2. "failed" \in Steps  BY DEF Steps, RunSteps, FinalSteps, Ended
    <2>. QED
      BY <1>1, <1>2, <2>1, <2>2, MoveKeeps
      DEF HasOrigin, HasLoops, Hashed, Keyed, Ended
  <1>. QED  BY <1>2 DEF NoRootfs, Goto, fileVars, devVars, measVars, keyVars, histVars

\* The lookup in the ext4 cache keeps the invariant.
LEMMA RunBeginKeeps ==
    ASSUME BuildInv, NEW b \in Builds, RunBegin(b)
    PROVE  BuildInv'
  <1>. USE BuildAssumption
  <1>0. Types /\ Build(b) /\ Work(b) /\ Devices(b) /\ Returned(b) /\ Image(b)
    BY DEF BuildInv, Build
  <1>1. At(b, "run") /\ root[b] # None  BY DEF RunBegin
  <1>2. root[b] \in Paths
    BY <1>0, <1>1 DEF Types, Work, RunSteps, CopySteps, FinalSteps
  <1>3. CASE /\ ext4[root[b]] # None /\ st' = [st EXCEPT ![b] = "attach"]
             /\ UNCHANGED <<prog, pc, root, err, extr, name, sqfs, ext4, inj, origin, snap, mounted,
                           loops, vm, initram, chSock, tpmSock, pcr, child, keyDir, keyPub,
                           keySec, out, spoiled, alone>>
    <2>1. "attach" \in Steps  BY <1>0, <1>1, <1>2, <1>3 DEF Steps, RunSteps, CopySteps,
                                 FinalSteps, Ended
    <2>2. st' \in [Builds -> Steps]  BY <1>0, <1>3, <2>1, TableType DEF Types
    <2>3. Types'  BY <1>0, <1>3, <2>2 DEF Types
    <2>4. st'[b] = "attach"
      BY <1>0, <1>3, TableEntry DEF Types
    <2>5. \A c \in Builds \ {b} : st'[c] = st[c]
      BY <1>0, <1>3, TableEntry DEF Types
    <2>6. \A c \in Builds \ {b} : Build(c)'
      BY <1>3, <2>5, OtherBuild DEF BuildInv
    <2>7. Work(b)'  BY <1>0, <1>1, <1>2, <1>3, <2>4 DEF Work, Paths, RunSteps, CopySteps,
                       FinalSteps, At
    <2>8. Devices(b)'  BY <1>0, <1>1, <1>2, <1>3, <2>4 DEF Devices, HasOrigin, HasSnap, At
    <2>9. Returned(b)'  BY <1>0, <1>1, <1>2, <1>3, <2>4 DEF Returned, HasOrigin, HasSnap,
                           HasLoops, At
    <2>10. Image(b)'  BY <1>0, <1>1, <1>2, <1>3, <2>4 DEF Image, Hashed, Keyed, Ended, At
    <2>. QED  BY <2>3, <2>6, <2>7, <2>8, <2>9, <2>10 DEF BuildInv, Build
  <1>4. CASE /\ ext4[root[b]] = None /\ st' = [st EXCEPT ![b] = "extract"]
             /\ UNCHANGED <<prog, pc, root, err, extr, name, sqfs, ext4, inj, origin, snap, mounted,
                           loops, vm, initram, chSock, tpmSock, pcr, child, keyDir, keyPub,
                           keySec, out, spoiled, alone>>
    <2>1. "extract" \in Steps  BY <1>0, <1>1, <1>2, <1>4 DEF Steps, RunSteps, CopySteps,
                                  FinalSteps, Ended
    <2>2. st' \in [Builds -> Steps]  BY <1>0, <1>4, <2>1, TableType DEF Types
    <2>3. Types'  BY <1>0, <1>4, <2>2 DEF Types
    <2>4. st'[b] = "extract"
      BY <1>0, <1>4, TableEntry DEF Types
    <2>5. \A c \in Builds \ {b} : st'[c] = st[c]
      BY <1>0, <1>4, TableEntry DEF Types
    <2>6. \A c \in Builds \ {b} : Build(c)'
      BY <1>4, <2>5, OtherBuild DEF BuildInv
    <2>7. Work(b)'  BY <1>0, <1>1, <1>2, <1>4, <2>4 DEF Work, Paths, RunSteps, CopySteps,
                       FinalSteps, At
    <2>8. Devices(b)'  BY <1>0, <1>1, <1>2, <1>4, <2>4 DEF Devices, HasOrigin, HasSnap, At
    <2>9. Returned(b)'  BY <1>0, <1>1, <1>2, <1>4, <2>4 DEF Returned, HasOrigin, HasSnap,
                           HasLoops, At
    <2>10. Image(b)'  BY <1>0, <1>1, <1>2, <1>4, <2>4 DEF Image, Hashed, Keyed, Ended, At
    <2>. QED  BY <2>3, <2>6, <2>7, <2>8, <2>9, <2>10 DEF BuildInv, Build
  <1>. QED  BY <1>3, <1>4 DEF RunBegin, Goto, devVars, runFrame, measVars, keyVars

\* unsquashfs for a RUN keeps the invariant.
LEMMA RunExtractKeeps ==
    ASSUME BuildInv, NEW b \in Builds, RunExtract(b)
    PROVE  BuildInv'
  <1>. USE BuildAssumption
  <1>0. Types /\ Build(b) /\ Work(b) /\ Devices(b) /\ Returned(b) /\ Image(b)
    BY DEF BuildInv, Build
  <1>1. st[b] = "extract"  BY DEF RunExtract
  <1>2. root[b] \in Paths
    BY <1>0, <1>1 DEF Types, Work, RunSteps, CopySteps, FinalSteps
  <1>3. CASE /\ sqfs[root[b]] \notin {None, Torn}
             /\ extr' = [extr EXCEPT ![b] = sqfs[root[b]]]
             /\ st' = [st EXCEPT ![b] = "truncate"]
             /\ UNCHANGED <<prog, pc, root, err, name, sqfs, ext4, inj, origin, snap, mounted, loops,
                           vm, initram, chSock, tpmSock, pcr, child, keyDir, keyPub, keySec,
                           out, spoiled, alone>>
    <2>1. sqfs[root[b]] \in Content
      <3>1. sqfs[root[b]] \in Files  BY <1>0, <1>2 DEF Types
      <3>. QED  BY <1>3, <3>1 DEF Files
    <2>2. sqfs[root[b]] \in Files \ {Torn}  BY <1>3, <2>1 DEF Files
    <2>3. extr' \in [Builds -> Files \ {Torn}]  BY <1>0, <1>3, <2>2, TableType DEF Types
    <2>4. "truncate" \in Steps  BY <1>0, <1>1, <1>2, <1>3 DEF Steps, RunSteps, CopySteps,
                                   FinalSteps, Ended
    <2>5. st' \in [Builds -> Steps]  BY <1>0, <1>3, <2>4, TableType DEF Types
    <2>6. Types'  BY <1>0, <1>3, <2>3, <2>5 DEF Types
    <2>7. extr'[b] = sqfs[root[b]] /\ st'[b] = "truncate"
      BY <1>0, <1>3, TableEntry DEF Types
    <2>8. \A c \in Builds \ {b} : extr'[c] = extr[c] /\ st'[c] = st[c]
      BY <1>0, <1>3, TableEntry DEF Types
    <2>9. \A c \in Builds \ {b} : Build(c)'
      BY <1>3, <2>8, OtherBuild DEF BuildInv
    <2>10. Work(b)'  BY <1>0, <1>1, <1>2, <1>3, <2>7, <2>1 DEF Work, Paths, RunSteps,
                        CopySteps, FinalSteps
    <2>11. Devices(b)'  BY <1>0, <1>1, <1>2, <1>3, <2>7, <2>1 DEF Devices, HasOrigin, HasSnap
    <2>12. Returned(b)'  BY <1>0, <1>1, <1>2, <1>3, <2>7 DEF Returned, HasOrigin, HasSnap,
                            HasLoops
    <2>13. Image(b)'  BY <1>0, <1>1, <1>2, <1>3, <2>7 DEF Image, Hashed, Keyed, Ended
    <2>. QED  BY <2>6, <2>9, <2>10, <2>11, <2>12, <2>13 DEF BuildInv, Build
  <1>4. CASE /\ st' = [st EXCEPT ![b] = "failed"] /\ extr' = [extr EXCEPT ![b] = None]
             /\ UNCHANGED <<prog, pc, root, err, name, sqfs, ext4, inj, origin, snap, mounted, loops,
                           vm, initram, chSock, tpmSock, pcr, child, keyDir, keyPub, keySec,
                           out, spoiled, alone>>
    <2>1. chSock' \in Owner /\ tpmSock' \in Owner /\ pcr' \in [Builds -> SUBSET Builds]
          /\ child' \in [Builds -> BOOLEAN] /\ keyDir' \in BOOLEAN
          /\ keyPub' \in Owner /\ keySec' \in Owner
      BY <1>0, <1>4 DEF Types
    <2>2. "failed" \in Steps  BY DEF Steps, RunSteps, FinalSteps, Ended
    <2>. QED
      BY <1>1, <1>4, <2>1, <2>2, MoveKeeps
      DEF HasOrigin, HasLoops, Hashed, Keyed, Ended
  <1>. QED  BY <1>3, <1>4 DEF RunExtract, extract_squashfs, Goto, Leave, devVars, runFrame,
                              measVars, keyVars

\* truncate keeps the invariant.
LEMMA RunTruncateKeeps ==
    ASSUME BuildInv, NEW b \in Builds, RunTruncate(b)
    PROVE  BuildInv'
  <1>. USE BuildAssumption
  <1>0. Types /\ Build(b) /\ Work(b) /\ Devices(b) /\ Returned(b) /\ Image(b)
    BY DEF BuildInv, Build
  <1>1. st[b] = "truncate"  BY DEF RunTruncate
  <1>2. root[b] \in Paths
    BY <1>0, <1>1 DEF Types, Work, RunSteps, CopySteps, FinalSteps
  <1>3. CASE /\ ext4' = [ext4 EXCEPT ![root[b]] =
                       (IF ext4[root[b]] = None THEN Torn ELSE ext4[root[b]])]
             /\ st' = [st EXCEPT ![b] = "mkfs"]
             /\ UNCHANGED <<prog, pc, root, err, extr, name, sqfs, inj, origin, snap, mounted, loops,
                           vm, initram, chSock, tpmSock, pcr, child, keyDir, keyPub, keySec,
                           out, spoiled, alone>>
    <2>1. (IF ext4[root[b]] = None THEN Torn ELSE ext4[root[b]]) \in Files
      BY <1>0, <1>1, <1>2, <1>3 DEF Types, Paths, Work, Files, RunSteps, CopySteps, FinalSteps
    <2>2. ext4' \in [Paths -> Files]  BY <1>0, <1>3, <2>1, TableType DEF Types
    <2>3. "mkfs" \in Steps  BY <1>0, <1>1, <1>2, <1>3 DEF Steps, RunSteps, CopySteps,
                               FinalSteps, Ended
    <2>4. st' \in [Builds -> Steps]  BY <1>0, <1>3, <2>3, TableType DEF Types
    <2>5. Types'  BY <1>0, <1>3, <2>2, <2>4 DEF Types
    <2>6. st'[b] = "mkfs"
      BY <1>0, <1>3, TableEntry DEF Types
    <2>7. \A c \in Builds \ {b} : st'[c] = st[c]
      BY <1>0, <1>3, TableEntry DEF Types
    <2>8. \A c \in Builds \ {b} : Build(c)'
      BY <1>3, <2>7, OtherBuild DEF BuildInv
    <2>9. Work(b)'  BY <1>0, <1>1, <1>2, <1>3, <2>6 DEF Work, Paths, RunSteps, CopySteps,
                       FinalSteps
    <2>10. Devices(b)'  BY <1>0, <1>1, <1>2, <1>3, <2>6 DEF Devices, HasOrigin, HasSnap
    <2>11. Returned(b)'  BY <1>0, <1>1, <1>2, <1>3, <2>6 DEF Returned, HasOrigin, HasSnap,
                            HasLoops
    <2>12. Image(b)'  BY <1>0, <1>1, <1>2, <1>3, <2>6 DEF Image, Hashed, Keyed, Ended
    <2>. QED  BY <2>5, <2>8, <2>9, <2>10, <2>11, <2>12 DEF BuildInv, Build
  <1>4. CASE /\ st' = [st EXCEPT ![b] = "failed"] /\ extr' = [extr EXCEPT ![b] = None]
             /\ UNCHANGED <<prog, pc, root, err, name, sqfs, ext4, inj, origin, snap, mounted, loops,
                           vm, initram, chSock, tpmSock, pcr, child, keyDir, keyPub, keySec,
                           out, spoiled, alone>>
    <2>1. chSock' \in Owner /\ tpmSock' \in Owner /\ pcr' \in [Builds -> SUBSET Builds]
          /\ child' \in [Builds -> BOOLEAN] /\ keyDir' \in BOOLEAN
          /\ keyPub' \in Owner /\ keySec' \in Owner
      BY <1>0, <1>4 DEF Types
    <2>2. "failed" \in Steps  BY DEF Steps, RunSteps, FinalSteps, Ended
    <2>. QED
      BY <1>1, <1>4, <2>1, <2>2, MoveKeeps
      DEF HasOrigin, HasLoops, Hashed, Keyed, Ended
  <1>. QED  BY <1>3, <1>4 DEF RunTruncate, Goto, Leave, devVars, runFrame, measVars, keyVars

\* mkfs.ext4 keeps the invariant.
LEMMA RunMkfsKeeps ==
    ASSUME BuildInv, NEW b \in Builds, RunMkfs(b)
    PROVE  BuildInv'
  <1>. USE BuildAssumption
  <1>0. Types /\ Build(b) /\ Work(b) /\ Devices(b) /\ Returned(b) /\ Image(b)
    BY DEF BuildInv, Build
  <1>1. st[b] = "mkfs"  BY DEF RunMkfs
  <1>2. root[b] \in Paths
    BY <1>0, <1>1 DEF Types, Work, RunSteps, CopySteps, FinalSteps
  <1>3. CASE /\ ext4' = [ext4 EXCEPT ![root[b]] = extr[b]]
             /\ extr' = [extr EXCEPT ![b] = None] /\ st' = [st EXCEPT ![b] = "attach"]
             /\ UNCHANGED <<prog, pc, root, err, name, sqfs, inj, origin, snap, mounted, loops, vm,
                           initram, chSock, tpmSock, pcr, child, keyDir, keyPub, keySec, out,
                           spoiled, alone>>
    <2>1. extr[b] \in Files  BY <1>0, <1>1, <1>2, <1>3 DEF Types, Paths, Work, Files,
                                RunSteps, CopySteps, FinalSteps
    <2>2. ext4' \in [Paths -> Files]  BY <1>0, <1>3, <2>1, TableType DEF Types
    <2>3. None \in Files \ {Torn}  BY <1>0, <1>1, <1>2, <1>3 DEF Types, Paths, Work, Files,
                                      RunSteps, CopySteps, FinalSteps
    <2>4. extr' \in [Builds -> Files \ {Torn}]  BY <1>0, <1>3, <2>3, TableType DEF Types
    <2>5. "attach" \in Steps  BY <1>0, <1>1, <1>2, <1>3 DEF Steps, RunSteps, CopySteps,
                                 FinalSteps, Ended
    <2>6. st' \in [Builds -> Steps]  BY <1>0, <1>3, <2>5, TableType DEF Types
    <2>7. Types'  BY <1>0, <1>3, <2>2, <2>4, <2>6 DEF Types
    <2>8. extr'[b] = None /\ st'[b] = "attach"
      BY <1>0, <1>3, TableEntry DEF Types
    <2>9. \A c \in Builds \ {b} : extr'[c] = extr[c] /\ st'[c] = st[c]
      BY <1>0, <1>3, TableEntry DEF Types
    <2>10. \A c \in Builds \ {b} : Build(c)'
      BY <1>3, <2>9, OtherBuild DEF BuildInv
    <2>11. Work(b)'  BY <1>0, <1>1, <1>2, <1>3, <2>8 DEF Work, Paths, RunSteps, CopySteps,
                        FinalSteps
    <2>12. Devices(b)'  BY <1>0, <1>1, <1>2, <1>3, <2>8 DEF Devices, HasOrigin, HasSnap
    <2>13. Returned(b)'  BY <1>0, <1>1, <1>2, <1>3, <2>8 DEF Returned, HasOrigin, HasSnap,
                            HasLoops
    <2>14. Image(b)'  BY <1>0, <1>1, <1>2, <1>3, <2>8 DEF Image, Hashed, Keyed, Ended
    <2>. QED  BY <2>7, <2>10, <2>11, <2>12, <2>13, <2>14 DEF BuildInv, Build
  <1>4. CASE /\ st' = [st EXCEPT ![b] = "failed"] /\ extr' = [extr EXCEPT ![b] = None]
             /\ UNCHANGED <<prog, pc, root, err, name, sqfs, ext4, inj, origin, snap, mounted, loops,
                           vm, initram, chSock, tpmSock, pcr, child, keyDir, keyPub, keySec,
                           out, spoiled, alone>>
    <2>1. chSock' \in Owner /\ tpmSock' \in Owner /\ pcr' \in [Builds -> SUBSET Builds]
          /\ child' \in [Builds -> BOOLEAN] /\ keyDir' \in BOOLEAN
          /\ keyPub' \in Owner /\ keySec' \in Owner
      BY <1>0, <1>4 DEF Types
    <2>2. "failed" \in Steps  BY DEF Steps, RunSteps, FinalSteps, Ended
    <2>. QED
      BY <1>1, <1>4, <2>1, <2>2, MoveKeeps
      DEF HasOrigin, HasLoops, Hashed, Keyed, Ended
  <1>. QED  BY <1>3, <1>4 DEF RunMkfs, Goto, Leave, devVars, runFrame, measVars, keyVars

\* Attaching the loop devices keeps the invariant.
LEMMA RunAttachKeeps ==
    ASSUME BuildInv, NEW b \in Builds, RunAttach(b)
    PROVE  BuildInv'
  <1>. USE BuildAssumption
  <1>0. Types /\ Build(b) /\ Work(b) /\ Devices(b) /\ Returned(b) /\ Image(b)
    BY DEF BuildInv, Build
  <1>1. st[b] = "attach"  BY DEF RunAttach
  <1>2. root[b] \in Paths
    BY <1>0, <1>1 DEF Types, Work, RunSteps, CopySteps, FinalSteps
  <1>3. CASE /\ loops' = [loops EXCEPT ![b] = 2] /\ st' = [st EXCEPT ![b] = "origin"]
             /\ UNCHANGED <<prog, pc, root, err, extr, name, sqfs, ext4, inj, origin, snap, mounted,
                           vm, initram, chSock, tpmSock, pcr, child, keyDir, keyPub, keySec,
                           out, spoiled, alone>>
    <2>1. 2 \in 0..2  BY <1>0, <1>1, <1>2, <1>3 DEF Types
    <2>2. loops' \in [Builds -> 0..2]  BY <1>0, <1>3, <2>1, TableType DEF Types
    <2>3. "origin" \in Steps  BY <1>0, <1>1, <1>2, <1>3 DEF Steps, RunSteps, CopySteps,
                                 FinalSteps, Ended
    <2>4. st' \in [Builds -> Steps]  BY <1>0, <1>3, <2>3, TableType DEF Types
    <2>5. Types'  BY <1>0, <1>3, <2>2, <2>4 DEF Types
    <2>6. loops'[b] = 2 /\ st'[b] = "origin"
      BY <1>0, <1>3, TableEntry DEF Types
    <2>7. \A c \in Builds \ {b} : loops'[c] = loops[c] /\ st'[c] = st[c]
      BY <1>0, <1>3, TableEntry DEF Types
    <2>8. \A c \in Builds \ {b} : Build(c)'
      BY <1>3, <2>7, OtherBuild DEF BuildInv
    <2>9. Work(b)'  BY <1>0, <1>1, <1>2, <1>3, <2>6 DEF Work, Paths, RunSteps, CopySteps,
                       FinalSteps
    <2>10. Devices(b)'  BY <1>0, <1>1, <1>2, <1>3, <2>6 DEF Devices, HasOrigin, HasSnap
    <2>11. Returned(b)'  BY <1>0, <1>1, <1>2, <1>3, <2>6 DEF Returned, HasOrigin, HasSnap,
                            HasLoops
    <2>12. Image(b)'  BY <1>0, <1>1, <1>2, <1>3, <2>6 DEF Image, Hashed, Keyed, Ended
    <2>. QED  BY <2>5, <2>8, <2>9, <2>10, <2>11, <2>12 DEF BuildInv, Build
  <1>4. CASE /\ loops' = [loops EXCEPT ![b] = 0] /\ st' = [st EXCEPT ![b] = "failed"]
             /\ extr' = [extr EXCEPT ![b] = None] /\ spoiled' = spoiled \cup {b}
             /\ UNCHANGED <<prog, pc, root, err, name, sqfs, ext4, inj, origin, snap, mounted, vm,
                           initram, chSock, tpmSock, pcr, child, keyDir, keyPub, keySec, out,
                           alone>>
    <2>1. 0 \in 0..2  BY <1>0, <1>1, <1>2, <1>4 DEF Types
    <2>2. loops' \in [Builds -> 0..2]  BY <1>0, <1>4, <2>1, TableType DEF Types
    <2>3. "failed" \in Steps  BY <1>0, <1>1, <1>2, <1>4 DEF Steps, RunSteps, CopySteps,
                                 FinalSteps, Ended
    <2>4. st' \in [Builds -> Steps]  BY <1>0, <1>4, <2>3, TableType DEF Types
    <2>5. None \in Files \ {Torn}  BY <1>0, <1>1, <1>2, <1>4 DEF Types, Paths, Work, Files,
                                      RunSteps, CopySteps, FinalSteps
    <2>6. extr' \in [Builds -> Files \ {Torn}]  BY <1>0, <1>4, <2>5, TableType DEF Types
    <2>7. spoiled' \in SUBSET Builds  BY <1>0, <1>1, <1>2, <1>4 DEF Types
    <2>8. Types'  BY <1>0, <1>4, <2>2, <2>4, <2>6, <2>7 DEF Types
    <2>9. loops'[b] = 0 /\ st'[b] = "failed" /\ extr'[b] = None
      BY <1>0, <1>4, TableEntry DEF Types
    <2>10. \A c \in Builds \ {b} : loops'[c] = loops[c] /\ st'[c] = st[c] /\ extr'[c] = extr[c]
      BY <1>0, <1>4, TableEntry DEF Types
    <2>11. \A c \in Builds \ {b} : Build(c)'
      BY <1>4, <2>10, OtherBuild DEF BuildInv
    <2>12. Work(b)'  BY <1>0, <1>1, <1>2, <1>4, <2>9 DEF Work, Paths, RunSteps, CopySteps,
                        FinalSteps
    <2>13. Devices(b)'  BY <1>0, <1>1, <1>2, <1>4, <2>9 DEF Devices, HasOrigin, HasSnap
    <2>14. Returned(b)'  BY <1>0, <1>1, <1>2, <1>4, <2>9 DEF Returned, HasOrigin, HasSnap,
                            HasLoops
    <2>15. Image(b)'  BY <1>0, <1>1, <1>2, <1>4, <2>9 DEF Image, Hashed, Keyed, Ended
    <2>. QED  BY <2>8, <2>11, <2>12, <2>13, <2>14, <2>15 DEF BuildInv, Build
  <1>5. CASE /\ loops' = [loops EXCEPT ![b] = 1] /\ st' = [st EXCEPT ![b] = "failed"]
             /\ extr' = [extr EXCEPT ![b] = None] /\ spoiled' = spoiled \cup {b}
             /\ UNCHANGED <<prog, pc, root, err, name, sqfs, ext4, inj, origin, snap, mounted, vm,
                           initram, chSock, tpmSock, pcr, child, keyDir, keyPub, keySec, out,
                           alone>>
    <2>1. 1 \in 0..2  BY <1>0, <1>1, <1>2, <1>5 DEF Types
    <2>2. loops' \in [Builds -> 0..2]  BY <1>0, <1>5, <2>1, TableType DEF Types
    <2>3. "failed" \in Steps  BY <1>0, <1>1, <1>2, <1>5 DEF Steps, RunSteps, CopySteps,
                                 FinalSteps, Ended
    <2>4. st' \in [Builds -> Steps]  BY <1>0, <1>5, <2>3, TableType DEF Types
    <2>5. None \in Files \ {Torn}  BY <1>0, <1>1, <1>2, <1>5 DEF Types, Paths, Work, Files,
                                      RunSteps, CopySteps, FinalSteps
    <2>6. extr' \in [Builds -> Files \ {Torn}]  BY <1>0, <1>5, <2>5, TableType DEF Types
    <2>7. spoiled' \in SUBSET Builds  BY <1>0, <1>1, <1>2, <1>5 DEF Types
    <2>8. Types'  BY <1>0, <1>5, <2>2, <2>4, <2>6, <2>7 DEF Types
    <2>9. loops'[b] = 1 /\ st'[b] = "failed" /\ extr'[b] = None
      BY <1>0, <1>5, TableEntry DEF Types
    <2>10. \A c \in Builds \ {b} : loops'[c] = loops[c] /\ st'[c] = st[c] /\ extr'[c] = extr[c]
      BY <1>0, <1>5, TableEntry DEF Types
    <2>11. \A c \in Builds \ {b} : Build(c)'
      BY <1>5, <2>10, OtherBuild DEF BuildInv
    <2>12. Work(b)'  BY <1>0, <1>1, <1>2, <1>5, <2>9 DEF Work, Paths, RunSteps, CopySteps,
                        FinalSteps
    <2>13. Devices(b)'  BY <1>0, <1>1, <1>2, <1>5, <2>9 DEF Devices, HasOrigin, HasSnap
    <2>14. Returned(b)'  BY <1>0, <1>1, <1>2, <1>5, <2>9 DEF Returned, HasOrigin, HasSnap,
                            HasLoops
    <2>15. Image(b)'  BY <1>0, <1>1, <1>2, <1>5, <2>9 DEF Image, Hashed, Keyed, Ended
    <2>. QED  BY <2>8, <2>11, <2>12, <2>13, <2>14, <2>15 DEF BuildInv, Build
  <1>. QED  BY <1>3, <1>4, <1>5 DEF RunAttach, Goto, Leave, Spoil, runFrame, measVars, keyVars

\* Making the linear device, which bars the other builds keeps the invariant.
LEMMA RunOriginKeeps ==
    ASSUME BuildInv, NEW b \in Builds, RunOrigin(b)
    PROVE  BuildInv'
  <1>. USE BuildAssumption
  <1>0. Types /\ Build(b) /\ Work(b) /\ Devices(b) /\ Returned(b) /\ Image(b)
    BY DEF BuildInv, Build
  <1>1. st[b] = "origin"  BY DEF RunOrigin
  <1>2. root[b] \in Paths
    BY <1>0, <1>1 DEF Types, Work, RunSteps, CopySteps, FinalSteps
  <1>3. CASE /\ origin = None /\ origin' = b /\ st' = [st EXCEPT ![b] = "snap"]
             /\ UNCHANGED <<prog, pc, root, err, extr, name, sqfs, ext4, inj, snap, mounted, loops,
                           vm, initram, chSock, tpmSock, pcr, child, keyDir, keyPub, keySec,
                           out, spoiled, alone>>
    <2>1. origin' \in Owner  BY <1>0, <1>1, <1>2, <1>3 DEF Types, Owner
    <2>2. "snap" \in Steps  BY <1>0, <1>1, <1>2, <1>3 DEF Steps, RunSteps, CopySteps,
                               FinalSteps, Ended
    <2>3. st' \in [Builds -> Steps]  BY <1>0, <1>3, <2>2, TableType DEF Types
    <2>4. Types'  BY <1>0, <1>3, <2>1, <2>3 DEF Types
    <2>5. st'[b] = "snap"
      BY <1>0, <1>3, TableEntry DEF Types
    <2>6. \A c \in Builds \ {b} : st'[c] = st[c]
      BY <1>0, <1>3, TableEntry DEF Types
    <2>7. \A c \in Builds \ {b} : Build(c)'
      BY <1>3, <2>6, OtherBuild DEF BuildInv
    <2>8. Work(b)'  BY <1>0, <1>1, <1>2, <1>3, <2>5 DEF Work, Paths, RunSteps, CopySteps,
                       FinalSteps
    <2>9. Devices(b)'  BY <1>0, <1>1, <1>2, <1>3, <2>5 DEF Devices, HasOrigin, HasSnap
    <2>10. Returned(b)'  BY <1>0, <1>1, <1>2, <1>3, <2>5 DEF Returned, HasOrigin, HasSnap,
                            HasLoops
    <2>11. Image(b)'  BY <1>0, <1>1, <1>2, <1>3, <2>5 DEF Image, Hashed, Keyed, Ended
    <2>. QED  BY <2>4, <2>7, <2>8, <2>9, <2>10, <2>11 DEF BuildInv, Build
  <1>4. CASE /\ st' = [st EXCEPT ![b] = "failed"] /\ extr' = [extr EXCEPT ![b] = None]
             /\ spoiled' = spoiled \cup {b}
             /\ UNCHANGED <<prog, pc, root, err, name, sqfs, ext4, inj, origin, snap, mounted, loops,
                           vm, initram, chSock, tpmSock, pcr, child, keyDir, keyPub, keySec,
                           out, alone>>
    <2>1. "failed" \in Steps  BY <1>0, <1>1, <1>2, <1>4 DEF Steps, RunSteps, CopySteps,
                                 FinalSteps, Ended
    <2>2. st' \in [Builds -> Steps]  BY <1>0, <1>4, <2>1, TableType DEF Types
    <2>3. None \in Files \ {Torn}  BY <1>0, <1>1, <1>2, <1>4 DEF Types, Paths, Work, Files,
                                      RunSteps, CopySteps, FinalSteps
    <2>4. extr' \in [Builds -> Files \ {Torn}]  BY <1>0, <1>4, <2>3, TableType DEF Types
    <2>5. spoiled' \in SUBSET Builds  BY <1>0, <1>1, <1>2, <1>4 DEF Types
    <2>6. Types'  BY <1>0, <1>4, <2>2, <2>4, <2>5 DEF Types
    <2>7. st'[b] = "failed" /\ extr'[b] = None
      BY <1>0, <1>4, TableEntry DEF Types
    <2>8. \A c \in Builds \ {b} : st'[c] = st[c] /\ extr'[c] = extr[c]
      BY <1>0, <1>4, TableEntry DEF Types
    <2>9. \A c \in Builds \ {b} : Build(c)'
      BY <1>4, <2>8, OtherBuild DEF BuildInv
    <2>10. Work(b)'  BY <1>0, <1>1, <1>2, <1>4, <2>7 DEF Work, Paths, RunSteps, CopySteps,
                        FinalSteps
    <2>11. Devices(b)'  BY <1>0, <1>1, <1>2, <1>4, <2>7 DEF Devices, HasOrigin, HasSnap
    <2>12. Returned(b)'  BY <1>0, <1>1, <1>2, <1>4, <2>7 DEF Returned, HasOrigin, HasSnap,
                            HasLoops
    <2>13. Image(b)'  BY <1>0, <1>1, <1>2, <1>4, <2>7 DEF Image, Hashed, Keyed, Ended
    <2>. QED  BY <2>6, <2>9, <2>10, <2>11, <2>12, <2>13 DEF BuildInv, Build
  <1>5. CASE /\ origin = None /\ origin' = b /\ st' = [st EXCEPT ![b] = "failed"]
             /\ extr' = [extr EXCEPT ![b] = None] /\ spoiled' = spoiled \cup {b}
             /\ UNCHANGED <<prog, pc, root, err, name, sqfs, ext4, inj, snap, mounted, loops, vm,
                           initram, chSock, tpmSock, pcr, child, keyDir, keyPub, keySec, out,
                           alone>>
    <2>1. origin' \in Owner  BY <1>0, <1>1, <1>2, <1>5 DEF Types, Owner
    <2>2. "failed" \in Steps  BY <1>0, <1>1, <1>2, <1>5 DEF Steps, RunSteps, CopySteps,
                                 FinalSteps, Ended
    <2>3. st' \in [Builds -> Steps]  BY <1>0, <1>5, <2>2, TableType DEF Types
    <2>4. None \in Files \ {Torn}  BY <1>0, <1>1, <1>2, <1>5 DEF Types, Paths, Work, Files,
                                      RunSteps, CopySteps, FinalSteps
    <2>5. extr' \in [Builds -> Files \ {Torn}]  BY <1>0, <1>5, <2>4, TableType DEF Types
    <2>6. spoiled' \in SUBSET Builds  BY <1>0, <1>1, <1>2, <1>5 DEF Types
    <2>7. Types'  BY <1>0, <1>5, <2>1, <2>3, <2>5, <2>6 DEF Types
    <2>8. st'[b] = "failed" /\ extr'[b] = None
      BY <1>0, <1>5, TableEntry DEF Types
    <2>9. \A c \in Builds \ {b} : st'[c] = st[c] /\ extr'[c] = extr[c]
      BY <1>0, <1>5, TableEntry DEF Types
    <2>10. \A c \in Builds \ {b} : Build(c)'
      BY <1>5, <2>9, OtherBuild DEF BuildInv
    <2>11. Work(b)'  BY <1>0, <1>1, <1>2, <1>5, <2>8 DEF Work, Paths, RunSteps, CopySteps,
                        FinalSteps
    <2>12. Devices(b)'  BY <1>0, <1>1, <1>2, <1>5, <2>8 DEF Devices, HasOrigin, HasSnap
    <2>13. Returned(b)'  BY <1>0, <1>1, <1>2, <1>5, <2>8 DEF Returned, HasOrigin, HasSnap,
                            HasLoops
    <2>14. Image(b)'  BY <1>0, <1>1, <1>2, <1>5, <2>8 DEF Image, Hashed, Keyed, Ended
    <2>. QED  BY <2>7, <2>10, <2>11, <2>12, <2>13, <2>14 DEF BuildInv, Build
  <1>. QED  BY <1>3, <1>4, <1>5 DEF RunOrigin, Goto, Leave, Spoil, runFrame, measVars, keyVars

\* Making the snapshot keeps the invariant.
LEMMA RunSnapKeeps ==
    ASSUME BuildInv, NEW b \in Builds, RunSnap(b)
    PROVE  BuildInv'
  <1>. USE BuildAssumption
  <1>0. Types /\ Build(b) /\ Work(b) /\ Devices(b) /\ Returned(b) /\ Image(b)
    BY DEF BuildInv, Build
  <1>1. st[b] = "snap"  BY DEF RunSnap
  <1>2. root[b] \in Paths
    BY <1>0, <1>1 DEF Types, Work, RunSteps, CopySteps, FinalSteps
  <1>3. CASE /\ snap = None /\ snap' = b /\ st' = [st EXCEPT ![b] = "initram"]
             /\ UNCHANGED <<prog, pc, root, err, extr, name, sqfs, ext4, inj, origin, mounted, loops,
                           vm, initram, chSock, tpmSock, pcr, child, keyDir, keyPub, keySec,
                           out, spoiled, alone>>
    <2>1. snap' \in Owner  BY <1>0, <1>1, <1>2, <1>3 DEF Types, Owner
    <2>2. "initram" \in Steps  BY <1>0, <1>1, <1>2, <1>3 DEF Steps, RunSteps, CopySteps,
                                  FinalSteps, Ended
    <2>3. st' \in [Builds -> Steps]  BY <1>0, <1>3, <2>2, TableType DEF Types
    <2>4. Types'  BY <1>0, <1>3, <2>1, <2>3 DEF Types
    <2>5. st'[b] = "initram"
      BY <1>0, <1>3, TableEntry DEF Types
    <2>6. \A c \in Builds \ {b} : st'[c] = st[c]
      BY <1>0, <1>3, TableEntry DEF Types
    <2>7. \A c \in Builds \ {b} : Build(c)'
      BY <1>3, <2>6, OtherBuild DEF BuildInv
    <2>8. Work(b)'  BY <1>0, <1>1, <1>2, <1>3, <2>5 DEF Work, Paths, RunSteps, CopySteps,
                       FinalSteps
    <2>9. Devices(b)'  BY <1>0, <1>1, <1>2, <1>3, <2>5 DEF Devices, HasOrigin, HasSnap
    <2>10. Returned(b)'  BY <1>0, <1>1, <1>2, <1>3, <2>5 DEF Returned, HasOrigin, HasSnap,
                            HasLoops
    <2>11. Image(b)'  BY <1>0, <1>1, <1>2, <1>3, <2>5 DEF Image, Hashed, Keyed, Ended
    <2>. QED  BY <2>4, <2>7, <2>8, <2>9, <2>10, <2>11 DEF BuildInv, Build
  <1>4. CASE /\ st' = [st EXCEPT ![b] = "failed"] /\ extr' = [extr EXCEPT ![b] = None]
             /\ spoiled' = spoiled \cup {b}
             /\ UNCHANGED <<prog, pc, root, err, name, sqfs, ext4, inj, origin, snap, mounted, loops,
                           vm, initram, chSock, tpmSock, pcr, child, keyDir, keyPub, keySec,
                           out, alone>>
    <2>1. "failed" \in Steps  BY <1>0, <1>1, <1>2, <1>4 DEF Steps, RunSteps, CopySteps,
                                 FinalSteps, Ended
    <2>2. st' \in [Builds -> Steps]  BY <1>0, <1>4, <2>1, TableType DEF Types
    <2>3. None \in Files \ {Torn}  BY <1>0, <1>1, <1>2, <1>4 DEF Types, Paths, Work, Files,
                                      RunSteps, CopySteps, FinalSteps
    <2>4. extr' \in [Builds -> Files \ {Torn}]  BY <1>0, <1>4, <2>3, TableType DEF Types
    <2>5. spoiled' \in SUBSET Builds  BY <1>0, <1>1, <1>2, <1>4 DEF Types
    <2>6. Types'  BY <1>0, <1>4, <2>2, <2>4, <2>5 DEF Types
    <2>7. st'[b] = "failed" /\ extr'[b] = None
      BY <1>0, <1>4, TableEntry DEF Types
    <2>8. \A c \in Builds \ {b} : st'[c] = st[c] /\ extr'[c] = extr[c]
      BY <1>0, <1>4, TableEntry DEF Types
    <2>9. \A c \in Builds \ {b} : Build(c)'
      BY <1>4, <2>8, OtherBuild DEF BuildInv
    <2>10. Work(b)'  BY <1>0, <1>1, <1>2, <1>4, <2>7 DEF Work, Paths, RunSteps, CopySteps,
                        FinalSteps
    <2>11. Devices(b)'  BY <1>0, <1>1, <1>2, <1>4, <2>7 DEF Devices, HasOrigin, HasSnap
    <2>12. Returned(b)'  BY <1>0, <1>1, <1>2, <1>4, <2>7 DEF Returned, HasOrigin, HasSnap,
                            HasLoops
    <2>13. Image(b)'  BY <1>0, <1>1, <1>2, <1>4, <2>7 DEF Image, Hashed, Keyed, Ended
    <2>. QED  BY <2>6, <2>9, <2>10, <2>11, <2>12, <2>13 DEF BuildInv, Build
  <1>5. CASE /\ snap = None /\ snap' = b /\ st' = [st EXCEPT ![b] = "failed"]
             /\ extr' = [extr EXCEPT ![b] = None] /\ spoiled' = spoiled \cup {b}
             /\ UNCHANGED <<prog, pc, root, err, name, sqfs, ext4, inj, origin, mounted, loops, vm,
                           initram, chSock, tpmSock, pcr, child, keyDir, keyPub, keySec, out,
                           alone>>
    <2>1. snap' \in Owner  BY <1>0, <1>1, <1>2, <1>5 DEF Types, Owner
    <2>2. "failed" \in Steps  BY <1>0, <1>1, <1>2, <1>5 DEF Steps, RunSteps, CopySteps,
                                 FinalSteps, Ended
    <2>3. st' \in [Builds -> Steps]  BY <1>0, <1>5, <2>2, TableType DEF Types
    <2>4. None \in Files \ {Torn}  BY <1>0, <1>1, <1>2, <1>5 DEF Types, Paths, Work, Files,
                                      RunSteps, CopySteps, FinalSteps
    <2>5. extr' \in [Builds -> Files \ {Torn}]  BY <1>0, <1>5, <2>4, TableType DEF Types
    <2>6. spoiled' \in SUBSET Builds  BY <1>0, <1>1, <1>2, <1>5 DEF Types
    <2>7. Types'  BY <1>0, <1>5, <2>1, <2>3, <2>5, <2>6 DEF Types
    <2>8. st'[b] = "failed" /\ extr'[b] = None
      BY <1>0, <1>5, TableEntry DEF Types
    <2>9. \A c \in Builds \ {b} : st'[c] = st[c] /\ extr'[c] = extr[c]
      BY <1>0, <1>5, TableEntry DEF Types
    <2>10. \A c \in Builds \ {b} : Build(c)'
      BY <1>5, <2>9, OtherBuild DEF BuildInv
    <2>11. Work(b)'  BY <1>0, <1>1, <1>2, <1>5, <2>8 DEF Work, Paths, RunSteps, CopySteps,
                        FinalSteps
    <2>12. Devices(b)'  BY <1>0, <1>1, <1>2, <1>5, <2>8 DEF Devices, HasOrigin, HasSnap
    <2>13. Returned(b)'  BY <1>0, <1>1, <1>2, <1>5, <2>8 DEF Returned, HasOrigin, HasSnap,
                            HasLoops
    <2>14. Image(b)'  BY <1>0, <1>1, <1>2, <1>5, <2>8 DEF Image, Hashed, Keyed, Ended
    <2>. QED  BY <2>7, <2>10, <2>11, <2>12, <2>13, <2>14 DEF BuildInv, Build
  <1>. QED  BY <1>3, <1>4, <1>5 DEF RunSnap, Goto, Leave, Spoil, runFrame, measVars, keyVars

\* Writing the initramfs, under the cover of the device keeps the invariant.
LEMMA RunInitramfsKeeps ==
    ASSUME BuildInv, NEW b \in Builds, RunInitramfs(b)
    PROVE  BuildInv'
  <1>. USE BuildAssumption
  <1>0. Types /\ Build(b) /\ Work(b) /\ Devices(b) /\ Returned(b) /\ Image(b)
    BY DEF BuildInv, Build
  <1>1. st[b] = "initram"  BY DEF RunInitramfs
  <1>2. root[b] \in Paths
    BY <1>0, <1>1 DEF Types, Work, RunSteps, CopySteps, FinalSteps
  <1>3. CASE /\ initram' = <<b, pc[b]>> /\ st' = [st EXCEPT ![b] = "spawn"]
             /\ UNCHANGED <<prog, pc, root, err, extr, name, sqfs, ext4, inj, origin, snap, mounted,
                           loops, vm, chSock, tpmSock, pcr, child, keyDir, keyPub, keySec,
                           out, spoiled, alone>>
    <2>1. initram' \in Copies \cup {None}  BY <1>0, <1>1, <1>2, <1>3 DEF Types, Copies
    <2>2. "spawn" \in Steps  BY <1>0, <1>1, <1>2, <1>3 DEF Steps, RunSteps, CopySteps,
                                FinalSteps, Ended
    <2>3. st' \in [Builds -> Steps]  BY <1>0, <1>3, <2>2, TableType DEF Types
    <2>4. Types'  BY <1>0, <1>3, <2>1, <2>3 DEF Types
    <2>5. st'[b] = "spawn"
      BY <1>0, <1>3, TableEntry DEF Types
    <2>6. \A c \in Builds \ {b} : st'[c] = st[c]
      BY <1>0, <1>3, TableEntry DEF Types
    <2>7. \A c \in Builds \ {b} : st[c] # "spawn"
      BY <1>0, <1>1 DEF BuildInv, Build, Devices, HasSnap
    <2>8. \A c \in Builds \ {b} : Build(c)'
      BY <1>3, <2>6, <2>7, OtherBuild DEF BuildInv
    <2>9. Work(b)'  BY <1>0, <1>1, <1>2, <1>3, <2>5, <2>7 DEF Work, Paths, RunSteps,
                       CopySteps, FinalSteps
    <2>10. Devices(b)'  BY <1>0, <1>1, <1>2, <1>3, <2>5, <2>7 DEF Devices, HasOrigin, HasSnap
    <2>11. Returned(b)'  BY <1>0, <1>1, <1>2, <1>3, <2>5, <2>7
                            DEF Returned, HasOrigin, HasSnap, HasLoops
    <2>12. Image(b)'  BY <1>0, <1>1, <1>2, <1>3, <2>5 DEF Image, Hashed, Keyed, Ended
    <2>. QED  BY <2>4, <2>8, <2>9, <2>10, <2>11, <2>12 DEF BuildInv, Build
  <1>4. CASE /\ st' = [st EXCEPT ![b] = "detach"] /\ err' = [err EXCEPT ![b] = TRUE]
             /\ UNCHANGED <<prog, pc, root, extr, name, sqfs, ext4, inj, origin, snap, mounted,
                           loops, vm, initram, chSock, tpmSock, pcr, child, keyDir, keyPub,
                           keySec, out, spoiled, alone>>
    <2>1. "detach" \in Steps  BY <1>0, <1>1, <1>2, <1>4 DEF Steps, RunSteps, CopySteps,
                                 FinalSteps, Ended
    <2>2. st' \in [Builds -> Steps]  BY <1>0, <1>4, <2>1, TableType DEF Types
    <2>3. TRUE \in BOOLEAN  BY <1>0, <1>1, <1>2, <1>4 DEF Types
    <2>4. err' \in [Builds -> BOOLEAN]  BY <1>0, <1>4, <2>3, TableType DEF Types
    <2>5. Types'  BY <1>0, <1>4, <2>2, <2>4 DEF Types
    <2>6. st'[b] = "detach" /\ err'[b] = TRUE
      BY <1>0, <1>4, TableEntry DEF Types
    <2>7. \A c \in Builds \ {b} : st'[c] = st[c] /\ err'[c] = err[c]
      BY <1>0, <1>4, TableEntry DEF Types
    <2>8. \A c \in Builds \ {b} : Build(c)'
      BY <1>4, <2>7, OtherBuild DEF BuildInv
    <2>9. Work(b)'  BY <1>0, <1>1, <1>2, <1>4, <2>6 DEF Work, Paths, RunSteps, CopySteps,
                       FinalSteps
    <2>10. Devices(b)'  BY <1>0, <1>1, <1>2, <1>4, <2>6 DEF Devices, HasOrigin, HasSnap
    <2>11. Returned(b)'  BY <1>0, <1>1, <1>2, <1>4, <2>6 DEF Returned, HasOrigin, HasSnap,
                            HasLoops
    <2>12. Image(b)'  BY <1>0, <1>1, <1>2, <1>4, <2>6 DEF Image, Hashed, Keyed, Ended
    <2>. QED  BY <2>5, <2>8, <2>9, <2>10, <2>11, <2>12 DEF BuildInv, Build
  <1>5. CASE /\ initram' = None /\ st' = [st EXCEPT ![b] = "detach"]
             /\ err' = [err EXCEPT ![b] = TRUE]
             /\ UNCHANGED <<prog, pc, root, extr, name, sqfs, ext4, inj, origin, snap, mounted,
                           loops, vm, chSock, tpmSock, pcr, child, keyDir, keyPub, keySec,
                           out, spoiled, alone>>
    <2>1. initram' \in Copies \cup {None}  BY <1>0, <1>1, <1>2, <1>5 DEF Types, Copies
    <2>2. "detach" \in Steps  BY <1>0, <1>1, <1>2, <1>5 DEF Steps, RunSteps, CopySteps,
                                 FinalSteps, Ended
    <2>3. st' \in [Builds -> Steps]  BY <1>0, <1>5, <2>2, TableType DEF Types
    <2>4. TRUE \in BOOLEAN  BY <1>0, <1>1, <1>2, <1>5 DEF Types
    <2>5. err' \in [Builds -> BOOLEAN]  BY <1>0, <1>5, <2>4, TableType DEF Types
    <2>6. Types'  BY <1>0, <1>5, <2>1, <2>3, <2>5 DEF Types
    <2>7. st'[b] = "detach" /\ err'[b] = TRUE
      BY <1>0, <1>5, TableEntry DEF Types
    <2>8. \A c \in Builds \ {b} : st'[c] = st[c] /\ err'[c] = err[c]
      BY <1>0, <1>5, TableEntry DEF Types
    <2>9. \A c \in Builds \ {b} : st[c] # "spawn"
      BY <1>0, <1>1 DEF BuildInv, Build, Devices, HasSnap
    <2>10. \A c \in Builds \ {b} : Build(c)'
      BY <1>5, <2>8, <2>9, OtherBuild DEF BuildInv
    <2>11. Work(b)'  BY <1>0, <1>1, <1>2, <1>5, <2>7, <2>9 DEF Work, Paths, RunSteps,
                        CopySteps, FinalSteps
    <2>12. Devices(b)'  BY <1>0, <1>1, <1>2, <1>5, <2>7, <2>9 DEF Devices, HasOrigin, HasSnap
    <2>13. Returned(b)'  BY <1>0, <1>1, <1>2, <1>5, <2>7, <2>9
                            DEF Returned, HasOrigin, HasSnap, HasLoops
    <2>14. Image(b)'  BY <1>0, <1>1, <1>2, <1>5, <2>7 DEF Image, Hashed, Keyed, Ended
    <2>. QED  BY <2>6, <2>10, <2>11, <2>12, <2>13, <2>14 DEF BuildInv, Build
  <1>. QED  BY <1>3, <1>4, <1>5 DEF RunInitramfs, Goto, Unwind, runFrame, measVars, keyVars

\* Starting the build VM keeps the invariant.
LEMMA RunSpawnKeeps ==
    ASSUME BuildInv, NEW b \in Builds, RunSpawn(b)
    PROVE  BuildInv'
  <1>. USE BuildAssumption
  <1>0. Types /\ Build(b) /\ Work(b) /\ Devices(b) /\ Returned(b) /\ Image(b)
    BY DEF BuildInv, Build
  <1>1. st[b] = "spawn"  BY DEF RunSpawn
  <1>2. root[b] \in Paths
    BY <1>0, <1>1 DEF Types, Work, RunSteps, CopySteps, FinalSteps
  <1>3. CASE /\ vm' = [vm EXCEPT ![b] = [cmd |-> initram, dev |-> snap, up |-> TRUE]]
             /\ st' = [st EXCEPT ![b] = "vm"]
             /\ UNCHANGED <<prog, pc, root, err, extr, name, sqfs, ext4, inj, origin, snap, mounted,
                           loops, initram, chSock, tpmSock, pcr, child, keyDir, keyPub,
                           keySec, out, spoiled, alone>>
    <2>1. [cmd |-> initram, dev |-> snap, up |-> TRUE] \in BuildVm \cup {None}
      BY <1>0, <1>1, <1>2, <1>3 DEF Types, Owner, BuildVm, Copies
    <2>2. vm' \in [Builds -> BuildVm \cup {None}]  BY <1>0, <1>3, <2>1, TableType DEF Types
    <2>3. "vm" \in Steps  BY <1>0, <1>1, <1>2, <1>3 DEF Steps, RunSteps, CopySteps,
                             FinalSteps, Ended
    <2>4. st' \in [Builds -> Steps]  BY <1>0, <1>3, <2>3, TableType DEF Types
    <2>5. Types'  BY <1>0, <1>3, <2>2, <2>4 DEF Types
    <2>6. vm'[b] = [cmd |-> initram, dev |-> snap, up |-> TRUE] /\ st'[b] = "vm"
      BY <1>0, <1>3, TableEntry DEF Types
    <2>7. \A c \in Builds \ {b} : vm'[c] = vm[c] /\ st'[c] = st[c]
      BY <1>0, <1>3, TableEntry DEF Types
    <2>8. \A c \in Builds \ {b} : Build(c)'
      BY <1>3, <2>7, OtherBuild DEF BuildInv
    <2>9. Work(b)'  BY <1>0, <1>1, <1>2, <1>3, <2>6 DEF Work, Paths, RunSteps, CopySteps,
                       FinalSteps
    <2>10. Devices(b)'  BY <1>0, <1>1, <1>2, <1>3, <2>6 DEF Devices, HasOrigin, HasSnap,
                           Types, BuildVm
    <2>11. Returned(b)'  BY <1>0, <1>1, <1>2, <1>3, <2>6 DEF Returned, HasOrigin, HasSnap,
                            HasLoops
    <2>12. Image(b)'  BY <1>0, <1>1, <1>2, <1>3, <2>6 DEF Image, Hashed, Keyed, Ended
    <2>. QED  BY <2>5, <2>8, <2>9, <2>10, <2>11, <2>12 DEF BuildInv, Build
  <1>4. CASE /\ st' = [st EXCEPT ![b] = "detach"] /\ err' = [err EXCEPT ![b] = TRUE]
             /\ UNCHANGED <<prog, pc, root, extr, name, sqfs, ext4, inj, origin, snap, mounted,
                           loops, vm, initram, chSock, tpmSock, pcr, child, keyDir, keyPub,
                           keySec, out, spoiled, alone>>
    <2>1. "detach" \in Steps  BY <1>0, <1>1, <1>2, <1>4 DEF Steps, RunSteps, CopySteps,
                                 FinalSteps, Ended
    <2>2. st' \in [Builds -> Steps]  BY <1>0, <1>4, <2>1, TableType DEF Types
    <2>3. TRUE \in BOOLEAN  BY <1>0, <1>1, <1>2, <1>4 DEF Types
    <2>4. err' \in [Builds -> BOOLEAN]  BY <1>0, <1>4, <2>3, TableType DEF Types
    <2>5. Types'  BY <1>0, <1>4, <2>2, <2>4 DEF Types
    <2>6. st'[b] = "detach" /\ err'[b] = TRUE
      BY <1>0, <1>4, TableEntry DEF Types
    <2>7. \A c \in Builds \ {b} : st'[c] = st[c] /\ err'[c] = err[c]
      BY <1>0, <1>4, TableEntry DEF Types
    <2>8. \A c \in Builds \ {b} : Build(c)'
      BY <1>4, <2>7, OtherBuild DEF BuildInv
    <2>9. Work(b)'  BY <1>0, <1>1, <1>2, <1>4, <2>6 DEF Work, Paths, RunSteps, CopySteps,
                       FinalSteps
    <2>10. Devices(b)'  BY <1>0, <1>1, <1>2, <1>4, <2>6 DEF Devices, HasOrigin, HasSnap
    <2>11. Returned(b)'  BY <1>0, <1>1, <1>2, <1>4, <2>6 DEF Returned, HasOrigin, HasSnap,
                            HasLoops
    <2>12. Image(b)'  BY <1>0, <1>1, <1>2, <1>4, <2>6 DEF Image, Hashed, Keyed, Ended
    <2>. QED  BY <2>5, <2>8, <2>9, <2>10, <2>11, <2>12 DEF BuildInv, Build
  <1>. QED  BY <1>3, <1>4 DEF RunSpawn, Goto, Unwind, runFrame, measVars, keyVars

\* The end of the build VM keeps the invariant.
LEMMA RunWaitKeeps ==
    ASSUME BuildInv, NEW b \in Builds, RunWait(b)
    PROVE  BuildInv'
  <1>. USE BuildAssumption
  <1>0. Types /\ Build(b) /\ Work(b) /\ Devices(b) /\ Returned(b) /\ Image(b)
    BY DEF BuildInv, Build
  <1>1. st[b] = "vm"  BY DEF RunWait
  <1>2. root[b] \in Paths
    BY <1>0, <1>1 DEF Types, Work, RunSteps, CopySteps, FinalSteps
  <1>3. CASE /\ st' = [st EXCEPT ![b] = "squash"]
             /\ UNCHANGED <<prog, pc, root, err, extr, name, sqfs, ext4, inj, origin, snap, mounted,
                           loops, vm, initram, chSock, tpmSock, pcr, child, keyDir, keyPub,
                           keySec, out, spoiled, alone>>
    <2>1. "squash" \in Steps  BY <1>0, <1>1, <1>2, <1>3 DEF Steps, RunSteps, CopySteps,
                                 FinalSteps, Ended
    <2>2. st' \in [Builds -> Steps]  BY <1>0, <1>3, <2>1, TableType DEF Types
    <2>3. Types'  BY <1>0, <1>3, <2>2 DEF Types
    <2>4. st'[b] = "squash"
      BY <1>0, <1>3, TableEntry DEF Types
    <2>5. \A c \in Builds \ {b} : st'[c] = st[c]
      BY <1>0, <1>3, TableEntry DEF Types
    <2>6. \A c \in Builds \ {b} : Build(c)'
      BY <1>3, <2>5, OtherBuild DEF BuildInv
    <2>7. Work(b)'  BY <1>0, <1>1, <1>2, <1>3, <2>4 DEF Work, Paths, RunSteps, CopySteps,
                       FinalSteps
    <2>8. Devices(b)'  BY <1>0, <1>1, <1>2, <1>3, <2>4 DEF Devices, HasOrigin, HasSnap
    <2>9. Returned(b)'  BY <1>0, <1>1, <1>2, <1>3, <2>4 DEF Returned, HasOrigin, HasSnap,
                           HasLoops
    <2>10. Image(b)'  BY <1>0, <1>1, <1>2, <1>3, <2>4 DEF Image, Hashed, Keyed, Ended
    <2>. QED  BY <2>3, <2>6, <2>7, <2>8, <2>9, <2>10 DEF BuildInv, Build
  <1>4. CASE /\ st' = [st EXCEPT ![b] = "detach"] /\ err' = [err EXCEPT ![b] = TRUE]
             /\ UNCHANGED <<prog, pc, root, extr, name, sqfs, ext4, inj, origin, snap, mounted,
                           loops, vm, initram, chSock, tpmSock, pcr, child, keyDir, keyPub,
                           keySec, out, spoiled, alone>>
    <2>1. "detach" \in Steps  BY <1>0, <1>1, <1>2, <1>4 DEF Steps, RunSteps, CopySteps,
                                 FinalSteps, Ended
    <2>2. st' \in [Builds -> Steps]  BY <1>0, <1>4, <2>1, TableType DEF Types
    <2>3. TRUE \in BOOLEAN  BY <1>0, <1>1, <1>2, <1>4 DEF Types
    <2>4. err' \in [Builds -> BOOLEAN]  BY <1>0, <1>4, <2>3, TableType DEF Types
    <2>5. Types'  BY <1>0, <1>4, <2>2, <2>4 DEF Types
    <2>6. st'[b] = "detach" /\ err'[b] = TRUE
      BY <1>0, <1>4, TableEntry DEF Types
    <2>7. \A c \in Builds \ {b} : st'[c] = st[c] /\ err'[c] = err[c]
      BY <1>0, <1>4, TableEntry DEF Types
    <2>8. \A c \in Builds \ {b} : Build(c)'
      BY <1>4, <2>7, OtherBuild DEF BuildInv
    <2>9. Work(b)'  BY <1>0, <1>1, <1>2, <1>4, <2>6 DEF Work, Paths, RunSteps, CopySteps,
                       FinalSteps
    <2>10. Devices(b)'  BY <1>0, <1>1, <1>2, <1>4, <2>6 DEF Devices, HasOrigin, HasSnap
    <2>11. Returned(b)'  BY <1>0, <1>1, <1>2, <1>4, <2>6 DEF Returned, HasOrigin, HasSnap,
                            HasLoops
    <2>12. Image(b)'  BY <1>0, <1>1, <1>2, <1>4, <2>6 DEF Image, Hashed, Keyed, Ended
    <2>. QED  BY <2>5, <2>8, <2>9, <2>10, <2>11, <2>12 DEF BuildInv, Build
  <1>. QED  BY <1>3, <1>4 DEF RunWait, Goto, Unwind, devVars, runFrame, measVars, keyVars

\* The time limit of the wait keeps the invariant.
LEMMA RunTimeoutKeeps ==
    ASSUME BuildInv, NEW b \in Builds, RunTimeout(b)
    PROVE  BuildInv'
  <1>. USE BuildAssumption
  <1>0. Types /\ Build(b) /\ Work(b) /\ Devices(b) /\ Returned(b) /\ Image(b)
    BY DEF BuildInv, Build
  <1>1. st[b] = "vm"  BY DEF RunTimeout
  <1>2. root[b] \in Paths
    BY <1>0, <1>1 DEF Types, Work, RunSteps, CopySteps, FinalSteps
  <1>3. CASE /\ st' = [st EXCEPT ![b] = "detach"] /\ err' = [err EXCEPT ![b] = TRUE]
             /\ spoiled' = spoiled \cup {b}
             /\ UNCHANGED <<prog, pc, root, extr, name, sqfs, ext4, inj, origin, snap, mounted,
                           loops, vm, initram, chSock, tpmSock, pcr, child, keyDir, keyPub,
                           keySec, out, alone>>
    <2>1. "detach" \in Steps  BY <1>0, <1>1, <1>2, <1>3 DEF Steps, RunSteps, CopySteps,
                                 FinalSteps, Ended
    <2>2. st' \in [Builds -> Steps]  BY <1>0, <1>3, <2>1, TableType DEF Types
    <2>3. TRUE \in BOOLEAN  BY <1>0, <1>1, <1>2, <1>3 DEF Types
    <2>4. err' \in [Builds -> BOOLEAN]  BY <1>0, <1>3, <2>3, TableType DEF Types
    <2>5. spoiled' \in SUBSET Builds  BY <1>0, <1>1, <1>2, <1>3 DEF Types
    <2>6. Types'  BY <1>0, <1>3, <2>2, <2>4, <2>5 DEF Types
    <2>7. st'[b] = "detach" /\ err'[b] = TRUE
      BY <1>0, <1>3, TableEntry DEF Types
    <2>8. \A c \in Builds \ {b} : st'[c] = st[c] /\ err'[c] = err[c]
      BY <1>0, <1>3, TableEntry DEF Types
    <2>9. \A c \in Builds \ {b} : Build(c)'
      BY <1>3, <2>8, OtherBuild DEF BuildInv
    <2>10. Work(b)'  BY <1>0, <1>1, <1>2, <1>3, <2>7 DEF Work, Paths, RunSteps, CopySteps,
                        FinalSteps
    <2>11. Devices(b)'  BY <1>0, <1>1, <1>2, <1>3, <2>7 DEF Devices, HasOrigin, HasSnap
    <2>12. Returned(b)'  BY <1>0, <1>1, <1>2, <1>3, <2>7 DEF Returned, HasOrigin, HasSnap,
                            HasLoops
    <2>13. Image(b)'  BY <1>0, <1>1, <1>2, <1>3, <2>7 DEF Image, Hashed, Keyed, Ended
    <2>. QED  BY <2>6, <2>9, <2>10, <2>11, <2>12, <2>13 DEF BuildInv, Build
  <1>. QED  BY <1>3 DEF RunTimeout, Unwind, Goto, Spoil, devVars, runFrame, measVars, keyVars

\* Packing the device into a layer keeps the invariant.
LEMMA RunSquashKeeps ==
    ASSUME BuildInv, NEW b \in Builds, RunSquash(b)
    PROVE  BuildInv'
  <1>. USE BuildAssumption
  <1>0. Types /\ Build(b) /\ Work(b) /\ Devices(b) /\ Returned(b) /\ Image(b)
    BY DEF BuildInv, Build
  <1>1. st[b] = "squash"  BY DEF RunSquash
  <1>2. root[b] \in Paths
    BY <1>0, <1>1 DEF Types, Work, RunSteps, CopySteps, FinalSteps
  <1>3. CASE /\ DeviceContent \notin {None, Torn}
             /\ extr' = [extr EXCEPT ![b] = DeviceContent]
             /\ st' = [st EXCEPT ![b] = "detach"]
             /\ UNCHANGED <<prog, pc, root, err, name, sqfs, ext4, inj, origin, snap, mounted, loops,
                           vm, initram, chSock, tpmSock, pcr, child, keyDir, keyPub, keySec,
                           out, spoiled, alone>>
    <2>1. DeviceContent \in Content
      <3>1. snap = b  BY <1>0, <1>1 DEF Devices, HasSnap
      <3>2. snap # None  BY <3>1
      <3>3. DeviceContent = ext4[root[b]]  BY <3>1, <3>2 DEF DeviceContent
      <3>4. ext4[root[b]] \in Files  BY <1>0, <1>2 DEF Types
      <3>. QED  BY <1>3, <3>3, <3>4 DEF Files
    <2>2. DeviceContent \in Files \ {Torn}  BY <1>3, <2>1 DEF Files
    <2>3. extr' \in [Builds -> Files \ {Torn}]  BY <1>0, <1>3, <2>2, TableType DEF Types
    <2>4. "detach" \in Steps  BY <1>0, <1>1, <1>2, <1>3 DEF Steps, RunSteps, CopySteps,
                                 FinalSteps, Ended
    <2>5. st' \in [Builds -> Steps]  BY <1>0, <1>3, <2>4, TableType DEF Types
    <2>6. Types'  BY <1>0, <1>3, <2>3, <2>5 DEF Types
    <2>7. extr'[b] = DeviceContent /\ st'[b] = "detach"
      BY <1>0, <1>3, TableEntry DEF Types
    <2>8. \A c \in Builds \ {b} : extr'[c] = extr[c] /\ st'[c] = st[c]
      BY <1>0, <1>3, TableEntry DEF Types
    <2>9. \A c \in Builds \ {b} : Build(c)'
      BY <1>3, <2>8, OtherBuild DEF BuildInv
    <2>10. Work(b)'  BY <1>0, <1>1, <1>2, <1>3, <2>7, <2>1 DEF Work, Paths, RunSteps,
                        CopySteps, FinalSteps
    <2>11. Devices(b)'  BY <1>0, <1>1, <1>2, <1>3, <2>7, <2>1 DEF Devices, HasOrigin, HasSnap
    <2>12. Returned(b)'  BY <1>0, <1>1, <1>2, <1>3, <2>7 DEF Returned, HasOrigin, HasSnap,
                            HasLoops
    <2>13. Image(b)'  BY <1>0, <1>1, <1>2, <1>3, <2>7 DEF Image, Hashed, Keyed, Ended
    <2>. QED  BY <2>6, <2>9, <2>10, <2>11, <2>12, <2>13 DEF BuildInv, Build
  <1>4. CASE /\ DeviceContent \notin {None, Torn}
             /\ extr' = [extr EXCEPT ![b] = DeviceContent]
             /\ st' = [st EXCEPT ![b] = "detach"] /\ mounted' = TRUE
             /\ spoiled' = spoiled \cup {b}
             /\ UNCHANGED <<prog, pc, root, err, name, sqfs, ext4, inj, origin, snap, loops, vm,
                           initram, chSock, tpmSock, pcr, child, keyDir, keyPub, keySec, out,
                           alone>>
    <2>1. DeviceContent \in Content
      <3>1. snap = b  BY <1>0, <1>1 DEF Devices, HasSnap
      <3>2. snap # None  BY <3>1
      <3>3. DeviceContent = ext4[root[b]]  BY <3>1, <3>2 DEF DeviceContent
      <3>4. ext4[root[b]] \in Files  BY <1>0, <1>2 DEF Types
      <3>. QED  BY <1>4, <3>3, <3>4 DEF Files
    <2>2. DeviceContent \in Files \ {Torn}  BY <1>4, <2>1 DEF Files
    <2>3. extr' \in [Builds -> Files \ {Torn}]  BY <1>0, <1>4, <2>2, TableType DEF Types
    <2>4. "detach" \in Steps  BY <1>0, <1>1, <1>2, <1>4 DEF Steps, RunSteps, CopySteps,
                                 FinalSteps, Ended
    <2>5. st' \in [Builds -> Steps]  BY <1>0, <1>4, <2>4, TableType DEF Types
    <2>6. mounted' \in BOOLEAN  BY <1>0, <1>1, <1>2, <1>4 DEF Types
    <2>7. spoiled' \in SUBSET Builds  BY <1>0, <1>1, <1>2, <1>4 DEF Types
    <2>8. Types'  BY <1>0, <1>4, <2>3, <2>5, <2>6, <2>7 DEF Types
    <2>9. extr'[b] = DeviceContent /\ st'[b] = "detach"
      BY <1>0, <1>4, TableEntry DEF Types
    <2>10. \A c \in Builds \ {b} : extr'[c] = extr[c] /\ st'[c] = st[c]
      BY <1>0, <1>4, TableEntry DEF Types
    <2>11. \A c \in Builds \ {b} : Build(c)'
      BY <1>4, <2>10, OtherBuild DEF BuildInv
    <2>12. Work(b)'  BY <1>0, <1>1, <1>2, <1>4, <2>9, <2>1 DEF Work, Paths, RunSteps,
                        CopySteps, FinalSteps
    <2>13. Devices(b)'  BY <1>0, <1>1, <1>2, <1>4, <2>9, <2>1 DEF Devices, HasOrigin, HasSnap
    <2>14. Returned(b)'  BY <1>0, <1>1, <1>2, <1>4, <2>9 DEF Returned, HasOrigin, HasSnap,
                            HasLoops
    <2>15. Image(b)'  BY <1>0, <1>1, <1>2, <1>4, <2>9 DEF Image, Hashed, Keyed, Ended
    <2>. QED  BY <2>8, <2>11, <2>12, <2>13, <2>14, <2>15 DEF BuildInv, Build
  <1>5. CASE /\ st' = [st EXCEPT ![b] = "detach"] /\ err' = [err EXCEPT ![b] = TRUE]
             /\ UNCHANGED <<prog, pc, root, extr, name, sqfs, ext4, inj, origin, snap, mounted,
                           loops, vm, initram, chSock, tpmSock, pcr, child, keyDir, keyPub,
                           keySec, out, spoiled, alone>>
    <2>1. "detach" \in Steps  BY <1>0, <1>1, <1>2, <1>5 DEF Steps, RunSteps, CopySteps,
                                 FinalSteps, Ended
    <2>2. st' \in [Builds -> Steps]  BY <1>0, <1>5, <2>1, TableType DEF Types
    <2>3. TRUE \in BOOLEAN  BY <1>0, <1>1, <1>2, <1>5 DEF Types
    <2>4. err' \in [Builds -> BOOLEAN]  BY <1>0, <1>5, <2>3, TableType DEF Types
    <2>5. Types'  BY <1>0, <1>5, <2>2, <2>4 DEF Types
    <2>6. st'[b] = "detach" /\ err'[b] = TRUE
      BY <1>0, <1>5, TableEntry DEF Types
    <2>7. \A c \in Builds \ {b} : st'[c] = st[c] /\ err'[c] = err[c]
      BY <1>0, <1>5, TableEntry DEF Types
    <2>8. \A c \in Builds \ {b} : Build(c)'
      BY <1>5, <2>7, OtherBuild DEF BuildInv
    <2>9. Work(b)'  BY <1>0, <1>1, <1>2, <1>5, <2>6 DEF Work, Paths, RunSteps, CopySteps,
                       FinalSteps
    <2>10. Devices(b)'  BY <1>0, <1>1, <1>2, <1>5, <2>6 DEF Devices, HasOrigin, HasSnap
    <2>11. Returned(b)'  BY <1>0, <1>1, <1>2, <1>5, <2>6 DEF Returned, HasOrigin, HasSnap,
                            HasLoops
    <2>12. Image(b)'  BY <1>0, <1>1, <1>2, <1>5, <2>6 DEF Image, Hashed, Keyed, Ended
    <2>. QED  BY <2>5, <2>8, <2>9, <2>10, <2>11, <2>12 DEF BuildInv, Build
  <1>6. CASE /\ mounted' = TRUE /\ st' = [st EXCEPT ![b] = "detach"]
             /\ err' = [err EXCEPT ![b] = TRUE] /\ spoiled' = spoiled \cup {b}
             /\ UNCHANGED <<prog, pc, root, extr, name, sqfs, ext4, inj, origin, snap, loops, vm,
                           initram, chSock, tpmSock, pcr, child, keyDir, keyPub, keySec, out,
                           alone>>
    <2>1. mounted' \in BOOLEAN  BY <1>0, <1>1, <1>2, <1>6 DEF Types
    <2>2. "detach" \in Steps  BY <1>0, <1>1, <1>2, <1>6 DEF Steps, RunSteps, CopySteps,
                                 FinalSteps, Ended
    <2>3. st' \in [Builds -> Steps]  BY <1>0, <1>6, <2>2, TableType DEF Types
    <2>4. TRUE \in BOOLEAN  BY <1>0, <1>1, <1>2, <1>6 DEF Types
    <2>5. err' \in [Builds -> BOOLEAN]  BY <1>0, <1>6, <2>4, TableType DEF Types
    <2>6. spoiled' \in SUBSET Builds  BY <1>0, <1>1, <1>2, <1>6 DEF Types
    <2>7. Types'  BY <1>0, <1>6, <2>1, <2>3, <2>5, <2>6 DEF Types
    <2>8. st'[b] = "detach" /\ err'[b] = TRUE
      BY <1>0, <1>6, TableEntry DEF Types
    <2>9. \A c \in Builds \ {b} : st'[c] = st[c] /\ err'[c] = err[c]
      BY <1>0, <1>6, TableEntry DEF Types
    <2>10. \A c \in Builds \ {b} : Build(c)'
      BY <1>6, <2>9, OtherBuild DEF BuildInv
    <2>11. Work(b)'  BY <1>0, <1>1, <1>2, <1>6, <2>8 DEF Work, Paths, RunSteps, CopySteps,
                        FinalSteps
    <2>12. Devices(b)'  BY <1>0, <1>1, <1>2, <1>6, <2>8 DEF Devices, HasOrigin, HasSnap
    <2>13. Returned(b)'  BY <1>0, <1>1, <1>2, <1>6, <2>8 DEF Returned, HasOrigin, HasSnap,
                            HasLoops
    <2>14. Image(b)'  BY <1>0, <1>1, <1>2, <1>6, <2>8 DEF Image, Hashed, Keyed, Ended
    <2>. QED  BY <2>7, <2>10, <2>11, <2>12, <2>13, <2>14 DEF BuildInv, Build
  <1>. QED  BY <1>3, <1>4, <1>5, <1>6 DEF RunSquash, Goto, Spoil, Unwind, runFrame, measVars,
                                          keyVars

\* Detaching the loop devices keeps the invariant.
LEMMA RunDetachKeeps ==
    ASSUME BuildInv, NEW b \in Builds, RunDetach(b)
    PROVE  BuildInv'
  <1>. USE BuildAssumption
  <1>0. Types /\ Build(b) /\ Work(b) /\ Devices(b) /\ Returned(b) /\ Image(b)
    BY DEF BuildInv, Build
  <1>1. st[b] = "detach"  BY DEF RunDetach
  <1>2. root[b] \in Paths
    BY <1>0, <1>1 DEF Types, Work, RunSteps, CopySteps, FinalSteps
  <1>3. CASE /\ loops' = [loops EXCEPT ![b] = 0] /\ st' = [st EXCEPT ![b] = "rmSnap"]
             /\ UNCHANGED <<prog, pc, root, err, extr, name, sqfs, ext4, inj, origin, snap, mounted,
                           vm, initram, chSock, tpmSock, pcr, child, keyDir, keyPub, keySec,
                           out, spoiled, alone>>
    <2>1. 0 \in 0..2  BY <1>0, <1>1, <1>2, <1>3 DEF Types
    <2>2. loops' \in [Builds -> 0..2]  BY <1>0, <1>3, <2>1, TableType DEF Types
    <2>3. "rmSnap" \in Steps  BY <1>0, <1>1, <1>2, <1>3 DEF Steps, RunSteps, CopySteps,
                                 FinalSteps, Ended
    <2>4. st' \in [Builds -> Steps]  BY <1>0, <1>3, <2>3, TableType DEF Types
    <2>5. Types'  BY <1>0, <1>3, <2>2, <2>4 DEF Types
    <2>6. loops'[b] = 0 /\ st'[b] = "rmSnap"
      BY <1>0, <1>3, TableEntry DEF Types
    <2>7. \A c \in Builds \ {b} : loops'[c] = loops[c] /\ st'[c] = st[c]
      BY <1>0, <1>3, TableEntry DEF Types
    <2>8. \A c \in Builds \ {b} : Build(c)'
      BY <1>3, <2>7, OtherBuild DEF BuildInv
    <2>9. Work(b)'  BY <1>0, <1>1, <1>2, <1>3, <2>6 DEF Work, Paths, RunSteps, CopySteps,
                       FinalSteps
    <2>10. Devices(b)'  BY <1>0, <1>1, <1>2, <1>3, <2>6 DEF Devices, HasOrigin, HasSnap
    <2>11. Returned(b)'  BY <1>0, <1>1, <1>2, <1>3, <2>6 DEF Returned, HasOrigin, HasSnap,
                            HasLoops
    <2>12. Image(b)'  BY <1>0, <1>1, <1>2, <1>3, <2>6 DEF Image, Hashed, Keyed, Ended
    <2>. QED  BY <2>5, <2>8, <2>9, <2>10, <2>11, <2>12 DEF BuildInv, Build
  <1>4. CASE /\ loops' = [loops EXCEPT ![b] = 1] /\ st' = [st EXCEPT ![b] = "rmSnap"]
             /\ spoiled' = spoiled \cup {b}
             /\ UNCHANGED <<prog, pc, root, err, extr, name, sqfs, ext4, inj, origin, snap, mounted,
                           vm, initram, chSock, tpmSock, pcr, child, keyDir, keyPub, keySec,
                           out, alone>>
    <2>1. 1 \in 0..2  BY <1>0, <1>1, <1>2, <1>4 DEF Types
    <2>2. loops' \in [Builds -> 0..2]  BY <1>0, <1>4, <2>1, TableType DEF Types
    <2>3. "rmSnap" \in Steps  BY <1>0, <1>1, <1>2, <1>4 DEF Steps, RunSteps, CopySteps,
                                 FinalSteps, Ended
    <2>4. st' \in [Builds -> Steps]  BY <1>0, <1>4, <2>3, TableType DEF Types
    <2>5. spoiled' \in SUBSET Builds  BY <1>0, <1>1, <1>2, <1>4 DEF Types
    <2>6. Types'  BY <1>0, <1>4, <2>2, <2>4, <2>5 DEF Types
    <2>7. loops'[b] = 1 /\ st'[b] = "rmSnap"
      BY <1>0, <1>4, TableEntry DEF Types
    <2>8. \A c \in Builds \ {b} : loops'[c] = loops[c] /\ st'[c] = st[c]
      BY <1>0, <1>4, TableEntry DEF Types
    <2>9. \A c \in Builds \ {b} : Build(c)'
      BY <1>4, <2>8, OtherBuild DEF BuildInv
    <2>10. Work(b)'  BY <1>0, <1>1, <1>2, <1>4, <2>7 DEF Work, Paths, RunSteps, CopySteps,
                        FinalSteps
    <2>11. Devices(b)'  BY <1>0, <1>1, <1>2, <1>4, <2>7 DEF Devices, HasOrigin, HasSnap
    <2>12. Returned(b)'  BY <1>0, <1>1, <1>2, <1>4, <2>7 DEF Returned, HasOrigin, HasSnap,
                            HasLoops
    <2>13. Image(b)'  BY <1>0, <1>1, <1>2, <1>4, <2>7 DEF Image, Hashed, Keyed, Ended
    <2>. QED  BY <2>6, <2>9, <2>10, <2>11, <2>12, <2>13 DEF BuildInv, Build
  <1>5. CASE /\ loops' = [loops EXCEPT ![b] = 2] /\ st' = [st EXCEPT ![b] = "rmSnap"]
             /\ spoiled' = spoiled \cup {b}
             /\ UNCHANGED <<prog, pc, root, err, extr, name, sqfs, ext4, inj, origin, snap, mounted,
                           vm, initram, chSock, tpmSock, pcr, child, keyDir, keyPub, keySec,
                           out, alone>>
    <2>1. 2 \in 0..2  BY <1>0, <1>1, <1>2, <1>5 DEF Types
    <2>2. loops' \in [Builds -> 0..2]  BY <1>0, <1>5, <2>1, TableType DEF Types
    <2>3. "rmSnap" \in Steps  BY <1>0, <1>1, <1>2, <1>5 DEF Steps, RunSteps, CopySteps,
                                 FinalSteps, Ended
    <2>4. st' \in [Builds -> Steps]  BY <1>0, <1>5, <2>3, TableType DEF Types
    <2>5. spoiled' \in SUBSET Builds  BY <1>0, <1>1, <1>2, <1>5 DEF Types
    <2>6. Types'  BY <1>0, <1>5, <2>2, <2>4, <2>5 DEF Types
    <2>7. loops'[b] = 2 /\ st'[b] = "rmSnap"
      BY <1>0, <1>5, TableEntry DEF Types
    <2>8. \A c \in Builds \ {b} : loops'[c] = loops[c] /\ st'[c] = st[c]
      BY <1>0, <1>5, TableEntry DEF Types
    <2>9. \A c \in Builds \ {b} : Build(c)'
      BY <1>5, <2>8, OtherBuild DEF BuildInv
    <2>10. Work(b)'  BY <1>0, <1>1, <1>2, <1>5, <2>7 DEF Work, Paths, RunSteps, CopySteps,
                        FinalSteps
    <2>11. Devices(b)'  BY <1>0, <1>1, <1>2, <1>5, <2>7 DEF Devices, HasOrigin, HasSnap
    <2>12. Returned(b)'  BY <1>0, <1>1, <1>2, <1>5, <2>7 DEF Returned, HasOrigin, HasSnap,
                            HasLoops
    <2>13. Image(b)'  BY <1>0, <1>1, <1>2, <1>5, <2>7 DEF Image, Hashed, Keyed, Ended
    <2>. QED  BY <2>6, <2>9, <2>10, <2>11, <2>12, <2>13 DEF BuildInv, Build
  <1>6. CASE /\ st' = [st EXCEPT ![b] = "runEnd"] /\ spoiled' = spoiled \cup {b}
             /\ UNCHANGED <<prog, pc, root, err, extr, name, sqfs, ext4, inj, origin, snap, mounted,
                           loops, vm, initram, chSock, tpmSock, pcr, child, keyDir, keyPub,
                           keySec, out, alone>>
    <2>1. "runEnd" \in Steps  BY <1>0, <1>1, <1>2, <1>6 DEF Steps, RunSteps, CopySteps,
                                 FinalSteps, Ended
    <2>2. st' \in [Builds -> Steps]  BY <1>0, <1>6, <2>1, TableType DEF Types
    <2>3. spoiled' \in SUBSET Builds  BY <1>0, <1>1, <1>2, <1>6 DEF Types
    <2>4. Types'  BY <1>0, <1>6, <2>2, <2>3 DEF Types
    <2>5. st'[b] = "runEnd"
      BY <1>0, <1>6, TableEntry DEF Types
    <2>6. \A c \in Builds \ {b} : st'[c] = st[c]
      BY <1>0, <1>6, TableEntry DEF Types
    <2>7. \A c \in Builds \ {b} : Build(c)'
      BY <1>6, <2>6, OtherBuild DEF BuildInv
    <2>8. Work(b)'  BY <1>0, <1>1, <1>2, <1>6, <2>5 DEF Work, Paths, RunSteps, CopySteps,
                       FinalSteps
    <2>9. Devices(b)'  BY <1>0, <1>1, <1>2, <1>6, <2>5 DEF Devices, HasOrigin, HasSnap
    <2>10. Returned(b)'  BY <1>0, <1>1, <1>2, <1>6, <2>5 DEF Returned, HasOrigin, HasSnap,
                            HasLoops
    <2>11. Image(b)'  BY <1>0, <1>1, <1>2, <1>6, <2>5 DEF Image, Hashed, Keyed, Ended
    <2>. QED  BY <2>4, <2>7, <2>8, <2>9, <2>10, <2>11 DEF BuildInv, Build
  <1>. QED  BY <1>3, <1>4, <1>5, <1>6 DEF RunDetach, Goto, Spoil, runFrame, measVars, keyVars

\* Removing the snapshot, which is the build's own keeps the invariant.
LEMMA RunRmSnapKeeps ==
    ASSUME BuildInv, NEW b \in Builds, RunRmSnap(b)
    PROVE  BuildInv'
  <1>. USE BuildAssumption
  <1>0. Types /\ Build(b) /\ Work(b) /\ Devices(b) /\ Returned(b) /\ Image(b)
    BY DEF BuildInv, Build
  <1>1. st[b] = "rmSnap"  BY DEF RunRmSnap
  <1>2. root[b] \in Paths
    BY <1>0, <1>1 DEF Types, Work, RunSteps, CopySteps, FinalSteps
  <1>3. CASE /\ snap' = None /\ st' = [st EXCEPT ![b] = "rmOrigin"]
             /\ UNCHANGED <<prog, pc, root, err, extr, name, sqfs, ext4, inj, origin, mounted, loops,
                           vm, initram, chSock, tpmSock, pcr, child, keyDir, keyPub, keySec,
                           out, spoiled, alone>>
    <2>1. snap' \in Owner  BY <1>0, <1>1, <1>2, <1>3 DEF Types, Owner
    <2>2. "rmOrigin" \in Steps  BY <1>0, <1>1, <1>2, <1>3 DEF Steps, RunSteps, CopySteps,
                                   FinalSteps, Ended
    <2>3. st' \in [Builds -> Steps]  BY <1>0, <1>3, <2>2, TableType DEF Types
    <2>4. Types'  BY <1>0, <1>3, <2>1, <2>3 DEF Types
    <2>5. st'[b] = "rmOrigin"
      BY <1>0, <1>3, TableEntry DEF Types
    <2>6. \A c \in Builds \ {b} : st'[c] = st[c]
      BY <1>0, <1>3, TableEntry DEF Types
    <2>7. snap = b  BY <1>0, <1>1 DEF Devices, HasSnap, HasOrigin
    <2>8. \A c \in Builds \ {b} : Build(c)'
      BY <1>3, <2>6, <2>7, OtherBuild DEF BuildInv
    <2>9. Work(b)'  BY <1>0, <1>1, <1>2, <1>3, <2>5, <2>7 DEF Work, Paths, RunSteps,
                       CopySteps, FinalSteps
    <2>10. Devices(b)'  BY <1>0, <1>1, <1>2, <1>3, <2>5, <2>7 DEF Devices, HasOrigin, HasSnap
    <2>11. Returned(b)'  BY <1>0, <1>1, <1>2, <1>3, <2>5, <2>7
                            DEF Returned, HasOrigin, HasSnap, HasLoops
    <2>12. Image(b)'  BY <1>0, <1>1, <1>2, <1>3, <2>5 DEF Image, Hashed, Keyed, Ended
    <2>. QED  BY <2>4, <2>8, <2>9, <2>10, <2>11, <2>12 DEF BuildInv, Build
  <1>4. CASE /\ st' = [st EXCEPT ![b] = "runEnd"] /\ spoiled' = spoiled \cup {b}
             /\ UNCHANGED <<prog, pc, root, err, extr, name, sqfs, ext4, inj, origin, snap, mounted,
                           loops, vm, initram, chSock, tpmSock, pcr, child, keyDir, keyPub,
                           keySec, out, alone>>
    <2>1. "runEnd" \in Steps  BY <1>0, <1>1, <1>2, <1>4 DEF Steps, RunSteps, CopySteps,
                                 FinalSteps, Ended
    <2>2. st' \in [Builds -> Steps]  BY <1>0, <1>4, <2>1, TableType DEF Types
    <2>3. spoiled' \in SUBSET Builds  BY <1>0, <1>1, <1>2, <1>4 DEF Types
    <2>4. Types'  BY <1>0, <1>4, <2>2, <2>3 DEF Types
    <2>5. st'[b] = "runEnd"
      BY <1>0, <1>4, TableEntry DEF Types
    <2>6. \A c \in Builds \ {b} : st'[c] = st[c]
      BY <1>0, <1>4, TableEntry DEF Types
    <2>7. snap = b  BY <1>0, <1>1 DEF Devices, HasSnap, HasOrigin
    <2>8. \A c \in Builds \ {b} : Build(c)'
      BY <1>4, <2>6, <2>7, OtherBuild DEF BuildInv
    <2>9. Work(b)'  BY <1>0, <1>1, <1>2, <1>4, <2>5, <2>7 DEF Work, Paths, RunSteps,
                       CopySteps, FinalSteps
    <2>10. Devices(b)'  BY <1>0, <1>1, <1>2, <1>4, <2>5, <2>7 DEF Devices, HasOrigin, HasSnap
    <2>11. Returned(b)'  BY <1>0, <1>1, <1>2, <1>4, <2>5, <2>7
                            DEF Returned, HasOrigin, HasSnap, HasLoops
    <2>12. Image(b)'  BY <1>0, <1>1, <1>2, <1>4, <2>5 DEF Image, Hashed, Keyed, Ended
    <2>. QED  BY <2>4, <2>8, <2>9, <2>10, <2>11, <2>12 DEF BuildInv, Build
  <1>. QED  BY <1>3, <1>4 DEF RunRmSnap, Goto, Spoil, runFrame, measVars, keyVars

\* Removing the linear device, which is the build's own keeps the invariant.
LEMMA RunRmOriginKeeps ==
    ASSUME BuildInv, NEW b \in Builds, RunRmOrigin(b)
    PROVE  BuildInv'
  <1>. USE BuildAssumption
  <1>0. Types /\ Build(b) /\ Work(b) /\ Devices(b) /\ Returned(b) /\ Image(b)
    BY DEF BuildInv, Build
  <1>1. st[b] = "rmOrigin"  BY DEF RunRmOrigin
  <1>2. root[b] \in Paths
    BY <1>0, <1>1 DEF Types, Work, RunSteps, CopySteps, FinalSteps
  <1>3. CASE /\ origin' = None /\ st' = [st EXCEPT ![b] = "runEnd"]
             /\ UNCHANGED <<prog, pc, root, err, extr, name, sqfs, ext4, inj, snap, mounted, loops,
                           vm, initram, chSock, tpmSock, pcr, child, keyDir, keyPub, keySec,
                           out, spoiled, alone>>
    <2>1. origin' \in Owner  BY <1>0, <1>1, <1>2, <1>3 DEF Types, Owner
    <2>2. "runEnd" \in Steps  BY <1>0, <1>1, <1>2, <1>3 DEF Steps, RunSteps, CopySteps,
                                 FinalSteps, Ended
    <2>3. st' \in [Builds -> Steps]  BY <1>0, <1>3, <2>2, TableType DEF Types
    <2>4. Types'  BY <1>0, <1>3, <2>1, <2>3 DEF Types
    <2>5. st'[b] = "runEnd"
      BY <1>0, <1>3, TableEntry DEF Types
    <2>6. \A c \in Builds \ {b} : st'[c] = st[c]
      BY <1>0, <1>3, TableEntry DEF Types
    <2>7. origin = b  BY <1>0, <1>1 DEF Devices, HasSnap, HasOrigin
    <2>8. \A c \in Builds \ {b} : Build(c)'
      BY <1>3, <2>6, <2>7, OtherBuild DEF BuildInv
    <2>9. Work(b)'  BY <1>0, <1>1, <1>2, <1>3, <2>5, <2>7 DEF Work, Paths, RunSteps,
                       CopySteps, FinalSteps
    <2>10. Devices(b)'  BY <1>0, <1>1, <1>2, <1>3, <2>5, <2>7 DEF Devices, HasOrigin, HasSnap
    <2>11. Returned(b)'  BY <1>0, <1>1, <1>2, <1>3, <2>5, <2>7
                            DEF Returned, HasOrigin, HasSnap, HasLoops
    <2>12. Image(b)'  BY <1>0, <1>1, <1>2, <1>3, <2>5 DEF Image, Hashed, Keyed, Ended
    <2>. QED  BY <2>4, <2>8, <2>9, <2>10, <2>11, <2>12 DEF BuildInv, Build
  <1>4. CASE /\ st' = [st EXCEPT ![b] = "runEnd"] /\ spoiled' = spoiled \cup {b}
             /\ UNCHANGED <<prog, pc, root, err, extr, name, sqfs, ext4, inj, origin, snap, mounted,
                           loops, vm, initram, chSock, tpmSock, pcr, child, keyDir, keyPub,
                           keySec, out, alone>>
    <2>1. "runEnd" \in Steps  BY <1>0, <1>1, <1>2, <1>4 DEF Steps, RunSteps, CopySteps,
                                 FinalSteps, Ended
    <2>2. st' \in [Builds -> Steps]  BY <1>0, <1>4, <2>1, TableType DEF Types
    <2>3. spoiled' \in SUBSET Builds  BY <1>0, <1>1, <1>2, <1>4 DEF Types
    <2>4. Types'  BY <1>0, <1>4, <2>2, <2>3 DEF Types
    <2>5. st'[b] = "runEnd"
      BY <1>0, <1>4, TableEntry DEF Types
    <2>6. \A c \in Builds \ {b} : st'[c] = st[c]
      BY <1>0, <1>4, TableEntry DEF Types
    <2>7. origin = b  BY <1>0, <1>1 DEF Devices, HasSnap, HasOrigin
    <2>8. \A c \in Builds \ {b} : Build(c)'
      BY <1>4, <2>6, <2>7, OtherBuild DEF BuildInv
    <2>9. Work(b)'  BY <1>0, <1>1, <1>2, <1>4, <2>5, <2>7 DEF Work, Paths, RunSteps,
                       CopySteps, FinalSteps
    <2>10. Devices(b)'  BY <1>0, <1>1, <1>2, <1>4, <2>5, <2>7 DEF Devices, HasOrigin, HasSnap
    <2>11. Returned(b)'  BY <1>0, <1>1, <1>2, <1>4, <2>5, <2>7
                            DEF Returned, HasOrigin, HasSnap, HasLoops
    <2>12. Image(b)'  BY <1>0, <1>1, <1>2, <1>4, <2>5 DEF Image, Hashed, Keyed, Ended
    <2>. QED  BY <2>4, <2>8, <2>9, <2>10, <2>11, <2>12 DEF BuildInv, Build
  <1>. QED  BY <1>3, <1>4 DEF RunRmOrigin, Goto, Spoil, runFrame, measVars, keyVars

\* The end of a RUN keeps the invariant.
LEMMA RunEndKeeps ==
    ASSUME BuildInv, NEW b \in Builds, RunEnd(b)
    PROVE  BuildInv'
  <1>. USE BuildAssumption
  <1>0. Types /\ Build(b) /\ Work(b) /\ Devices(b) /\ Returned(b) /\ Image(b)
    BY DEF BuildInv, Build
  <1>1. st[b] = "runEnd"  BY DEF RunEnd
  <1>2. root[b] \in Paths
    BY <1>0, <1>1 DEF Types, Work, RunSteps, CopySteps, FinalSteps
  <1>3. CASE /\ ~err[b] /\ root' = [root EXCEPT ![b] = b]
             /\ sqfs' = [sqfs EXCEPT ![b] = extr[b]] /\ ext4' = [ext4 EXCEPT ![b] = None]
             /\ extr' = [extr EXCEPT ![b] = None] /\ st' = [st EXCEPT ![b] = "next"]
             /\ pc' = [pc EXCEPT ![b] = pc[b] + 1]
             /\ UNCHANGED <<prog, err, name, inj, origin, snap, mounted, loops, vm, initram, chSock,
                           tpmSock, pcr, child, keyDir, keyPub, keySec, out, spoiled, alone>>
    <2>1. b \in Paths \cup {None}  BY <1>0, <1>1, <1>2, <1>3 DEF Types, Paths, Work, Files,
                                      RunSteps, CopySteps, FinalSteps
    <2>2. root' \in [Builds -> Paths \cup {None}]  BY <1>0, <1>3, <2>1, TableType DEF Types
    <2>3. extr[b] \in Files  BY <1>0, <1>1, <1>2, <1>3 DEF Types, Paths, Work, Files,
                                RunSteps, CopySteps, FinalSteps
    <2>4. sqfs' \in [Paths -> Files]  BY <1>0, <1>3, <2>3, TableType DEF Types
    <2>5. None \in Files  BY <1>0, <1>1, <1>2, <1>3 DEF Types, Paths, Work, Files, RunSteps,
                             CopySteps, FinalSteps
    <2>6. ext4' \in [Paths -> Files]  BY <1>0, <1>3, <2>5, TableType DEF Types
    <2>7. None \in Files \ {Torn}  BY <1>0, <1>1, <1>2, <1>3 DEF Types, Paths, Work, Files,
                                      RunSteps, CopySteps, FinalSteps
    <2>8. extr' \in [Builds -> Files \ {Torn}]  BY <1>0, <1>3, <2>7, TableType DEF Types
    <2>9. "next" \in Steps  BY <1>0, <1>1, <1>2, <1>3 DEF Steps, RunSteps, CopySteps,
                               FinalSteps, Ended
    <2>10. st' \in [Builds -> Steps]  BY <1>0, <1>3, <2>9, TableType DEF Types
    <2>11. pc[b] + 1 \in Nat  BY <1>0, <1>1, <1>2, <1>3 DEF Types
    <2>12. pc' \in [Builds -> Nat]  BY <1>0, <1>3, <2>11, TableType DEF Types
    <2>13. Types'  BY <1>0, <1>3, <2>2, <2>4, <2>6, <2>8, <2>10, <2>12 DEF Types
    <2>14. root'[b] = b /\ extr'[b] = None /\ st'[b] = "next" /\ pc'[b] = pc[b] + 1
      BY <1>0, <1>3, TableEntry DEF Types
    <2>15. \A c \in Builds \ {b} : root'[c] = root[c] /\ extr'[c] = extr[c]
               /\ st'[c] = st[c] /\ pc'[c] = pc[c]
      BY <1>0, <1>3, TableEntry DEF Types
    <2>. \A c \in Builds : sqfs'[Output(c)] = sqfs[Output(c)]
      BY <1>0, <1>3, OutputPath DEF Types
    <2>16. \A c \in Builds \ {b} : Build(c)'
      BY <1>3, <2>15, OtherBuild DEF BuildInv
    <2>17. Work(b)'  BY <1>0, <1>1, <1>2, <1>3, <2>14 DEF Work, Paths, RunSteps, CopySteps,
                        FinalSteps
    <2>18. Devices(b)'  BY <1>0, <1>1, <1>2, <1>3, <2>14 DEF Devices, HasOrigin, HasSnap
    <2>19. Returned(b)'  BY <1>0, <1>1, <1>2, <1>3, <2>14 DEF Returned, HasOrigin, HasSnap,
                            HasLoops
    <2>20. Image(b)'  BY <1>0, <1>1, <1>2, <1>3, <2>14 DEF Image, Hashed, Keyed, Ended
    <2>. QED  BY <2>13, <2>16, <2>17, <2>18, <2>19, <2>20 DEF BuildInv, Build
  <1>4. CASE /\ st' = [st EXCEPT ![b] = "failed"] /\ extr' = [extr EXCEPT ![b] = None]
             /\ UNCHANGED <<prog, pc, root, err, name, sqfs, ext4, inj, origin, snap, mounted, loops,
                           vm, initram, chSock, tpmSock, pcr, child, keyDir, keyPub, keySec,
                           out, spoiled, alone>>
    <2>1. chSock' \in Owner /\ tpmSock' \in Owner /\ pcr' \in [Builds -> SUBSET Builds]
          /\ child' \in [Builds -> BOOLEAN] /\ keyDir' \in BOOLEAN
          /\ keyPub' \in Owner /\ keySec' \in Owner
      BY <1>0, <1>4 DEF Types
    <2>2. "failed" \in Steps  BY DEF Steps, RunSteps, FinalSteps, Ended
    <2>. QED
      BY <1>1, <1>4, <2>1, <2>2, MoveKeeps
      DEF HasOrigin, HasLoops, Hashed, Keyed, Ended
  <1>. QED  BY <1>3, <1>4 DEF RunEnd, Advance, Goto, Leave, devVars, measVars, keyVars,
                              histVars

\* unsquashfs for a COPY keeps the invariant.
LEMMA CopyBeginKeeps ==
    ASSUME BuildInv, NEW b \in Builds, CopyBegin(b)
    PROVE  BuildInv'
  <1>. USE BuildAssumption
  <1>0. Types /\ Build(b) /\ Work(b) /\ Devices(b) /\ Returned(b) /\ Image(b)
    BY DEF BuildInv, Build
  <1>1. At(b, "copy") /\ root[b] # None  BY DEF CopyBegin
  <1>2. root[b] \in Paths
    BY <1>0, <1>1 DEF Types, Work, RunSteps, CopySteps, FinalSteps
  <1>3. CASE /\ sqfs[root[b]] \notin {None, Torn}
             /\ extr' = [extr EXCEPT ![b] = sqfs[root[b]]]
             /\ st' = [st EXCEPT ![b] = "inject"]
             /\ UNCHANGED <<prog, pc, root, err, name, sqfs, ext4, inj, origin, snap, mounted, loops,
                           vm, initram, chSock, tpmSock, pcr, child, keyDir, keyPub, keySec,
                           out, spoiled, alone>>
    <2>1. sqfs[root[b]] \in Content
      <3>1. sqfs[root[b]] \in Files  BY <1>0, <1>2 DEF Types
      <3>. QED  BY <1>3, <3>1 DEF Files
    <2>2. sqfs[root[b]] \in Files \ {Torn}  BY <1>3, <2>1 DEF Files
    <2>3. extr' \in [Builds -> Files \ {Torn}]  BY <1>0, <1>3, <2>2, TableType DEF Types
    <2>4. "inject" \in Steps  BY <1>0, <1>1, <1>2, <1>3 DEF Steps, RunSteps, CopySteps,
                                 FinalSteps, Ended
    <2>5. st' \in [Builds -> Steps]  BY <1>0, <1>3, <2>4, TableType DEF Types
    <2>6. Types'  BY <1>0, <1>3, <2>3, <2>5 DEF Types
    <2>7. extr'[b] = sqfs[root[b]] /\ st'[b] = "inject"
      BY <1>0, <1>3, TableEntry DEF Types
    <2>8. \A c \in Builds \ {b} : extr'[c] = extr[c] /\ st'[c] = st[c]
      BY <1>0, <1>3, TableEntry DEF Types
    <2>9. \A c \in Builds \ {b} : Build(c)'
      BY <1>3, <2>8, OtherBuild DEF BuildInv
    <2>10. Work(b)'  BY <1>0, <1>1, <1>2, <1>3, <2>7, <2>1 DEF Work, Paths, RunSteps,
                        CopySteps, FinalSteps, At
    <2>11. Devices(b)'  BY <1>0, <1>1, <1>2, <1>3, <2>7, <2>1
                           DEF Devices, HasOrigin, HasSnap, At
    <2>12. Returned(b)'  BY <1>0, <1>1, <1>2, <1>3, <2>7 DEF Returned, HasOrigin, HasSnap,
                            HasLoops, At
    <2>13. Image(b)'  BY <1>0, <1>1, <1>2, <1>3, <2>7 DEF Image, Hashed, Keyed, Ended, At
    <2>. QED  BY <2>6, <2>9, <2>10, <2>11, <2>12, <2>13 DEF BuildInv, Build
  <1>4. CASE /\ st' = [st EXCEPT ![b] = "failed"] /\ extr' = [extr EXCEPT ![b] = None]
             /\ UNCHANGED <<prog, pc, root, err, name, sqfs, ext4, inj, origin, snap, mounted, loops,
                           vm, initram, chSock, tpmSock, pcr, child, keyDir, keyPub, keySec,
                           out, spoiled, alone>>
    <2>1. chSock' \in Owner /\ tpmSock' \in Owner /\ pcr' \in [Builds -> SUBSET Builds]
          /\ child' \in [Builds -> BOOLEAN] /\ keyDir' \in BOOLEAN
          /\ keyPub' \in Owner /\ keySec' \in Owner
      BY <1>0, <1>4 DEF Types
    <2>2. "failed" \in Steps  BY DEF Steps, RunSteps, FinalSteps, Ended
    <2>. QED
      BY <1>1, <1>4, <2>1, <2>2, MoveKeeps
      DEF HasOrigin, HasLoops, Hashed, Keyed, Ended, At
  <1>. QED  BY <1>3, <1>4 DEF CopyBegin, extract_squashfs, Goto, Leave, copyFrame, devVars,
                              measVars, keyVars, histVars

\* Packing the injected layer keeps the invariant.
LEMMA CopyInjectKeeps ==
    ASSUME BuildInv, NEW b \in Builds, CopyInject(b)
    PROVE  BuildInv'
  <1>. USE BuildAssumption
  <1>0. Types /\ Build(b) /\ Work(b) /\ Devices(b) /\ Returned(b) /\ Image(b)
    BY DEF BuildInv, Build
  <1>1. st[b] = "inject"  BY DEF CopyInject
  <1>2. root[b] \in Paths
    BY <1>0, <1>1 DEF Types, Work, RunSteps, CopySteps, FinalSteps
  <1>3. ASSUME NEW n \in Names,
             name' = [name EXCEPT ![b] = n],
             inj' = [inj EXCEPT ![n] = extr[b] \cup {<<b, pc[b]>>}],
             extr' = [extr EXCEPT ![b] = None],
             st' = [st EXCEPT ![b] = "truncateRoot"],
             UNCHANGED <<prog, pc, root, err, sqfs, ext4, origin, snap, mounted, loops, vm,
                          initram, chSock, tpmSock, pcr, child, keyDir, keyPub, keySec, out,
                          spoiled, alone>>
        PROVE  BuildInv'
    <2>1. n \in Names \cup {None}  BY <1>0, <1>1, <1>2, <1>3 DEF Types
    <2>2. name' \in [Builds -> Names \cup {None}]  BY <1>0, <1>3, <2>1, TableType DEF Types
    <2>3. extr[b] \cup {<<b, pc[b]>>} \in Files  BY <1>0, <1>1, <1>2, <1>3
                                                    DEF Types, Paths, Work, Files, RunSteps,
                                                        CopySteps, FinalSteps, Content, Copies
    <2>4. inj' \in [Names -> Files]  BY <1>0, <1>3, <2>3, TableType DEF Types
    <2>5. None \in Files \ {Torn}  BY <1>0, <1>1, <1>2, <1>3 DEF Types, Paths, Work, Files,
                                      RunSteps, CopySteps, FinalSteps
    <2>6. extr' \in [Builds -> Files \ {Torn}]  BY <1>0, <1>3, <2>5, TableType DEF Types
    <2>7. "truncateRoot" \in Steps  BY <1>0, <1>1, <1>2, <1>3
                                       DEF Steps, RunSteps, CopySteps, FinalSteps, Ended
    <2>8. st' \in [Builds -> Steps]  BY <1>0, <1>3, <2>7, TableType DEF Types
    <2>9. Types'  BY <1>0, <1>3, <2>2, <2>4, <2>6, <2>8 DEF Types
    <2>10. name'[b] = n /\ extr'[b] = None /\ st'[b] = "truncateRoot"
      BY <1>0, <1>3, TableEntry DEF Types
    <2>11. \A c \in Builds \ {b} : name'[c] = name[c] /\ extr'[c] = extr[c] /\ st'[c] = st[c]
      BY <1>0, <1>3, TableEntry DEF Types
    <2>12. \A c \in Builds \ {b} : Build(c)'
      BY <1>3, <2>11, OtherBuild DEF BuildInv
    <2>13. Work(b)'  BY <1>0, <1>1, <1>2, <1>3, <2>10 DEF Work, Paths, RunSteps, CopySteps,
                        FinalSteps
    <2>14. Devices(b)'  BY <1>0, <1>1, <1>2, <1>3, <2>10 DEF Devices, HasOrigin, HasSnap
    <2>15. Returned(b)'  BY <1>0, <1>1, <1>2, <1>3, <2>10 DEF Returned, HasOrigin, HasSnap,
                            HasLoops
    <2>16. Image(b)'  BY <1>0, <1>1, <1>2, <1>3, <2>10 DEF Image, Hashed, Keyed, Ended
    <2>. QED  BY <2>9, <2>12, <2>13, <2>14, <2>15, <2>16 DEF BuildInv, Build
  <1>4. CASE /\ st' = [st EXCEPT ![b] = "failed"] /\ extr' = [extr EXCEPT ![b] = None]
             /\ UNCHANGED <<prog, pc, root, err, name, sqfs, ext4, inj, origin, snap, mounted, loops,
                           vm, initram, chSock, tpmSock, pcr, child, keyDir, keyPub, keySec,
                           out, spoiled, alone>>
    <2>1. chSock' \in Owner /\ tpmSock' \in Owner /\ pcr' \in [Builds -> SUBSET Builds]
          /\ child' \in [Builds -> BOOLEAN] /\ keyDir' \in BOOLEAN
          /\ keyPub' \in Owner /\ keySec' \in Owner
      BY <1>0, <1>4 DEF Types
    <2>2. "failed" \in Steps  BY DEF Steps, RunSteps, FinalSteps, Ended
    <2>. QED
      BY <1>1, <1>4, <2>1, <2>2, MoveKeeps
      DEF HasOrigin, HasLoops, Hashed, Keyed, Ended
  <1>. QED  BY <1>3, <1>4 DEF CopyInject, Goto, Leave, copyFrame, devVars, measVars, keyVars,
                              histVars

\* Truncating the rootfs keeps the invariant.
LEMMA CopyTruncateKeeps ==
    ASSUME BuildInv, NEW b \in Builds, CopyTruncate(b)
    PROVE  BuildInv'
  <1>. USE BuildAssumption
  <1>0. Types /\ Build(b) /\ Work(b) /\ Devices(b) /\ Returned(b) /\ Image(b)
    BY DEF BuildInv, Build
  <1>1. st[b] = "truncateRoot"  BY DEF CopyTruncate
  <1>2. root[b] \in Paths
    BY <1>0, <1>1 DEF Types, Work, RunSteps, CopySteps, FinalSteps
  <1>4. Rewrite(b) => /\ out' \in [Builds -> ImageDir]
                      /\ \A c \in Builds : Rewritten(c, root[b])
    BY <1>0, RewriteEntries DEF Types
  <1>3. CASE /\ Rewrite(b)
             /\ sqfs' = [sqfs EXCEPT ![root[b]] = Torn] /\ st' = [st EXCEPT ![b] = "write"]
             /\ UNCHANGED <<prog, pc, root, err, extr, name, ext4, inj, origin, snap, mounted, loops,
                           vm, initram, chSock, tpmSock, pcr, child, keyDir, keyPub, keySec,
                           spoiled, alone>>
    <2>1. Torn \in Files  BY <1>0, <1>1, <1>2, <1>3 DEF Types, Paths, Work, Files, RunSteps,
                             CopySteps, FinalSteps
    <2>2. sqfs' \in [Paths -> Files]  BY <1>0, <1>3, <2>1, TableType DEF Types
    <2>3. "write" \in Steps  BY <1>0, <1>1, <1>2, <1>3 DEF Steps, RunSteps, CopySteps,
                                FinalSteps, Ended
    <2>4. st' \in [Builds -> Steps]  BY <1>0, <1>3, <2>3, TableType DEF Types
    <2>5. Types'  BY <1>0, <1>3, <2>2, <2>4, <1>4 DEF Types
    <2>6. st'[b] = "write"
      BY <1>0, <1>3, TableEntry DEF Types
    <2>7. \A c \in Builds \ {b} : st'[c] = st[c]
      BY <1>0, <1>3, TableEntry DEF Types
    <2>13. \A c \in Builds : Output(c) # root[b] => sqfs'[Output(c)] = sqfs[Output(c)]
      BY <1>0, <1>2, <1>3, OutputPath DEF Types
    <2>8. \A c \in Builds \ {b} : Build(c)'
      BY <1>3, <1>4, <2>7, <2>13, RewrittenBuild DEF BuildInv
    <2>9. Work(b)'  BY <1>0, <1>1, <1>2, <1>3, <2>6 DEF Work, Paths, RunSteps, CopySteps,
                       FinalSteps
    <2>10. Devices(b)'  BY <1>0, <1>1, <1>2, <1>3, <2>6 DEF Devices, HasOrigin, HasSnap
    <2>11. Returned(b)'  BY <1>0, <1>1, <1>2, <1>3, <2>6 DEF Returned, HasOrigin, HasSnap,
                            HasLoops
    <2>12. Image(b)'  BY <1>0, <1>1, <1>2, <1>3, <1>4, <2>6 DEF Image, Hashed, Keyed, Ended,
                         Rewritten
    <2>. QED  BY <2>5, <2>8, <2>9, <2>10, <2>11, <2>12 DEF BuildInv, Build
  <1>. QED  BY <1>3 DEF CopyTruncate, Rewrite, Goto, copyFrame, devVars, measVars, keyVars, histVars

\* Writing the rootfs keeps the invariant.
LEMMA CopyWriteKeeps ==
    ASSUME BuildInv, NEW b \in Builds, CopyWrite(b)
    PROVE  BuildInv'
  <1>. USE BuildAssumption
  <1>0. Types /\ Build(b) /\ Work(b) /\ Devices(b) /\ Returned(b) /\ Image(b)
    BY DEF BuildInv, Build
  <1>1. st[b] = "write"  BY DEF CopyWrite
  <1>2. root[b] \in Paths
    BY <1>0, <1>1 DEF Types, Work, RunSteps, CopySteps, FinalSteps
  <1>5. Rewrite(b) => /\ out' \in [Builds -> ImageDir]
                      /\ \A c \in Builds : Rewritten(c, root[b])
    BY <1>0, RewriteEntries DEF Types
  <1>3. CASE /\ Rewrite(b) /\ sqfs' = [sqfs EXCEPT ![root[b]] = inj[name[b]]]
             /\ st' = [st EXCEPT ![b] = "next"] /\ pc' = [pc EXCEPT ![b] = pc[b] + 1]
             /\ UNCHANGED <<prog, root, err, extr, name, ext4, inj, origin, snap, mounted, loops, vm,
                           initram, chSock, tpmSock, pcr, child, keyDir, keyPub, keySec,
                           spoiled, alone>>
    <2>1. inj[name[b]] \in Files  BY <1>0, <1>1, <1>2, <1>3 DEF Types, Paths, Work, Files,
                                     RunSteps, CopySteps, FinalSteps
    <2>2. sqfs' \in [Paths -> Files]  BY <1>0, <1>3, <2>1, TableType DEF Types
    <2>3. "next" \in Steps  BY <1>0, <1>1, <1>2, <1>3 DEF Steps, RunSteps, CopySteps,
                               FinalSteps, Ended
    <2>4. st' \in [Builds -> Steps]  BY <1>0, <1>3, <2>3, TableType DEF Types
    <2>5. pc[b] + 1 \in Nat  BY <1>0, <1>1, <1>2, <1>3 DEF Types
    <2>6. pc' \in [Builds -> Nat]  BY <1>0, <1>3, <2>5, TableType DEF Types
    <2>7. Types'  BY <1>0, <1>3, <1>5, <2>2, <2>4, <2>6 DEF Types
    <2>8. st'[b] = "next" /\ pc'[b] = pc[b] + 1
      BY <1>0, <1>3, TableEntry DEF Types
    <2>9. \A c \in Builds \ {b} : st'[c] = st[c] /\ pc'[c] = pc[c]
      BY <1>0, <1>3, TableEntry DEF Types
    <2>15. \A c \in Builds : Output(c) # root[b] => sqfs'[Output(c)] = sqfs[Output(c)]
      BY <1>0, <1>2, <1>3, OutputPath DEF Types
    <2>10. \A c \in Builds \ {b} : Build(c)'
      BY <1>3, <1>5, <2>9, <2>15, RewrittenBuild DEF BuildInv
    <2>11. Work(b)'  BY <1>0, <1>1, <1>2, <1>3, <2>8 DEF Work, Paths, RunSteps, CopySteps,
                        FinalSteps
    <2>12. Devices(b)'  BY <1>0, <1>1, <1>2, <1>3, <2>8 DEF Devices, HasOrigin, HasSnap
    <2>13. Returned(b)'  BY <1>0, <1>1, <1>2, <1>3, <2>8 DEF Returned, HasOrigin, HasSnap,
                            HasLoops
    <2>14. Image(b)'  BY <1>0, <1>1, <1>2, <1>3, <1>5, <2>8 DEF Image, Hashed, Keyed, Ended,
                         Rewritten
    <2>. QED  BY <2>7, <2>10, <2>11, <2>12, <2>13, <2>14 DEF BuildInv, Build
  <1>4. CASE /\ st' = [st EXCEPT ![b] = "failed"]
             /\ UNCHANGED <<prog, pc, root, err, extr, name, sqfs, ext4, inj, origin, snap, mounted,
                           loops, vm, initram, chSock, tpmSock, pcr, child, keyDir, keyPub,
                           keySec, out, spoiled, alone>>
    <2>1. chSock' \in Owner /\ tpmSock' \in Owner /\ pcr' \in [Builds -> SUBSET Builds]
          /\ child' \in [Builds -> BOOLEAN] /\ keyDir' \in BOOLEAN
          /\ keyPub' \in Owner /\ keySec' \in Owner
      BY <1>0, <1>4 DEF Types
    <2>2. "failed" \in Steps  BY DEF Steps, RunSteps, FinalSteps, Ended
    <2>. QED
      BY <1>1, <1>4, <2>1, <2>2, MoveKeeps
      DEF HasOrigin, HasLoops, Hashed, Keyed, Ended
  <1>. QED  BY <1>3, <1>4 DEF CopyWrite, Rewrite, Advance, Goto, copyFrame, devVars, measVars, keyVars,
                              histVars

\* Copying the rootfs into the image keeps the invariant.
LEMMA FinalizeCopyKeeps ==
    ASSUME BuildInv, NEW b \in Builds, FinalizeCopy(b)
    PROVE  BuildInv'
  <1>. USE BuildAssumption
  <1>0. Types /\ Build(b) /\ Work(b) /\ Devices(b) /\ Returned(b) /\ Image(b)
    BY DEF BuildInv, Build
  <1>1. st[b] = "next" /\ pc[b] > Len(prog[b]) /\ root[b] # None  BY DEF FinalizeCopy
  <1>2. root[b] \in Paths
    BY <1>0, <1>1 DEF Types, Work, RunSteps, CopySteps, FinalSteps
  <1>3. CASE /\ sqfs' = [sqfs EXCEPT ![Output(b)] = sqfs[root[b]]]
             /\ st' = [st EXCEPT ![b] = "hash"]
             /\ UNCHANGED <<prog, pc, root, err, extr, name, ext4, inj, origin, snap, mounted,
                           loops, vm, initram, chSock, tpmSock, pcr, child, keyDir, keyPub,
                           keySec, out, spoiled, alone>>
    <2>2. sqfs[root[b]] \in Files  BY <1>0, <1>2 DEF Types
    <2>4. sqfs' \in [Paths -> Files]  BY <1>0, <1>3, <2>2, TableType DEF Types
    <2>5. "hash" \in Steps  BY <1>0, <1>1, <1>2, <1>3 DEF Steps, RunSteps, CopySteps,
                               FinalSteps, Ended
    <2>6. st' \in [Builds -> Steps]  BY <1>0, <1>3, <2>5, TableType DEF Types
    <2>7. Types'  BY <1>0, <1>3, <2>4, <2>6 DEF Types
    <2>8. st'[b] = "hash"
      BY <1>0, <1>3, TableEntry DEF Types
    <2>9. \A c \in Builds \ {b} : st'[c] = st[c]
      BY <1>0, <1>3, TableEntry DEF Types
    <2>3. \A c \in Builds \ {b} : sqfs'[Output(c)] = sqfs[Output(c)]
      BY <1>0, <1>3, OutputPath DEF Types
    <2>10. \A c \in Builds \ {b} : Build(c)'
      BY <1>3, <2>3, <2>9, OtherBuild DEF BuildInv
    <2>11. Work(b)'  BY <1>0, <1>1, <1>2, <1>3, <2>8 DEF Work, Paths, RunSteps, CopySteps,
                        FinalSteps
    <2>12. Devices(b)'  BY <1>0, <1>1, <1>2, <1>3, <2>8 DEF Devices, HasOrigin, HasSnap
    <2>13. Returned(b)'  BY <1>0, <1>1, <1>2, <1>3, <2>8 DEF Returned, HasOrigin, HasSnap,
                            HasLoops
    <2>14. Image(b)'  BY <1>0, <1>1, <1>2, <1>3, <2>8 DEF Image, Hashed, Keyed, Ended, Types,
                         ImageDir
    <2>. QED  BY <2>7, <2>10, <2>11, <2>12, <2>13, <2>14 DEF BuildInv, Build
  <1>4. CASE /\ sqfs' = [sqfs EXCEPT ![Output(b)] = Torn]
             /\ st' = [st EXCEPT ![b] = "failed"]
             /\ UNCHANGED <<prog, pc, root, err, extr, name, ext4, inj, origin, snap, mounted,
                           loops, vm, initram, chSock, tpmSock, pcr, child, keyDir, keyPub,
                           keySec, out, spoiled, alone>>
    <2>2. Torn \in Files  BY <1>0, <1>2 DEF Types, Files, Owner
    <2>4. sqfs' \in [Paths -> Files]  BY <1>0, <1>4, <2>2, TableType DEF Types
    <2>5. "failed" \in Steps  BY <1>0, <1>1, <1>2, <1>4 DEF Steps, RunSteps, CopySteps,
                                 FinalSteps, Ended
    <2>6. st' \in [Builds -> Steps]  BY <1>0, <1>4, <2>5, TableType DEF Types
    <2>7. Types'  BY <1>0, <1>4, <2>4, <2>6 DEF Types
    <2>8. st'[b] = "failed"
      BY <1>0, <1>4, TableEntry DEF Types
    <2>9. \A c \in Builds \ {b} : st'[c] = st[c]
      BY <1>0, <1>4, TableEntry DEF Types
    <2>3. \A c \in Builds \ {b} : sqfs'[Output(c)] = sqfs[Output(c)]
      BY <1>0, <1>4, OutputPath DEF Types
    <2>10. \A c \in Builds \ {b} : Build(c)'
      BY <1>4, <2>3, <2>9, OtherBuild DEF BuildInv
    <2>11. Work(b)'  BY <1>0, <1>1, <1>2, <1>4, <2>8 DEF Work, Paths, RunSteps, CopySteps,
                        FinalSteps
    <2>12. Devices(b)'  BY <1>0, <1>1, <1>2, <1>4, <2>8 DEF Devices, HasOrigin, HasSnap
    <2>13. Returned(b)'  BY <1>0, <1>1, <1>2, <1>4, <2>8 DEF Returned, HasOrigin, HasSnap,
                            HasLoops
    <2>14. Image(b)'  BY <1>0, <1>1, <1>2, <1>4, <2>8 DEF Image, Hashed, Keyed, Ended, Types,
                         ImageDir
    <2>. QED  BY <2>7, <2>10, <2>11, <2>12, <2>13, <2>14 DEF BuildInv, Build
  <1>. QED  BY <1>3, <1>4 DEF FinalizeCopy, Goto, devVars, measVars, keyVars, histVars

\* Hashing the copy keeps the invariant.
LEMMA FinalizeHashKeeps ==
    ASSUME BuildInv, NEW b \in Builds, FinalizeHash(b)
    PROVE  BuildInv'
  <1>. USE BuildAssumption
  <1>0. Types /\ Build(b) /\ Work(b) /\ Devices(b) /\ Returned(b) /\ Image(b)
    BY DEF BuildInv, Build
  <1>1. st[b] = "hash"  BY DEF FinalizeHash
  <1>2. root[b] \in Paths
    BY <1>0, <1>1 DEF Types, Work, RunSteps, CopySteps, FinalSteps
  <1>3. CASE /\ has_measured_boot(prog[b])
             /\ out' = [out EXCEPT ![b] = [out[b] EXCEPT !.hash = sqfs[Output(b)]]]
             /\ st' = [st EXCEPT ![b] = "vtpm"]
             /\ UNCHANGED <<prog, pc, root, err, extr, name, sqfs, ext4, inj, origin, snap, mounted,
                           loops, vm, initram, chSock, tpmSock, pcr, child, keyDir, keyPub,
                           keySec, spoiled, alone>>
    <2>1. out[b] \in ImageDir  BY <1>0 DEF Types
    <2>2. sqfs[Output(b)] \in Files  BY <1>0, OutputPath DEF Types
    <2>3. [out[b] EXCEPT !.hash = sqfs[Output(b)]] \in ImageDir  BY <2>1, <2>2, ImageType
    <2>4. out' \in [Builds -> ImageDir]  BY <1>0, <1>3, <2>3, TableType DEF Types
    <2>5. "vtpm" \in Steps  BY <1>0, <1>1, <1>2, <1>3 DEF Steps, RunSteps, CopySteps,
                               FinalSteps, Ended
    <2>6. st' \in [Builds -> Steps]  BY <1>0, <1>3, <2>5, TableType DEF Types
    <2>7. Types'  BY <1>0, <1>3, <2>4, <2>6 DEF Types
    <2>8. out'[b] = [out[b] EXCEPT !.hash = sqfs[Output(b)]] /\ st'[b] = "vtpm"
      BY <1>0, <1>3, TableEntry DEF Types
    <2>9. \A c \in Builds \ {b} : out'[c] = out[c] /\ st'[c] = st[c]
      BY <1>0, <1>3, TableEntry DEF Types
    <2>10. \A c \in Builds \ {b} : Build(c)'
      BY <1>3, <2>9, OtherBuild DEF BuildInv
    <2>11. Work(b)'  BY <1>0, <1>1, <1>2, <1>3, <2>8 DEF Work, Paths, RunSteps, CopySteps,
                        FinalSteps
    <2>12. Devices(b)'  BY <1>0, <1>1, <1>2, <1>3, <2>8 DEF Devices, HasOrigin, HasSnap
    <2>13. Returned(b)'  BY <1>0, <1>1, <1>2, <1>3, <2>8 DEF Returned, HasOrigin, HasSnap,
                            HasLoops
    <2>14. Image(b)'  BY <1>0, <1>1, <1>2, <1>3, <2>8 DEF Image, Hashed, Keyed, Ended, Types,
                         ImageDir
    <2>. QED  BY <2>7, <2>10, <2>11, <2>12, <2>13, <2>14 DEF BuildInv, Build
  <1>4. CASE /\ ~has_measured_boot(prog[b])
             /\ out' = [out EXCEPT ![b] = [out[b] EXCEPT !.hash = sqfs[Output(b)]]]
             /\ st' = [st EXCEPT ![b] = "manifest"]
             /\ UNCHANGED <<prog, pc, root, err, extr, name, sqfs, ext4, inj, origin, snap, mounted,
                           loops, vm, initram, chSock, tpmSock, pcr, child, keyDir, keyPub,
                           keySec, spoiled, alone>>
    <2>1. out[b] \in ImageDir  BY <1>0 DEF Types
    <2>2. sqfs[Output(b)] \in Files  BY <1>0, OutputPath DEF Types
    <2>3. [out[b] EXCEPT !.hash = sqfs[Output(b)]] \in ImageDir  BY <2>1, <2>2, ImageType
    <2>4. out' \in [Builds -> ImageDir]  BY <1>0, <1>4, <2>3, TableType DEF Types
    <2>5. "manifest" \in Steps  BY <1>0, <1>1, <1>2, <1>4 DEF Steps, RunSteps, CopySteps,
                                   FinalSteps, Ended
    <2>6. st' \in [Builds -> Steps]  BY <1>0, <1>4, <2>5, TableType DEF Types
    <2>7. Types'  BY <1>0, <1>4, <2>4, <2>6 DEF Types
    <2>8. out'[b] = [out[b] EXCEPT !.hash = sqfs[Output(b)]] /\ st'[b] = "manifest"
      BY <1>0, <1>4, TableEntry DEF Types
    <2>9. \A c \in Builds \ {b} : out'[c] = out[c] /\ st'[c] = st[c]
      BY <1>0, <1>4, TableEntry DEF Types
    <2>10. \A c \in Builds \ {b} : Build(c)'
      BY <1>4, <2>9, OtherBuild DEF BuildInv
    <2>11. Work(b)'  BY <1>0, <1>1, <1>2, <1>4, <2>8 DEF Work, Paths, RunSteps, CopySteps,
                        FinalSteps
    <2>12. Devices(b)'  BY <1>0, <1>1, <1>2, <1>4, <2>8 DEF Devices, HasOrigin, HasSnap
    <2>13. Returned(b)'  BY <1>0, <1>1, <1>2, <1>4, <2>8 DEF Returned, HasOrigin, HasSnap,
                            HasLoops
    <2>14. Image(b)'  BY <1>0, <1>1, <1>2, <1>4, <2>8 DEF Image, Hashed, Keyed, Ended, Types,
                         ImageDir
    <2>. QED  BY <2>7, <2>10, <2>11, <2>12, <2>13, <2>14 DEF BuildInv, Build
  <1>5. CASE /\ st' = [st EXCEPT ![b] = "failed"]
             /\ UNCHANGED <<prog, pc, root, err, extr, name, sqfs, ext4, inj, origin, snap, mounted,
                           loops, vm, initram, chSock, tpmSock, pcr, child, keyDir, keyPub,
                           keySec, out, spoiled, alone>>
    <2>1. chSock' \in Owner /\ tpmSock' \in Owner /\ pcr' \in [Builds -> SUBSET Builds]
          /\ child' \in [Builds -> BOOLEAN] /\ keyDir' \in BOOLEAN
          /\ keyPub' \in Owner /\ keySec' \in Owner
      BY <1>0, <1>5 DEF Types
    <2>2. "failed" \in Steps  BY DEF Steps, RunSteps, FinalSteps, Ended
    <2>. QED
      BY <1>1, <1>5, <2>1, <2>2, MoveKeeps
      DEF HasOrigin, HasLoops, Hashed, Keyed, Ended
  <1>. QED  BY <1>3, <1>4, <1>5 DEF FinalizeHash, Goto, measVars, keyVars, finalFrame,
                                    fileVars, devVars

\* Starting the measuring vTPM keeps the invariant.
LEMMA MeasureVtpmKeeps ==
    ASSUME BuildInv, NEW b \in Builds, MeasureVtpm(b)
    PROVE  BuildInv'
  <1>. USE BuildAssumption
  <1>0. Types /\ Build(b) /\ Work(b) /\ Devices(b) /\ Returned(b) /\ Image(b)
    BY DEF BuildInv, Build
  <1>1. st[b] = "vtpm"  BY DEF MeasureVtpm
  <1>2. root[b] \in Paths
    BY <1>0, <1>1 DEF Types, Work, RunSteps, CopySteps, FinalSteps
  <1>3. CASE /\ tpmSock' = b /\ st' = [st EXCEPT ![b] = "hyper"]
             /\ UNCHANGED <<prog, pc, root, err, extr, name, sqfs, ext4, inj, origin, snap, mounted,
                           loops, vm, initram, chSock, pcr, child, keyDir, keyPub, keySec,
                           out, spoiled, alone>>
    <2>1. tpmSock' \in Owner  BY <1>0, <1>1, <1>2, <1>3 DEF Types, Owner
    <2>2. chSock' \in Owner /\ pcr' \in [Builds -> SUBSET Builds] /\ child' \in [Builds -> BOOLEAN]
          /\ keyDir' \in BOOLEAN /\ keyPub' \in Owner /\ keySec' \in Owner
      BY <1>0, <1>3 DEF Types
    <2>3. "hyper" \in Steps  BY DEF Steps, RunSteps, FinalSteps, Ended
    <2>. QED
      BY <1>1, <1>3, <2>1, <2>2, <2>3, MoveKeeps
      DEF HasOrigin, HasLoops, Hashed, Keyed, Ended
  <1>4. CASE /\ st' = [st EXCEPT ![b] = "failed"]
             /\ UNCHANGED <<prog, pc, root, err, extr, name, sqfs, ext4, inj, origin, snap, mounted,
                           loops, vm, initram, chSock, tpmSock, pcr, child, keyDir, keyPub,
                           keySec, out, spoiled, alone>>
    <2>1. chSock' \in Owner /\ tpmSock' \in Owner /\ pcr' \in [Builds -> SUBSET Builds]
          /\ child' \in [Builds -> BOOLEAN] /\ keyDir' \in BOOLEAN
          /\ keyPub' \in Owner /\ keySec' \in Owner
      BY <1>0, <1>4 DEF Types
    <2>2. "failed" \in Steps  BY DEF Steps, RunSteps, FinalSteps, Ended
    <2>. QED
      BY <1>1, <1>4, <2>1, <2>2, MoveKeeps
      DEF HasOrigin, HasLoops, Hashed, Keyed, Ended
  <1>5. CASE /\ tpmSock' = None /\ st' = [st EXCEPT ![b] = "failed"]
             /\ UNCHANGED <<prog, pc, root, err, extr, name, sqfs, ext4, inj, origin, snap, mounted,
                           loops, vm, initram, chSock, pcr, child, keyDir, keyPub, keySec,
                           out, spoiled, alone>>
    <2>1. tpmSock' \in Owner  BY <1>0, <1>1, <1>2, <1>5 DEF Types, Owner
    <2>2. chSock' \in Owner /\ pcr' \in [Builds -> SUBSET Builds] /\ child' \in [Builds -> BOOLEAN]
          /\ keyDir' \in BOOLEAN /\ keyPub' \in Owner /\ keySec' \in Owner
      BY <1>0, <1>5 DEF Types
    <2>3. "failed" \in Steps  BY DEF Steps, RunSteps, FinalSteps, Ended
    <2>. QED
      BY <1>1, <1>5, <2>1, <2>2, <2>3, MoveKeeps
      DEF HasOrigin, HasLoops, Hashed, Keyed, Ended
  <1>. QED  BY <1>3, <1>4, <1>5 DEF MeasureVtpm, Goto, keyVars, finalFrame, fileVars, devVars

\* Starting the measuring hypervisor keeps the invariant.
LEMMA MeasureSpawnKeeps ==
    ASSUME BuildInv, NEW b \in Builds, MeasureSpawn(b)
    PROVE  BuildInv'
  <1>. USE BuildAssumption
  <1>0. Types /\ Build(b) /\ Work(b) /\ Devices(b) /\ Returned(b) /\ Image(b)
    BY DEF BuildInv, Build
  <1>1. st[b] = "hyper"  BY DEF MeasureSpawn
  <1>2. root[b] \in Paths
    BY <1>0, <1>1 DEF Types, Work, RunSteps, CopySteps, FinalSteps
  <1>3. CASE /\ child' = [child EXCEPT ![b] = (chSock = None)]
             /\ st' = [st EXCEPT ![b] = "socket"]
             /\ UNCHANGED <<prog, pc, root, err, extr, name, sqfs, ext4, inj, origin, snap, mounted,
                           loops, vm, initram, chSock, tpmSock, pcr, keyDir, keyPub, keySec,
                           out, spoiled, alone>>
    <2>1. (chSock = None) \in BOOLEAN  BY <1>0, <1>1, <1>2, <1>3 DEF Types
    <2>2. child' \in [Builds -> BOOLEAN]  BY <1>0, <1>3, <2>1, TableType DEF Types
    <2>3. chSock' \in Owner /\ tpmSock' \in Owner /\ pcr' \in [Builds -> SUBSET Builds]
          /\ keyDir' \in BOOLEAN /\ keyPub' \in Owner /\ keySec' \in Owner
      BY <1>0, <1>3 DEF Types
    <2>4. "socket" \in Steps  BY DEF Steps, RunSteps, FinalSteps, Ended
    <2>. QED
      BY <1>1, <1>3, <2>2, <2>3, <2>4, MoveKeeps
      DEF HasOrigin, HasLoops, Hashed, Keyed, Ended
  <1>4. CASE /\ st' = [st EXCEPT ![b] = "failed"]
             /\ UNCHANGED <<prog, pc, root, err, extr, name, sqfs, ext4, inj, origin, snap, mounted,
                           loops, vm, initram, chSock, tpmSock, pcr, child, keyDir, keyPub,
                           keySec, out, spoiled, alone>>
    <2>1. chSock' \in Owner /\ tpmSock' \in Owner /\ pcr' \in [Builds -> SUBSET Builds]
          /\ child' \in [Builds -> BOOLEAN] /\ keyDir' \in BOOLEAN
          /\ keyPub' \in Owner /\ keySec' \in Owner
      BY <1>0, <1>4 DEF Types
    <2>2. "failed" \in Steps  BY DEF Steps, RunSteps, FinalSteps, Ended
    <2>. QED
      BY <1>1, <1>4, <2>1, <2>2, MoveKeeps
      DEF HasOrigin, HasLoops, Hashed, Keyed, Ended
  <1>. QED  BY <1>3, <1>4 DEF MeasureSpawn, Goto, keyVars, finalFrame, fileVars, devVars

\* A hypervisor that listens, or gives up, keeps the invariant.
LEMMA HypervisorListensKeeps ==
    ASSUME BuildInv, NEW b \in Builds, HypervisorListens(b)
    PROVE  BuildInv'
  <1>. USE BuildAssumption
  <1>0. Types /\ Build(b) /\ Work(b) /\ Devices(b) /\ Returned(b) /\ Image(b)
    BY DEF BuildInv, Build
  <1>1. st[b] = "socket"  BY DEF HypervisorListens
  <1>2. root[b] \in Paths
    BY <1>0, <1>1 DEF Types, Work, RunSteps, CopySteps, FinalSteps
  <1>3. CASE /\ chSock' = b
             /\ UNCHANGED <<prog, pc, st, root, err, extr, name, sqfs, ext4, inj, origin, snap,
                           mounted, loops, vm, initram, tpmSock, pcr, child, keyDir, keyPub,
                           keySec, out, spoiled, alone>>
    <2>1. chSock' \in Owner  BY <1>0, <1>1, <1>2, <1>3 DEF Types, Owner
    <2>2. Types'  BY <1>0, <1>3, <2>1 DEF Types
    <2>3. \A c \in Builds \ {b} : Build(c)'
      BY <1>3, OtherBuild DEF BuildInv
    <2>4. Work(b)'  BY <1>0, <1>1, <1>2, <1>3 DEF Work, Paths, RunSteps, CopySteps, FinalSteps
    <2>5. Devices(b)'  BY <1>0, <1>1, <1>2, <1>3 DEF Devices, HasOrigin, HasSnap
    <2>6. Returned(b)'  BY <1>0, <1>1, <1>2, <1>3 DEF Returned, HasOrigin, HasSnap, HasLoops
    <2>7. Image(b)'  BY <1>0, <1>1, <1>2, <1>3 DEF Image, Hashed, Keyed, Ended
    <2>. QED  BY <2>2, <2>3, <2>4, <2>5, <2>6, <2>7 DEF BuildInv, Build
  <1>4. CASE /\ child' = [child EXCEPT ![b] = FALSE]
             /\ UNCHANGED <<prog, pc, st, root, err, extr, name, sqfs, ext4, inj, origin, snap,
                           mounted, loops, vm, initram, chSock, tpmSock, pcr, keyDir, keyPub,
                           keySec, out, spoiled, alone>>
    <2>1. FALSE \in BOOLEAN  BY <1>0, <1>1, <1>2, <1>4 DEF Types
    <2>2. child' \in [Builds -> BOOLEAN]  BY <1>0, <1>4, <2>1, TableType DEF Types
    <2>3. Types'  BY <1>0, <1>4, <2>2 DEF Types
    <2>4. child'[b] = FALSE
      BY <1>0, <1>4, TableEntry DEF Types
    <2>5. \A c \in Builds \ {b} : child'[c] = child[c]
      BY <1>0, <1>4, TableEntry DEF Types
    <2>6. \A c \in Builds \ {b} : Build(c)'
      BY <1>4, <2>5, OtherBuild DEF BuildInv
    <2>7. Work(b)'  BY <1>0, <1>1, <1>2, <1>4, <2>4 DEF Work, Paths, RunSteps, CopySteps,
                       FinalSteps
    <2>8. Devices(b)'  BY <1>0, <1>1, <1>2, <1>4, <2>4 DEF Devices, HasOrigin, HasSnap
    <2>9. Returned(b)'  BY <1>0, <1>1, <1>2, <1>4, <2>4 DEF Returned, HasOrigin, HasSnap,
                           HasLoops
    <2>10. Image(b)'  BY <1>0, <1>1, <1>2, <1>4, <2>4 DEF Image, Hashed, Keyed, Ended
    <2>. QED  BY <2>3, <2>6, <2>7, <2>8, <2>9, <2>10 DEF BuildInv, Build
  <1>. QED  BY <1>3, <1>4 DEF HypervisorListens, keyVars, finalFrame, fileVars, devVars

\* The wait for the socket keeps the invariant.
LEMMA MeasureSocketKeeps ==
    ASSUME BuildInv, NEW b \in Builds, MeasureSocket(b)
    PROVE  BuildInv'
  <1>. USE BuildAssumption
  <1>0. Types /\ Build(b) /\ Work(b) /\ Devices(b) /\ Returned(b) /\ Image(b)
    BY DEF BuildInv, Build
  <1>1. st[b] = "socket"  BY DEF MeasureSocket
  <1>2. root[b] \in Paths
    BY <1>0, <1>1 DEF Types, Work, RunSteps, CopySteps, FinalSteps
  <1>3. CASE /\ st' = [st EXCEPT ![b] = "boot"]
             /\ UNCHANGED <<prog, pc, root, err, extr, name, sqfs, ext4, inj, origin, snap, mounted,
                           loops, vm, initram, chSock, tpmSock, pcr, child, keyDir, keyPub,
                           keySec, out, spoiled, alone>>
    <2>1. chSock' \in Owner /\ tpmSock' \in Owner /\ pcr' \in [Builds -> SUBSET Builds]
          /\ child' \in [Builds -> BOOLEAN] /\ keyDir' \in BOOLEAN
          /\ keyPub' \in Owner /\ keySec' \in Owner
      BY <1>0, <1>3 DEF Types
    <2>2. "boot" \in Steps  BY DEF Steps, RunSteps, FinalSteps, Ended
    <2>. QED
      BY <1>1, <1>3, <2>1, <2>2, MoveKeeps
      DEF HasOrigin, HasLoops, Hashed, Keyed, Ended
  <1>4. CASE /\ child' = [child EXCEPT ![b] = FALSE] /\ st' = [st EXCEPT ![b] = "failed"]
             /\ UNCHANGED <<prog, pc, root, err, extr, name, sqfs, ext4, inj, origin, snap, mounted,
                           loops, vm, initram, chSock, tpmSock, pcr, keyDir, keyPub, keySec,
                           out, spoiled, alone>>
    <2>1. FALSE \in BOOLEAN  BY <1>0, <1>1, <1>2, <1>4 DEF Types
    <2>2. child' \in [Builds -> BOOLEAN]  BY <1>0, <1>4, <2>1, TableType DEF Types
    <2>3. chSock' \in Owner /\ tpmSock' \in Owner /\ pcr' \in [Builds -> SUBSET Builds]
          /\ keyDir' \in BOOLEAN /\ keyPub' \in Owner /\ keySec' \in Owner
      BY <1>0, <1>4 DEF Types
    <2>4. "failed" \in Steps  BY DEF Steps, RunSteps, FinalSteps, Ended
    <2>. QED
      BY <1>1, <1>4, <2>2, <2>3, <2>4, MoveKeeps
      DEF HasOrigin, HasLoops, Hashed, Keyed, Ended
  <1>. QED  BY <1>3, <1>4 DEF MeasureSocket, Goto, keyVars, finalFrame, fileVars, devVars

\* The measured boot keeps the invariant.
LEMMA MeasureBootKeeps ==
    ASSUME BuildInv, NEW b \in Builds, MeasureBoot(b)
    PROVE  BuildInv'
  <1>. USE BuildAssumption
  <1>0. Types /\ Build(b) /\ Work(b) /\ Devices(b) /\ Returned(b) /\ Image(b)
    BY DEF BuildInv, Build
  <1>1. st[b] = "boot"  BY DEF MeasureBoot
  <1>2. root[b] \in Paths
    BY <1>0, <1>1 DEF Types, Work, RunSteps, CopySteps, FinalSteps
  <1>3. CASE /\ tpmSock # None /\ pcr' = [pcr EXCEPT ![tpmSock] = pcr[tpmSock] \cup {b}]
             /\ st' = [st EXCEPT ![b] = "read"]
             /\ UNCHANGED <<prog, pc, root, err, extr, name, sqfs, ext4, inj, origin, snap, mounted,
                           loops, vm, initram, chSock, tpmSock, child, keyDir, keyPub, keySec,
                           out, spoiled, alone>>
    <2>1. tpmSock \in Builds  BY <1>0, <1>3 DEF Types, Owner
    <2>2. pcr[tpmSock] \cup {b} \in SUBSET Builds  BY <1>0, <2>1 DEF Types
    <2>3. pcr' \in [Builds -> SUBSET Builds]  BY <1>0, <1>3, <2>2, TableType DEF Types
    <2>4. chSock' \in Owner /\ tpmSock' \in Owner /\ child' \in [Builds -> BOOLEAN]
          /\ keyDir' \in BOOLEAN /\ keyPub' \in Owner /\ keySec' \in Owner
      BY <1>0, <1>3 DEF Types
    <2>5. "read" \in Steps  BY DEF Steps, RunSteps, FinalSteps, Ended
    <2>. QED
      BY <1>1, <1>3, <2>3, <2>4, <2>5, MoveKeeps
      DEF HasOrigin, HasLoops, Hashed, Keyed, Ended
  <1>4. CASE /\ st' = [st EXCEPT ![b] = "read"]
             /\ UNCHANGED <<prog, pc, root, err, extr, name, sqfs, ext4, inj, origin, snap, mounted,
                           loops, vm, initram, chSock, tpmSock, pcr, child, keyDir, keyPub,
                           keySec, out, spoiled, alone>>
    <2>1. chSock' \in Owner /\ tpmSock' \in Owner /\ pcr' \in [Builds -> SUBSET Builds]
          /\ child' \in [Builds -> BOOLEAN] /\ keyDir' \in BOOLEAN
          /\ keyPub' \in Owner /\ keySec' \in Owner
      BY <1>0, <1>4 DEF Types
    <2>2. "read" \in Steps  BY DEF Steps, RunSteps, FinalSteps, Ended
    <2>. QED
      BY <1>1, <1>4, <2>1, <2>2, MoveKeeps
      DEF HasOrigin, HasLoops, Hashed, Keyed, Ended
  <1>. QED  BY <1>3, <1>4 DEF MeasureBoot, Goto, keyVars, finalFrame, fileVars, devVars

\* Reading the PCRs keeps the invariant.
LEMMA MeasureReadKeeps ==
    ASSUME BuildInv, NEW b \in Builds, MeasureRead(b)
    PROVE  BuildInv'
  <1>. USE BuildAssumption
  <1>0. Types /\ Build(b) /\ Work(b) /\ Devices(b) /\ Returned(b) /\ Image(b)
    BY DEF BuildInv, Build
  <1>1. st[b] = "read"  BY DEF MeasureRead
  <1>2. root[b] \in Paths
    BY <1>0, <1>1 DEF Types, Work, RunSteps, CopySteps, FinalSteps
  <1>3. CASE /\ out' = [out EXCEPT ![b] = [out[b] EXCEPT !.pcrs = pcr[b]]]
             /\ child' = [child EXCEPT ![b] = FALSE]
             /\ tpmSock' = (IF tpmSock = b THEN None ELSE tpmSock) /\ chSock' = None
             /\ st' = [st EXCEPT ![b] = "manifest"]
             /\ UNCHANGED <<prog, pc, root, err, extr, name, sqfs, ext4, inj, origin, snap, mounted,
                           loops, vm, initram, pcr, keyDir, keyPub, keySec, spoiled, alone>>
    <2>1. out[b] \in ImageDir  BY <1>0 DEF Types
    <2>2. pcr[b] \in SUBSET Builds  BY <1>0, <1>2, <2>1, ImageType DEF Types, Files, Owner
    <2>3. [out[b] EXCEPT !.pcrs = pcr[b]] \in ImageDir  BY <2>1, <2>2, ImageType
    <2>4. out' \in [Builds -> ImageDir]  BY <1>0, <1>3, <2>3, TableType DEF Types
    <2>5. FALSE \in BOOLEAN  BY <1>0, <1>1, <1>2, <1>3 DEF Types
    <2>6. child' \in [Builds -> BOOLEAN]  BY <1>0, <1>3, <2>5, TableType DEF Types
    <2>7. tpmSock' \in Owner  BY <1>0, <1>1, <1>2, <1>3 DEF Types, Owner
    <2>8. chSock' \in Owner  BY <1>0, <1>1, <1>2, <1>3 DEF Types, Owner
    <2>9. "manifest" \in Steps  BY <1>0, <1>1, <1>2, <1>3 DEF Steps, RunSteps, CopySteps,
                                   FinalSteps, Ended
    <2>10. st' \in [Builds -> Steps]  BY <1>0, <1>3, <2>9, TableType DEF Types
    <2>11. Types'  BY <1>0, <1>3, <2>4, <2>6, <2>7, <2>8, <2>10 DEF Types
    <2>12. out'[b] = [out[b] EXCEPT !.pcrs = pcr[b]] /\ child'[b] = FALSE /\ st'[b] = "manifest"
      BY <1>0, <1>3, TableEntry DEF Types
    <2>13. \A c \in Builds \ {b} : out'[c] = out[c] /\ child'[c] = child[c] /\ st'[c] = st[c]
      BY <1>0, <1>3, TableEntry DEF Types
    <2>14. \A c \in Builds \ {b} : Build(c)'
      BY <1>3, <2>13, OtherBuild DEF BuildInv
    <2>15. Work(b)'  BY <1>0, <1>1, <1>2, <1>3, <2>12 DEF Work, Paths, RunSteps, CopySteps,
                        FinalSteps
    <2>16. Devices(b)'  BY <1>0, <1>1, <1>2, <1>3, <2>12 DEF Devices, HasOrigin, HasSnap
    <2>17. Returned(b)'  BY <1>0, <1>1, <1>2, <1>3, <2>12 DEF Returned, HasOrigin, HasSnap,
                            HasLoops
    <2>18. Image(b)'  BY <1>0, <1>1, <1>2, <1>3, <2>12 DEF Image, Hashed, Keyed, Ended, Types,
                         ImageDir
    <2>. QED  BY <2>11, <2>14, <2>15, <2>16, <2>17, <2>18 DEF BuildInv, Build
  <1>4. CASE /\ st' = [st EXCEPT ![b] = "failed"]
             /\ UNCHANGED <<prog, pc, root, err, extr, name, sqfs, ext4, inj, origin, snap, mounted,
                           loops, vm, initram, chSock, tpmSock, pcr, child, keyDir, keyPub,
                           keySec, out, spoiled, alone>>
    <2>1. chSock' \in Owner /\ tpmSock' \in Owner /\ pcr' \in [Builds -> SUBSET Builds]
          /\ child' \in [Builds -> BOOLEAN] /\ keyDir' \in BOOLEAN
          /\ keyPub' \in Owner /\ keySec' \in Owner
      BY <1>0, <1>4 DEF Types
    <2>2. "failed" \in Steps  BY DEF Steps, RunSteps, FinalSteps, Ended
    <2>. QED
      BY <1>1, <1>4, <2>1, <2>2, MoveKeeps
      DEF HasOrigin, HasLoops, Hashed, Keyed, Ended
  <1>. QED  BY <1>3, <1>4 DEF MeasureRead, Goto, keyVars, finalFrame, fileVars, devVars

\* Writing the manifest keeps the invariant.
LEMMA FinalizeManifestKeeps ==
    ASSUME BuildInv, NEW b \in Builds, FinalizeManifest(b)
    PROVE  BuildInv'
  <1>. USE BuildAssumption
  <1>0. Types /\ Build(b) /\ Work(b) /\ Devices(b) /\ Returned(b) /\ Image(b)
    BY DEF BuildInv, Build
  <1>1. st[b] = "manifest"  BY DEF FinalizeManifest
  <1>2. root[b] \in Paths
    BY <1>0, <1>1 DEF Types, Work, RunSteps, CopySteps, FinalSteps
  <1>3. CASE /\ out' = [out EXCEPT ![b] = [out[b] EXCEPT !.manifest = TRUE]]
             /\ st' = [st EXCEPT ![b] = "key"]
             /\ UNCHANGED <<prog, pc, root, err, extr, name, sqfs, ext4, inj, origin, snap, mounted,
                           loops, vm, initram, chSock, tpmSock, pcr, child, keyDir, keyPub,
                           keySec, spoiled, alone>>
    <2>1. out[b] \in ImageDir  BY <1>0 DEF Types
    <2>2. [out[b] EXCEPT !.manifest = TRUE] \in ImageDir  BY <2>1, ImageType
    <2>3. out' \in [Builds -> ImageDir]  BY <1>0, <1>3, <2>2, TableType DEF Types
    <2>4. "key" \in Steps  BY <1>0, <1>1, <1>2, <1>3 DEF Steps, RunSteps, CopySteps,
                              FinalSteps, Ended
    <2>5. st' \in [Builds -> Steps]  BY <1>0, <1>3, <2>4, TableType DEF Types
    <2>6. Types'  BY <1>0, <1>3, <2>3, <2>5 DEF Types
    <2>7. out'[b] = [out[b] EXCEPT !.manifest = TRUE] /\ st'[b] = "key"
      BY <1>0, <1>3, TableEntry DEF Types
    <2>8. \A c \in Builds \ {b} : out'[c] = out[c] /\ st'[c] = st[c]
      BY <1>0, <1>3, TableEntry DEF Types
    <2>9. \A c \in Builds \ {b} : Build(c)'
      BY <1>3, <2>8, OtherBuild DEF BuildInv
    <2>10. Work(b)'  BY <1>0, <1>1, <1>2, <1>3, <2>7 DEF Work, Paths, RunSteps, CopySteps,
                        FinalSteps
    <2>11. Devices(b)'  BY <1>0, <1>1, <1>2, <1>3, <2>7 DEF Devices, HasOrigin, HasSnap
    <2>12. Returned(b)'  BY <1>0, <1>1, <1>2, <1>3, <2>7 DEF Returned, HasOrigin, HasSnap,
                            HasLoops
    <2>13. Image(b)'  BY <1>0, <1>1, <1>2, <1>3, <2>7 DEF Image, Hashed, Keyed, Ended, Types,
                         ImageDir
    <2>. QED  BY <2>6, <2>9, <2>10, <2>11, <2>12, <2>13 DEF BuildInv, Build
  <1>4. CASE /\ st' = [st EXCEPT ![b] = "failed"]
             /\ UNCHANGED <<prog, pc, root, err, extr, name, sqfs, ext4, inj, origin, snap, mounted,
                           loops, vm, initram, chSock, tpmSock, pcr, child, keyDir, keyPub,
                           keySec, out, spoiled, alone>>
    <2>1. chSock' \in Owner /\ tpmSock' \in Owner /\ pcr' \in [Builds -> SUBSET Builds]
          /\ child' \in [Builds -> BOOLEAN] /\ keyDir' \in BOOLEAN
          /\ keyPub' \in Owner /\ keySec' \in Owner
      BY <1>0, <1>4 DEF Types
    <2>2. "failed" \in Steps  BY DEF Steps, RunSteps, FinalSteps, Ended
    <2>. QED
      BY <1>1, <1>4, <2>1, <2>2, MoveKeeps
      DEF HasOrigin, HasLoops, Hashed, Keyed, Ended
  <1>. QED  BY <1>3, <1>4 DEF FinalizeManifest, Goto, measVars, keyVars, finalFrame, fileVars,
                              devVars

\* Looking for the key keeps the invariant.
LEMMA ResolveKeyKeeps ==
    ASSUME BuildInv, NEW b \in Builds, ResolveKey(b)
    PROVE  BuildInv'
  <1>. USE BuildAssumption
  <1>0. Types /\ Build(b) /\ Work(b) /\ Devices(b) /\ Returned(b) /\ Image(b)
    BY DEF BuildInv, Build
  <1>1. st[b] = "key"  BY DEF ResolveKey
  <1>2. root[b] \in Paths
    BY <1>0, <1>1 DEF Types, Work, RunSteps, CopySteps, FinalSteps
  <1>3. CASE /\ out' = [out EXCEPT ![b] = [out[b] EXCEPT !.seed = keySec, !.pub = keyPub]]
             /\ st' = [st EXCEPT ![b] = "done"]
             /\ UNCHANGED <<prog, pc, root, err, extr, name, sqfs, ext4, inj, origin, snap, mounted,
                           loops, vm, initram, chSock, tpmSock, pcr, child, keyDir, keyPub,
                           keySec, spoiled, alone>>
    <2>1. out[b] \in ImageDir  BY <1>0 DEF Types
    <2>2. keySec \in Owner /\ keyPub \in Owner  BY <1>0, <1>2, <2>1, ImageType
                                                   DEF Types, Files, Owner
    <2>3. [out[b] EXCEPT !.seed = keySec, !.pub = keyPub] \in ImageDir
      BY <2>1, <2>2,  ImageType
    <2>4. out' \in [Builds -> ImageDir]  BY <1>0, <1>3, <2>3, TableType DEF Types
    <2>5. "done" \in Steps  BY <1>0, <1>1, <1>2, <1>3 DEF Steps, RunSteps, CopySteps,
                               FinalSteps, Ended
    <2>6. st' \in [Builds -> Steps]  BY <1>0, <1>3, <2>5, TableType DEF Types
    <2>7. Types'  BY <1>0, <1>3, <2>4, <2>6 DEF Types
    <2>8. out'[b] = [out[b] EXCEPT !.seed = keySec, !.pub = keyPub] /\ st'[b] = "done"
      BY <1>0, <1>3, TableEntry DEF Types
    <2>9. \A c \in Builds \ {b} : out'[c] = out[c] /\ st'[c] = st[c]
      BY <1>0, <1>3, TableEntry DEF Types
    <2>10. \A c \in Builds \ {b} : Build(c)'
      BY <1>3, <2>9, OtherBuild DEF BuildInv
    <2>11. Work(b)'  BY <1>0, <1>1, <1>2, <1>3, <2>8 DEF Work, Paths, RunSteps, CopySteps,
                        FinalSteps
    <2>12. Devices(b)'  BY <1>0, <1>1, <1>2, <1>3, <2>8 DEF Devices, HasOrigin, HasSnap
    <2>13. Returned(b)'  BY <1>0, <1>1, <1>2, <1>3, <2>8 DEF Returned, HasOrigin, HasSnap,
                            HasLoops
    <2>14. Image(b)'  BY <1>0, <1>1, <1>2, <1>3, <2>8 DEF Image, Hashed, Keyed, Ended, Types,
                         ImageDir
    <2>. QED  BY <2>7, <2>10, <2>11, <2>12, <2>13, <2>14 DEF BuildInv, Build
  <1>4. CASE /\ st' = [st EXCEPT ![b] = "failed"]
             /\ UNCHANGED <<prog, pc, root, err, extr, name, sqfs, ext4, inj, origin, snap, mounted,
                           loops, vm, initram, chSock, tpmSock, pcr, child, keyDir, keyPub,
                           keySec, out, spoiled, alone>>
    <2>1. chSock' \in Owner /\ tpmSock' \in Owner /\ pcr' \in [Builds -> SUBSET Builds]
          /\ child' \in [Builds -> BOOLEAN] /\ keyDir' \in BOOLEAN
          /\ keyPub' \in Owner /\ keySec' \in Owner
      BY <1>0, <1>4 DEF Types
    <2>2. "failed" \in Steps  BY DEF Steps, RunSteps, FinalSteps, Ended
    <2>. QED
      BY <1>1, <1>4, <2>1, <2>2, MoveKeeps
      DEF HasOrigin, HasLoops, Hashed, Keyed, Ended
  <1>5. CASE /\ st' = [st EXCEPT ![b] = "mkdir"]
             /\ UNCHANGED <<prog, pc, root, err, extr, name, sqfs, ext4, inj, origin, snap, mounted,
                           loops, vm, initram, chSock, tpmSock, pcr, child, keyDir, keyPub,
                           keySec, out, spoiled, alone>>
    <2>1. chSock' \in Owner /\ tpmSock' \in Owner /\ pcr' \in [Builds -> SUBSET Builds]
          /\ child' \in [Builds -> BOOLEAN] /\ keyDir' \in BOOLEAN
          /\ keyPub' \in Owner /\ keySec' \in Owner
      BY <1>0, <1>5 DEF Types
    <2>2. "mkdir" \in Steps  BY DEF Steps, RunSteps, FinalSteps, Ended
    <2>. QED
      BY <1>1, <1>5, <2>1, <2>2, MoveKeeps
      DEF HasOrigin, HasLoops, Hashed, Keyed, Ended
  <1>6. CASE /\ st' = [st EXCEPT ![b] = "done"]
             /\ UNCHANGED <<prog, pc, root, err, extr, name, sqfs, ext4, inj, origin, snap, mounted,
                           loops, vm, initram, chSock, tpmSock, pcr, child, keyDir, keyPub,
                           keySec, out, spoiled, alone>>
    <2>1. chSock' \in Owner /\ tpmSock' \in Owner /\ pcr' \in [Builds -> SUBSET Builds]
          /\ child' \in [Builds -> BOOLEAN] /\ keyDir' \in BOOLEAN
          /\ keyPub' \in Owner /\ keySec' \in Owner
      BY <1>0, <1>6 DEF Types
    <2>2. "done" \in Steps  BY DEF Steps, RunSteps, FinalSteps, Ended
    <2>. QED
      BY <1>1, <1>6, <2>1, <2>2, MoveKeeps
      DEF HasOrigin, HasLoops, Hashed, Keyed, Ended
  <1>. QED  BY <1>3, <1>4, <1>5, <1>6 DEF ResolveKey, Signed, Goto, measVars, keyVars,
                                          finalFrame, fileVars, devVars

\* Making the directory of keys keeps the invariant.
LEMMA MakeKeyDirKeeps ==
    ASSUME BuildInv, NEW b \in Builds, MakeKeyDir(b)
    PROVE  BuildInv'
  <1>. USE BuildAssumption
  <1>0. Types /\ Build(b) /\ Work(b) /\ Devices(b) /\ Returned(b) /\ Image(b)
    BY DEF BuildInv, Build
  <1>1. st[b] = "mkdir"  BY DEF MakeKeyDir
  <1>2. root[b] \in Paths
    BY <1>0, <1>1 DEF Types, Work, RunSteps, CopySteps, FinalSteps
  <1>3. CASE /\ keyDir' = TRUE /\ st' = [st EXCEPT ![b] = "pub"]
             /\ UNCHANGED <<prog, pc, root, err, extr, name, sqfs, ext4, inj, origin, snap, mounted,
                           loops, vm, initram, chSock, tpmSock, pcr, child, keyPub, keySec,
                           out, spoiled, alone>>
    <2>1. keyDir' \in BOOLEAN  BY <1>0, <1>1, <1>2, <1>3 DEF Types
    <2>2. chSock' \in Owner /\ tpmSock' \in Owner /\ pcr' \in [Builds -> SUBSET Builds]
          /\ child' \in [Builds -> BOOLEAN] /\ keyPub' \in Owner /\ keySec' \in Owner
      BY <1>0, <1>3 DEF Types
    <2>3. "pub" \in Steps  BY DEF Steps, RunSteps, FinalSteps, Ended
    <2>. QED
      BY <1>1, <1>3, <2>1, <2>2, <2>3, MoveKeeps
      DEF HasOrigin, HasLoops, Hashed, Keyed, Ended
  <1>4. CASE /\ st' = [st EXCEPT ![b] = "failed"]
             /\ UNCHANGED <<prog, pc, root, err, extr, name, sqfs, ext4, inj, origin, snap, mounted,
                           loops, vm, initram, chSock, tpmSock, pcr, child, keyDir, keyPub,
                           keySec, out, spoiled, alone>>
    <2>1. chSock' \in Owner /\ tpmSock' \in Owner /\ pcr' \in [Builds -> SUBSET Builds]
          /\ child' \in [Builds -> BOOLEAN] /\ keyDir' \in BOOLEAN
          /\ keyPub' \in Owner /\ keySec' \in Owner
      BY <1>0, <1>4 DEF Types
    <2>2. "failed" \in Steps  BY DEF Steps, RunSteps, FinalSteps, Ended
    <2>. QED
      BY <1>1, <1>4, <2>1, <2>2, MoveKeeps
      DEF HasOrigin, HasLoops, Hashed, Keyed, Ended
  <1>. QED  BY <1>3, <1>4 DEF MakeKeyDir, Goto, measVars, finalFrame, fileVars, devVars

\* Saving the public key keeps the invariant.
LEMMA SavePublicKeeps ==
    ASSUME BuildInv, NEW b \in Builds, SavePublic(b)
    PROVE  BuildInv'
  <1>. USE BuildAssumption
  <1>0. Types /\ Build(b) /\ Work(b) /\ Devices(b) /\ Returned(b) /\ Image(b)
    BY DEF BuildInv, Build
  <1>1. st[b] = "pub"  BY DEF SavePublic
  <1>2. root[b] \in Paths
    BY <1>0, <1>1 DEF Types, Work, RunSteps, CopySteps, FinalSteps
  <1>3. CASE /\ keyPub' = b /\ st' = [st EXCEPT ![b] = "sec"]
             /\ UNCHANGED <<prog, pc, root, err, extr, name, sqfs, ext4, inj, origin, snap, mounted,
                           loops, vm, initram, chSock, tpmSock, pcr, child, keyDir, keySec,
                           out, spoiled, alone>>
    <2>1. keyPub' \in Owner  BY <1>0, <1>1, <1>2, <1>3 DEF Types, Owner
    <2>2. chSock' \in Owner /\ tpmSock' \in Owner /\ pcr' \in [Builds -> SUBSET Builds]
          /\ child' \in [Builds -> BOOLEAN] /\ keyDir' \in BOOLEAN /\ keySec' \in Owner
      BY <1>0, <1>3 DEF Types
    <2>3. "sec" \in Steps  BY DEF Steps, RunSteps, FinalSteps, Ended
    <2>. QED
      BY <1>1, <1>3, <2>1, <2>2, <2>3, MoveKeeps
      DEF HasOrigin, HasLoops, Hashed, Keyed, Ended
  <1>4. CASE /\ st' = [st EXCEPT ![b] = "failed"]
             /\ UNCHANGED <<prog, pc, root, err, extr, name, sqfs, ext4, inj, origin, snap, mounted,
                           loops, vm, initram, chSock, tpmSock, pcr, child, keyDir, keyPub,
                           keySec, out, spoiled, alone>>
    <2>1. chSock' \in Owner /\ tpmSock' \in Owner /\ pcr' \in [Builds -> SUBSET Builds]
          /\ child' \in [Builds -> BOOLEAN] /\ keyDir' \in BOOLEAN
          /\ keyPub' \in Owner /\ keySec' \in Owner
      BY <1>0, <1>4 DEF Types
    <2>2. "failed" \in Steps  BY DEF Steps, RunSteps, FinalSteps, Ended
    <2>. QED
      BY <1>1, <1>4, <2>1, <2>2, MoveKeeps
      DEF HasOrigin, HasLoops, Hashed, Keyed, Ended
  <1>. QED  BY <1>3, <1>4 DEF SavePublic, Goto, measVars, finalFrame, fileVars, devVars

\* Saving the secret key keeps the invariant.
LEMMA SaveSecretKeeps ==
    ASSUME BuildInv, NEW b \in Builds, SaveSecret(b)
    PROVE  BuildInv'
  <1>. USE BuildAssumption
  <1>0. Types /\ Build(b) /\ Work(b) /\ Devices(b) /\ Returned(b) /\ Image(b)
    BY DEF BuildInv, Build
  <1>1. st[b] = "sec"  BY DEF SaveSecret
  <1>2. root[b] \in Paths
    BY <1>0, <1>1 DEF Types, Work, RunSteps, CopySteps, FinalSteps
  <1>3. CASE /\ keySec' = b
             /\ out' = [out EXCEPT ![b] = [out[b] EXCEPT !.seed = b, !.pub = b]]
             /\ st' = [st EXCEPT ![b] = "done"]
             /\ UNCHANGED <<prog, pc, root, err, extr, name, sqfs, ext4, inj, origin, snap, mounted,
                           loops, vm, initram, chSock, tpmSock, pcr, child, keyDir, keyPub,
                           spoiled, alone>>
    <2>1. keySec' \in Owner  BY <1>0, <1>1, <1>2, <1>3 DEF Types, Owner
    <2>2. out[b] \in ImageDir  BY <1>0 DEF Types
    <2>3. b \in Owner  BY <1>0, <1>2, <2>2, ImageType DEF Types, Files, Owner
    <2>4. [out[b] EXCEPT !.seed = b, !.pub = b] \in ImageDir  BY <2>2, <2>3, ImageType
    <2>5. out' \in [Builds -> ImageDir]  BY <1>0, <1>3, <2>4, TableType DEF Types
    <2>6. "done" \in Steps  BY <1>0, <1>1, <1>2, <1>3 DEF Steps, RunSteps, CopySteps,
                               FinalSteps, Ended
    <2>7. st' \in [Builds -> Steps]  BY <1>0, <1>3, <2>6, TableType DEF Types
    <2>8. Types'  BY <1>0, <1>3, <2>1, <2>5, <2>7 DEF Types
    <2>9. out'[b] = [out[b] EXCEPT !.seed = b, !.pub = b] /\ st'[b] = "done"
      BY <1>0, <1>3, TableEntry DEF Types
    <2>10. \A c \in Builds \ {b} : out'[c] = out[c] /\ st'[c] = st[c]
      BY <1>0, <1>3, TableEntry DEF Types
    <2>11. \A c \in Builds \ {b} : Build(c)'
      BY <1>3, <2>10, OtherBuild DEF BuildInv
    <2>12. Work(b)'  BY <1>0, <1>1, <1>2, <1>3, <2>9 DEF Work, Paths, RunSteps, CopySteps,
                        FinalSteps
    <2>13. Devices(b)'  BY <1>0, <1>1, <1>2, <1>3, <2>9 DEF Devices, HasOrigin, HasSnap
    <2>14. Returned(b)'  BY <1>0, <1>1, <1>2, <1>3, <2>9 DEF Returned, HasOrigin, HasSnap,
                            HasLoops
    <2>15. Image(b)'  BY <1>0, <1>1, <1>2, <1>3, <2>9 DEF Image, Hashed, Keyed, Ended, Types,
                         ImageDir
    <2>. QED  BY <2>8, <2>11, <2>12, <2>13, <2>14, <2>15 DEF BuildInv, Build
  <1>4. CASE /\ st' = [st EXCEPT ![b] = "failed"]
             /\ UNCHANGED <<prog, pc, root, err, extr, name, sqfs, ext4, inj, origin, snap, mounted,
                           loops, vm, initram, chSock, tpmSock, pcr, child, keyDir, keyPub,
                           keySec, out, spoiled, alone>>
    <2>1. chSock' \in Owner /\ tpmSock' \in Owner /\ pcr' \in [Builds -> SUBSET Builds]
          /\ child' \in [Builds -> BOOLEAN] /\ keyDir' \in BOOLEAN
          /\ keyPub' \in Owner /\ keySec' \in Owner
      BY <1>0, <1>4 DEF Types
    <2>2. "failed" \in Steps  BY DEF Steps, RunSteps, FinalSteps, Ended
    <2>. QED
      BY <1>1, <1>4, <2>1, <2>2, MoveKeeps
      DEF HasOrigin, HasLoops, Hashed, Keyed, Ended
  <1>. QED  BY <1>3, <1>4 DEF SaveSecret, Signed, Goto, measVars, finalFrame, fileVars, devVars

\* A client that goes keeps the invariant.
LEMMA CancelKeeps ==
    ASSUME BuildInv, NEW b \in Builds, Cancel(b)
    PROVE  BuildInv'
  <1>. USE BuildAssumption
  <1>0. Types /\ Build(b) /\ Work(b) /\ Devices(b) /\ Returned(b) /\ Image(b)
    BY DEF BuildInv, Build
  <1>1. st[b] \in {"vm", "socket", "boot", "read"}  BY DEF Cancel
  <1>2. root[b] \in Paths
    BY <1>0, <1>1 DEF Types, Work, RunSteps, CopySteps, FinalSteps
  <1>3. CASE /\ st' = [st EXCEPT ![b] = "cancelled"]
             /\ tpmSock' = (IF st[b] # "vm" /\ tpmSock = b THEN None ELSE tpmSock)
             /\ spoiled' = spoiled \cup {b}
             /\ UNCHANGED <<prog, pc, root, err, extr, name, sqfs, ext4, inj, origin, snap, mounted,
                           loops, vm, initram, chSock, pcr, child, keyDir, keyPub, keySec,
                           out, alone>>
    <2>1. "cancelled" \in Steps  BY <1>0, <1>1, <1>2, <1>3 DEF Steps, RunSteps, CopySteps,
                                    FinalSteps, Ended
    <2>2. st' \in [Builds -> Steps]  BY <1>0, <1>3, <2>1, TableType DEF Types
    <2>3. tpmSock' \in Owner  BY <1>0, <1>1, <1>2, <1>3 DEF Types, Owner
    <2>4. spoiled' \in SUBSET Builds  BY <1>0, <1>1, <1>2, <1>3 DEF Types
    <2>5. Types'  BY <1>0, <1>3, <2>2, <2>3, <2>4 DEF Types
    <2>6. st'[b] = "cancelled"
      BY <1>0, <1>3, TableEntry DEF Types
    <2>7. \A c \in Builds \ {b} : st'[c] = st[c]
      BY <1>0, <1>3, TableEntry DEF Types
    <2>8. \A c \in Builds \ {b} : Build(c)'
      BY <1>3, <2>7, OtherBuild DEF BuildInv
    <2>9. Work(b)'  BY <1>0, <1>1, <1>2, <1>3, <2>6 DEF Work, Paths, RunSteps, CopySteps,
                       FinalSteps
    <2>10. Devices(b)'  BY <1>0, <1>1, <1>2, <1>3, <2>6 DEF Devices, HasOrigin, HasSnap
    <2>11. Returned(b)'  BY <1>0, <1>1, <1>2, <1>3, <2>6 DEF Returned, HasOrigin, HasSnap,
                            HasLoops
    <2>12. Image(b)'  BY <1>0, <1>1, <1>2, <1>3, <2>6 DEF Image, Hashed, Keyed, Ended
    <2>. QED  BY <2>5, <2>8, <2>9, <2>10, <2>11, <2>12 DEF BuildInv, Build
  <1>. QED  BY <1>3 DEF Cancel, Goto, Spoil, fileVars, devVars, keyVars

\* A build VM that exits keeps the invariant.
LEMMA VmExitsKeeps ==
    ASSUME BuildInv, NEW b \in Builds, VmExits(b)
    PROVE  BuildInv'
  <1>. USE BuildAssumption
  <1>0. Types /\ Build(b) /\ Work(b) /\ Devices(b) /\ Returned(b) /\ Image(b)
    BY DEF BuildInv, Build
  <1>1. vm[b] # None  BY DEF VmExits
  <1>2. CASE /\ vm' = [vm EXCEPT ![b] = [vm[b] EXCEPT !.up = FALSE]]
             /\ UNCHANGED <<prog, pc, st, root, err, extr, name, sqfs, ext4, inj, origin, snap,
                           mounted, loops, initram, chSock, tpmSock, pcr, child, keyDir,
                           keyPub, keySec, out, spoiled, alone>>
    <2>1. vm[b] \in BuildVm  BY <1>0, <1>1 DEF Types
    <2>2. [vm[b] EXCEPT !.up = FALSE] \in BuildVm \cup {None}  BY <2>1 DEF BuildVm
    <2>3. vm' \in [Builds -> BuildVm \cup {None}]  BY <1>0, <1>2, <2>2, TableType DEF Types
    <2>4. Types'  BY <1>0, <1>2, <2>3 DEF Types
    <2>5. vm'[b] = [vm[b] EXCEPT !.up = FALSE]
      BY <1>0, <1>2, TableEntry DEF Types
    <2>6. \A c \in Builds \ {b} : vm'[c] = vm[c]
      BY <1>0, <1>2, TableEntry DEF Types
    <2>7. \A c \in Builds \ {b} : Build(c)'
      BY <1>2, <2>6, OtherBuild DEF BuildInv
    <2>8. Work(b)'  BY <1>0, <1>1, <1>2, <2>5, <2>1 DEF Work, Paths, RunSteps, CopySteps,
                       FinalSteps
    <2>9. Devices(b)'  BY <1>0, <1>1, <1>2, <2>5, <2>1 DEF Devices, HasOrigin, HasSnap, Types,
                          BuildVm
    <2>10. Returned(b)'  BY <1>0, <1>1, <1>2, <2>5 DEF Returned, HasOrigin, HasSnap, HasLoops
    <2>11. Image(b)'  BY <1>0, <1>1, <1>2, <2>5 DEF Image, Hashed, Keyed, Ended
    <2>. QED  BY <2>4, <2>7, <2>8, <2>9, <2>10, <2>11 DEF BuildInv, Build
  <1>. QED  BY <1>2 DEF VmExits, buildVars, fileVars, measVars, keyVars, histVars

-----------------------------------------------------------------------------
(* The invariant holds of every behaviour.                                  *)

\* The work directory before the first build satisfies the invariant.
LEMMA BuildInvInit == Init => BuildInv
  <1>. SUFFICES ASSUME Init PROVE BuildInv  OBVIOUS
  <1>. USE BuildAssumption
  <1>1. NoImage \in ImageDir
    <2>1. None \in Files /\ None \in Owner  BY DEF Files, Owner
    <2>2. None \in (SUBSET Builds) \cup {None}  OBVIOUS
    <2>. QED  BY <2>1, <2>2 DEF NoImage, ImageDir
  <1>2. sqfs \in [Paths -> Files]
    <2>1. {None, {}} \subseteq Files  BY DEF Files, Content
    <2>2. sqfs \in [Paths -> {None, {}}]  BY DEF Init
    <2>. QED  BY <2>1, <2>2
  <1>3. Types
    <2>1. prog \in [Builds -> Programs \cup {<<>>}] /\ pc \in [Builds -> Nat]
          /\ st \in [Builds -> Steps] /\ root \in [Builds -> Paths \cup {None}]
      BY DEF Init, Steps
    <2>2. /\ err \in [Builds -> BOOLEAN] /\ extr \in [Builds -> Files \ {Torn}]
          /\ name \in [Builds -> Names \cup {None}]
          /\ ext4 \in [Paths -> Files] /\ inj \in [Names -> Files]
      BY DEF Init, Files
    <2>3. /\ origin \in Owner /\ snap \in Owner /\ mounted \in BOOLEAN
          /\ initram \in Copies \cup {None}
      BY DEF Init, Owner
    <2>6. loops \in [Builds -> 0..2]  BY DEF Init
    <2>7. vm \in [Builds -> BuildVm \cup {None}]
      <3>1. vm = [b \in Builds |-> None]  BY DEF Init
      <3>. QED  BY <3>1
    <2>4. /\ chSock \in Owner /\ tpmSock \in Owner
          /\ pcr \in [Builds -> SUBSET Builds] /\ child \in [Builds -> BOOLEAN]
          /\ keyDir \in BOOLEAN /\ keyPub \in Owner /\ keySec \in Owner
          /\ spoiled \in SUBSET Builds /\ alone \in SUBSET Builds
      BY DEF Init, Owner
    <2>5. out \in [Builds -> ImageDir]  BY <1>1 DEF Init
    <2>. QED  BY <1>2, <2>1, <2>2, <2>3, <2>4, <2>5, <2>6, <2>7 DEF Types
  <1>4. ASSUME NEW b \in Builds PROVE Build(b)
    <2>1. /\ st[b] = "idle" /\ origin # b /\ snap # b /\ loops[b] = 0 /\ out[b] = NoImage
      BY DEF Init
    <2>2. ~out[b].manifest  BY <2>1 DEF NoImage
    <2>3. Work(b)  BY <2>1 DEF Work, RunSteps, CopySteps, FinalSteps
    <2>4. Devices(b)  BY <2>1 DEF Devices, HasOrigin, HasSnap
    <2>5. Returned(b)  BY <2>1 DEF Returned
    <2>6. Image(b)  BY <2>1, <2>2 DEF Image, Hashed
    <2>. QED  BY <2>3, <2>4, <2>5, <2>6 DEF Build
  <1>. QED  BY <1>3, <1>4 DEF BuildInv

\* Every step of every build keeps the invariant.
LEMMA BuildInvStep == BuildInv /\ [Next]_vars => BuildInv'
  <1>. SUFFICES ASSUME BuildInv, [Next]_vars PROVE BuildInv'  OBVIOUS
  <1>1. ASSUME NEW b \in Builds, RunStep(b) PROVE BuildInv'
    BY <1>1, RunBeginKeeps, RunExtractKeeps, RunTruncateKeeps, RunMkfsKeeps,
       RunAttachKeeps, RunOriginKeeps, RunSnapKeeps, RunInitramfsKeeps, RunSpawnKeeps,
       RunWaitKeeps, RunTimeoutKeeps, RunSquashKeeps, RunDetachKeeps, RunRmSnapKeeps,
       RunRmOriginKeeps, RunEndKeeps
    DEF RunStep
  <1>2. ASSUME NEW b \in Builds, CopyStep(b) PROVE BuildInv'
    BY <1>2, CopyBeginKeeps, CopyInjectKeeps, CopyTruncateKeeps, CopyWriteKeeps DEF CopyStep
  <1>3. ASSUME NEW b \in Builds, FinalStep(b) PROVE BuildInv'
    BY <1>3, FinalizeCopyKeeps, FinalizeHashKeeps, MeasureVtpmKeeps, MeasureSpawnKeeps,
       MeasureSocketKeeps, MeasureBootKeeps, MeasureReadKeeps, FinalizeManifestKeeps,
       ResolveKeyKeeps, MakeKeyDirKeeps, SavePublicKeeps, SaveSecretKeeps
    DEF FinalStep
  <1>4. ASSUME NEW b \in Builds, BuildBegin(b) \/ HandleFrom(b) \/ HandleConfig(b)
               \/ NoRootfs(b) \/ VmExits(b) \/ HypervisorListens(b) \/ Cancel(b)
        PROVE  BuildInv'
    BY <1>4, BuildBeginKeeps, HandleFromKeeps, HandleConfigKeeps, NoRootfsKeeps,
       VmExitsKeeps, HypervisorListensKeeps, CancelKeeps
  <1>5. CASE UNCHANGED vars
    <2>1. UNCHANGED <<prog, pc, st, root, err, extr, name, sqfs, ext4, inj, origin, snap,
                      mounted, loops, vm, initram, chSock, tpmSock, pcr, child, keyDir,
                      keyPub, keySec, out, spoiled, alone>>
      BY <1>5 DEF vars, buildVars, fileVars, devVars, measVars, keyVars, histVars
    <2>2. Types'  BY <2>1 DEF BuildInv, Types
    <2>3. \A b \in Builds : Build(b)'  BY <2>1, OtherBuild DEF BuildInv
    <2>. QED  BY <2>2, <2>3 DEF BuildInv
  <1>. QED  BY <1>1, <1>2, <1>3, <1>4, <1>5 DEF Next, Step

LEMMA BuildInvariant == Spec => []BuildInv
  BY BuildInvInit, BuildInvStep, PTL DEF Spec

\* The builds and what they share keep their types, whatever the interleaving, and no
\* RUN or COPY ever works on a directory that was not extracted whole.
THEOREM BuildTypes == Spec => []TypeOK
  <1>1. BuildInv => TypeOK
    <2>. SUFFICES ASSUME BuildInv PROVE TypeOK  OBVIOUS
    <2>1. Types  BY DEF BuildInv
    <2>2. extr \in [Builds -> Files] /\ \A b \in Builds : extr[b] # Torn
      BY <2>1 DEF Types
    <2>3. \A b \in Builds : vm[b] = None \/ vm[b] \in BuildVm  BY <2>1 DEF Types
    <2>. QED  BY <2>1, <2>2, <2>3 DEF Types, TypeOK, BuildVm, ImageDir
  <1>. QED  BY <1>1, BuildInvariant, PTL

\* A build VM runs its own build's command on its own build's snapshot, and the layer
\* is packed from that snapshot: the one device name that all builds share is enough
\* to keep any number of them apart.
THEOREM OwnDeviceHolds == Spec => []OwnDevice
  <1>1. BuildInv => OwnDevice
    BY DEF BuildInv, Build, Devices, HasSnap, OwnDevice
  <1>. QED  BY <1>1, BuildInvariant, PTL

\* A build that ended and met no failing call, timeout or cancellation has given back
\* its loop devices and the device name.
THEOREM DevicesReturnedHolds == Spec => []DevicesReturned
  <1>1. BuildInv => DevicesReturned
    <2>1. \A s \in Ended : s \notin HasOrigin \cup HasSnap \cup HasLoops
      BY DEF Ended, HasOrigin, HasSnap, HasLoops
    <2>. QED  BY <2>1 DEF BuildInv, Build, Returned, DevicesReturned
  <1>. QED  BY <1>1, BuildInvariant, PTL

\* The hash in a manifest is that of the rootfs beside it, however other builds rewrite
\* the base image between the copy, the hash and the manifest; only a COPY into that very
\* image, by a build that took it with FROM, makes the two differ.
THEOREM ManifestMatchesHolds == Spec => []ManifestMatchesRootfs
  <1>1. BuildInv => ManifestMatchesRootfs
    BY DEF BuildInv, Build, Image, ManifestMatchesRootfs
  <1>. QED  BY <1>1, BuildInvariant, PTL

-----------------------------------------------------------------------------
(* A build that runs alone.  The second inductive invariant says what the   *)
(* images, the cache and the directories hold at each step of such a build; *)
(* it takes the first as given.                                             *)

Active(b) == st[b] \notin Ended \cup {"idle"}

\* The steps of a RUN after the ext4 file was made, found, and packed.
Cached  == RunSteps \ {"extract"}
OnCache == {"attach", "origin", "snap", "initram", "spawn", "vm", "squash"}
Packed  == {"detach", "rmSnap", "rmOrigin", "runEnd"}

\* The COPY lines of file p before line n that no later FROM before n made void.
CopiedBefore(p, n) ==
    {i \in 1..(n - 1) : p[i].op = "copy" /\ \A j \in i..(n - 1) : p[j].op # "from"}

\* f is a whole image and has what build b's file p has copied before line n.
Whole(b, p, n, f) ==
    /\ f \in Content
    /\ FromOnce(p) => \A i \in CopiedBefore(p, n) : <<b, i>> \in f

\* A FROM line of p before line n named image m.
FromSeen(p, n, m) == \E j \in 1..(n - 1) : p[j].op = "from" /\ p[j].image = m

\* The line the build is at is the one its step belongs to.
Line(b) ==
    /\ pc[b] \in 1..(Len(prog[b]) + 1)
    /\ st[b] \in RunSteps => pc[b] <= Len(prog[b]) /\ Instr(b).op = "run"
    /\ st[b] \in CopySteps => pc[b] <= Len(prog[b]) /\ Instr(b).op = "copy"
    /\ st[b] \in FinalSteps => pc[b] = Len(prog[b]) + 1

\* No base is torn but the one being written; an ext4 file in the cache was made from
\* an image the file has left, or is made and used by the RUN in progress.
Cache(b) ==
    /\ \A p \in Images : sqfs[p] \in Content \cup {None} \/ (st[b] = "write" /\ root[b] = p)
    /\ root[b] \in Images => FromSeen(prog[b], pc[b], root[b])
    /\ FromOnce(prog[b]) => \A p \in Images : ext4[p] # None =>
           /\ FromSeen(prog[b], pc[b], p)
           /\ root[b] = p => st[b] \in Cached
    /\ ext4[b] # None => root[b] = b /\ st[b] \in Cached

\* Wherever the image is on its way, it is whole.
Full(b) ==
    LET Has(f) == Whole(b, prog[b], pc[b], f) IN
    /\ root[b] # None /\ st[b] # "write" => Has(sqfs[root[b]])
    /\ st[b] \in {"truncate", "mkfs", "inject"} => Has(extr[b])
    /\ st[b] \in OnCache /\ FromOnce(prog[b]) => Has(ext4[root[b]])
    /\ st[b] \in Packed /\ ~err[b] => Has(extr[b])
    /\ st[b] \in {"truncateRoot", "write"} =>
           Has(inj[name[b]]) /\ <<b, pc[b]>> \in inj[name[b]]
    /\ st[b] \in FinalSteps => Has(sqfs[Output(b)])

\* Nobody else booted into the build's vTPM.
Measured(b) == pcr[b] \subseteq {b} /\ (out[b].pcrs = None \/ out[b].pcrs \subseteq {b})

Mine(b) == Line(b) /\ Cache(b) /\ Full(b) /\ Measured(b)

Complete(b) ==
    /\ pc[b] = Len(prog[b]) + 1
    /\ out[b].rewritten \/ Whole(b, prog[b], pc[b], sqfs[Output(b)])
    /\ out[b].pcrs = None \/ out[b].pcrs \subseteq {b}

\* A build that is alone works by itself, and when it is done is complete.
Settled(b) == (Active(b) => Mine(b)) /\ (st[b] = "done" => Complete(b))
Solo(b)    == \A c \in Builds \ {b} : ~Active(c)
Alone(b)   == b \in alone => (Active(b) => Solo(b)) /\ Settled(b)

\* A build works on an image or on its own layer, never on another build's.
Own(b) == root[b] \in Images \cup {b, None}

\* A build that has not begun has left nothing behind.
Clean(b) ==
    st[b] = "idle" => /\ pc[b] = 1 /\ root[b] = None /\ ext4[b] = None
                      /\ pcr[b] = {} /\ tpmSock # b /\ out[b].pcrs = None /\ b \notin alone

AloneInv == \A b \in Builds : Own(b) /\ Clean(b) /\ Alone(b)

-----------------------------------------------------------------------------
(* The lines of a file and what an image has of them.                       *)

\* The loop goes on over a line: only a COPY adds to what an image has to hold, and
\* a FROM makes it nothing.
LEMMA CopiedNext ==
    ASSUME NEW p, NEW n \in Nat \ {0}
    PROVE  /\ \A i \in CopiedBefore(p, n + 1) : i # n => i \in CopiedBefore(p, n)
           /\ p[n].op # "copy" => n \notin CopiedBefore(p, n + 1)
           /\ p[n].op = "from" => CopiedBefore(p, n + 1) = {}
  BY DEF CopiedBefore

\* A line that copies nothing leaves an image whole.
LEMMA WholeNext ==
    ASSUME NEW b, NEW p, NEW n \in Nat \ {0}, NEW f, Whole(b, p, n, f),
           p[n].op # "copy" \/ <<b, n>> \in f
    PROVE  Whole(b, p, n + 1, f)
  BY CopiedNext DEF Whole

\* Any image that was written to its end is whole after a FROM.
LEMMA WholeFrom ==
    ASSUME NEW b, NEW p, NEW n \in Nat \ {0}, NEW f \in Content, p[n].op = "from"
    PROVE  Whole(b, p, n + 1, f)
  BY CopiedNext DEF Whole

\* The injected layer has what the directory had and the file of the line.
LEMMA WholeAdds ==
    ASSUME NEW b \in Builds, NEW p, NEW n \in Nat, NEW f, Whole(b, p, n, f)
    PROVE  Whole(b, p, n, f \cup {<<b, n>>})
  <1>1. f \cup {<<b, n>>} \in Content  BY DEF Whole, Content, Copies
  <1>. QED  BY <1>1 DEF Whole

\* What FROM lines came before a line came before the next.
LEMMA SeenNext ==
    ASSUME NEW p, NEW n \in Nat \ {0}, NEW m,
           FromSeen(p, n, m) \/ (p[n].op = "from" /\ p[n].image = m)
    PROVE  FromSeen(p, n + 1, m)
  <1>1. CASE FromSeen(p, n, m)
    <2>1. PICK j \in 1..(n - 1) : p[j].op = "from" /\ p[j].image = m  BY <1>1 DEF FromSeen
    <2>2. j \in 1..((n + 1) - 1)  OBVIOUS
    <2>. QED  BY <2>1, <2>2 DEF FromSeen
  <1>2. CASE p[n].op = "from" /\ p[n].image = m
    <2>1. n \in 1..((n + 1) - 1)  OBVIOUS
    <2>. QED  BY <1>2, <2>1 DEF FromSeen
  <1>. QED  BY <1>1, <1>2

\* A FROM that names its image for the first time has no earlier one.
LEMMA SeenOnce ==
    ASSUME NEW p, Len(p) \in Nat, NEW n \in 1..Len(p), FromOnce(p), p[n].op = "from"
    PROVE  ~FromSeen(p, n, p[n].image)
  <1>. SUFFICES ASSUME NEW j \in 1..(n - 1), p[j].op = "from", p[j].image = p[n].image
                PROVE  FALSE
    BY DEF FromSeen
  <1>1. j \in 1..Len(p) /\ j # n  OBVIOUS
  <1>. QED  BY <1>1 DEF FromOnce

\* The whole file's COPY lines are those of the lines before its end.
LEMMA WholeAtEnd ==
    ASSUME NEW b \in Builds, Len(prog[b]) \in Nat, FromOnce(prog[b]),
           NEW f, Whole(b, prog[b], Len(prog[b]) + 1, f)
    PROVE  \A i \in CopyLines(b) : <<b, i>> \in f
  <1>1. CopyLines(b) \subseteq CopiedBefore(prog[b], Len(prog[b]) + 1)
    <2>1. (Len(prog[b]) + 1) - 1 = Len(prog[b])  OBVIOUS
    <2>. QED  BY <2>1 DEF CopyLines, CopiedBefore
  <1>. QED  BY <1>1 DEF Whole

\* The files are sequences.
LEMMA ProgLen ==
    ASSUME Types, NEW b \in Builds
    PROVE  Len(prog[b]) \in Nat
  <1>1. ASSUME NEW p \in Programs PROVE Len(p) \in Nat
    <2>1. p \in Seq(Instructions)  BY BuildAssumption
    <2>. QED  BY <2>1
  <1>2. Len(<<>>) \in Nat  OBVIOUS
  <1>3. prog[b] \in Programs \/ prog[b] = <<>>  BY DEF Types
  <1>. QED  BY <1>1, <1>2, <1>3

-----------------------------------------------------------------------------
(* What the steps of a build leave to the others.                           *)

\* A step of build c, of its hypervisors or of its client.
Acts(c) == BuildBegin(c) \/ Step(c) \/ VmExits(c) \/ HypervisorListens(c) \/ Cancel(c)

\* What a step of build c leaves alone of build b.
Spares(c, b) ==
    /\ prog'[b] = prog[b] /\ pc'[b] = pc[b] /\ st'[b] = st[b] /\ root'[b] = root[b]
    /\ err'[b] = err[b] /\ extr'[b] = extr[b] /\ name'[b] = name[b]
    /\ out'[b].pcrs = out[b].pcrs
    /\ \/ out'[b] = out[b] /\ sqfs'[Output(b)] = sqfs[Output(b)]
       \/ out'[b].rewritten
    /\ root[c] # b => ext4'[b] = ext4[b]
    /\ tpmSock # b => pcr'[b] = pcr[b]
    /\ tpmSock' \in {tpmSock, None, c}
    /\ BuildBegin(c) \/ alone' = alone

\* Builds share files, devices and sockets, but each has its own place in its file, its
\* own directory and its own image.
LEMMA StepSpares ==
    ASSUME Types, NEW c \in Builds, NEW b \in Builds \ {c}, Acts(c)
    PROVE  Spares(c, b)
  <1>. USE DEF Spares, Types
  <1>1. CASE BuildBegin(c)
    BY <1>1 DEF BuildBegin, Goto, fileVars, devVars, measVars, keyVars, Lonely
  <1>2. CASE HandleFrom(c)
    BY <1>2 DEF HandleFrom, Advance, Goto, fileVars, devVars, measVars, keyVars, histVars
  <1>3. CASE HandleConfig(c)
    BY <1>3 DEF HandleConfig, Advance, Goto, fileVars, devVars, measVars, keyVars, histVars
  <1>4. CASE NoRootfs(c)
    BY <1>4 DEF NoRootfs, Goto, fileVars, devVars, measVars, keyVars, histVars
  <1>5. CASE VmExits(c)
    BY <1>5 DEF VmExits, buildVars, fileVars, measVars, keyVars, histVars
  <1>6. CASE HypervisorListens(c)
    BY <1>6 DEF HypervisorListens, keyVars, finalFrame, fileVars, devVars
  <1>7. CASE Cancel(c)
    BY <1>7 DEF Cancel, Goto, Spoil, fileVars, devVars, keyVars
  <1>8. CASE RunBegin(c)
    BY <1>8 DEF RunBegin, Goto, devVars, runFrame, measVars, keyVars
  <1>9. CASE RunExtract(c)
    BY <1>9 DEF RunExtract, extract_squashfs, Goto, Leave, devVars, runFrame, measVars, keyVars
  <1>10. CASE RunTruncate(c)
    BY <1>10 DEF RunTruncate, Goto, Leave, devVars, runFrame, measVars, keyVars, Paths
  <1>11. CASE RunMkfs(c)
    BY <1>11 DEF RunMkfs, Goto, Leave, devVars, runFrame, measVars, keyVars, Paths
  <1>12. CASE RunAttach(c)
    BY <1>12 DEF RunAttach, Goto, Leave, Spoil, runFrame, measVars, keyVars
  <1>13. CASE RunOrigin(c)
    BY <1>13 DEF RunOrigin, Goto, Leave, Spoil, runFrame, measVars, keyVars
  <1>14. CASE RunSnap(c)
    BY <1>14 DEF RunSnap, Goto, Leave, Spoil, runFrame, measVars, keyVars
  <1>15. CASE RunInitramfs(c)
    BY <1>15 DEF RunInitramfs, Goto, Unwind, runFrame, measVars, keyVars
  <1>16. CASE RunSpawn(c)
    BY <1>16 DEF RunSpawn, Goto, Unwind, runFrame, measVars, keyVars
  <1>17. CASE RunWait(c)
    BY <1>17 DEF RunWait, Goto, Unwind, devVars, runFrame, measVars, keyVars
  <1>18. CASE RunTimeout(c)
    BY <1>18 DEF RunTimeout, Unwind, Goto, Spoil, devVars, runFrame, measVars, keyVars
  <1>19. CASE RunSquash(c)
    BY <1>19 DEF RunSquash, Goto, Spoil, Unwind, runFrame, measVars, keyVars
  <1>20. CASE RunDetach(c)
    BY <1>20 DEF RunDetach, Goto, Spoil, runFrame, measVars, keyVars
  <1>21. CASE RunRmSnap(c)
    BY <1>21 DEF RunRmSnap, Goto, Spoil, runFrame, measVars, keyVars
  <1>22. CASE RunRmOrigin(c)
    BY <1>22 DEF RunRmOrigin, Goto, Spoil, runFrame, measVars, keyVars
  <1>23. CASE RunEnd(c)
    <2>1. sqfs'[Output(b)] = sqfs[Output(b)]  BY <1>23, OutputPath DEF RunEnd
    <2>. QED
      BY <1>23, <2>1
      DEF RunEnd, Advance, Goto, Leave, devVars, measVars, keyVars, histVars, Paths
  <1>24. CASE CopyBegin(c)
    BY <1>24 DEF CopyBegin, extract_squashfs, Goto, Leave, copyFrame, devVars, measVars,
                 keyVars, histVars
  <1>25. CASE CopyInject(c)
    BY <1>25 DEF CopyInject, Goto, Leave, copyFrame, devVars, measVars, keyVars, histVars
  <1>26. CASE CopyTruncate(c)
    <2>1. Rewritten(b, root[c])  BY <1>26, RewriteEntries DEF CopyTruncate
    <2>2. root[c] # Output(b) => sqfs'[Output(b)] = sqfs[Output(b)]
      BY <1>26, OutputPath DEF CopyTruncate
    <2>. QED
      BY <1>26, <2>1, <2>2
      DEF CopyTruncate, Goto, copyFrame, devVars, measVars, keyVars, histVars, Rewritten
  <1>27. CASE CopyWrite(c)
    <2>1. Rewrite(c) => Rewritten(b, root[c])  BY RewriteEntries
    <2>2. root[c] # Output(b) => sqfs'[Output(b)] = sqfs[Output(b)]
      BY <1>27, OutputPath DEF CopyWrite
    <2>. QED
      BY <1>27, <2>1, <2>2
      DEF CopyWrite, Advance, Goto, copyFrame, devVars, measVars, keyVars, histVars, Rewritten
  <1>28. CASE FinalizeCopy(c)
    <2>1. sqfs'[Output(b)] = sqfs[Output(b)]  BY <1>28, OutputPath DEF FinalizeCopy
    <2>. QED  BY <1>28, <2>1 DEF FinalizeCopy, Goto, devVars, measVars, keyVars, histVars
  <1>29. CASE FinalizeHash(c)
    BY <1>29 DEF FinalizeHash, Goto, measVars, keyVars, finalFrame, fileVars, devVars
  <1>30. CASE MeasureVtpm(c)
    BY <1>30 DEF MeasureVtpm, Goto, keyVars, finalFrame, fileVars, devVars
  <1>31. CASE MeasureSpawn(c)
    BY <1>31 DEF MeasureSpawn, Goto, keyVars, finalFrame, fileVars, devVars
  <1>32. CASE MeasureSocket(c)
    BY <1>32 DEF MeasureSocket, Goto, keyVars, finalFrame, fileVars, devVars
  <1>33. CASE MeasureBoot(c)
    BY <1>33 DEF MeasureBoot, Goto, keyVars, finalFrame, fileVars, devVars
  <1>34. CASE MeasureRead(c)
    BY <1>34 DEF MeasureRead, Goto, keyVars, finalFrame, fileVars, devVars
  <1>35. CASE FinalizeManifest(c)
    BY <1>35 DEF FinalizeManifest, Goto, measVars, keyVars, finalFrame, fileVars, devVars
  <1>36. CASE ResolveKey(c)
    BY <1>36 DEF ResolveKey, Signed, Goto, measVars, keyVars, finalFrame, fileVars, devVars
  <1>37. CASE MakeKeyDir(c)
    BY <1>37 DEF MakeKeyDir, Goto, measVars, finalFrame, fileVars, devVars
  <1>38. CASE SavePublic(c)
    BY <1>38 DEF SavePublic, Goto, measVars, finalFrame, fileVars, devVars
  <1>39. CASE SaveSecret(c)
    BY <1>39 DEF SaveSecret, Signed, Goto, measVars, finalFrame, fileVars, devVars
  <1>. QED
    BY <1>1, <1>2, <1>3, <1>4, <1>5, <1>6, <1>7, <1>8, <1>9, <1>10, <1>11, <1>12, <1>13,
       <1>14, <1>15, <1>16, <1>17, <1>18, <1>19, <1>20, <1>21, <1>22, <1>23, <1>24, <1>25,
       <1>26, <1>27, <1>28, <1>29, <1>30, <1>31, <1>32, <1>33, <1>34, <1>35, <1>36, <1>37,
       <1>38, <1>39
    DEF Acts, Step, RunStep, CopyStep, FinalStep

\* Only a build that works takes a step, but for a request that comes in and a build
\* VM that was left behind.
LEMMA ActsActive ==
    ASSUME NEW c \in Builds, Acts(c)
    PROVE  Active(c) \/ BuildBegin(c) \/ VmExits(c)
  <1>1. CASE RunStep(c)
    BY <1>1 DEF Active, At, Ended, RunStep, RunBegin, RunExtract, RunTruncate, RunMkfs,
                RunAttach, RunOrigin, RunSnap, RunInitramfs, RunSpawn, RunWait, RunTimeout,
                RunSquash, RunDetach, RunRmSnap, RunRmOrigin, RunEnd
  <1>2. CASE CopyStep(c)
    BY <1>2 DEF Active, At, Ended, CopyStep, CopyBegin, CopyInject, CopyTruncate, CopyWrite
  <1>3. CASE FinalStep(c)
    BY <1>3 DEF Active, Ended, FinalStep, FinalizeCopy, FinalizeHash, MeasureVtpm,
                MeasureSpawn, MeasureSocket, MeasureBoot, MeasureRead, FinalizeManifest,
                ResolveKey, MakeKeyDir, SavePublic, SaveSecret
  <1>4. CASE HandleFrom(c) \/ HandleConfig(c) \/ NoRootfs(c) \/ HypervisorListens(c) \/ Cancel(c)
    BY <1>4 DEF Active, At, Ended, HandleFrom, HandleConfig, NoRootfs, HypervisorListens,
                Cancel
  <1>. QED  BY <1>1, <1>2, <1>3, <1>4 DEF Acts, Step

-----------------------------------------------------------------------------
(* The steps that only move on.                                             *)

\* The build goes from one step to another that asks the same of the images.
Glides(b) ==
    /\ prog'[b] = prog[b] /\ pc'[b] = pc[b] /\ root'[b] = root[b] /\ name'[b] = name[b]
    /\ sqfs' = sqfs /\ ext4' = ext4 /\ inj' = inj /\ pcr'[b] \subseteq pcr[b] \cup {b}
    /\ out'[b].pcrs \in {out[b].pcrs, pcr[b]}
    /\ \/ st'[b] \in Ended \ {"done"}
       \/ st'[b] = st[b] /\ extr'[b] = extr[b] /\ err'[b] = err[b]
       \/ st[b] \in OnCache /\ st'[b] \in OnCache
       \/ st[b] \in OnCache /\ st'[b] = "detach" /\ err'[b]
       \/ /\ st[b] \in Packed /\ st'[b] \in Packed
          /\ extr'[b] = extr[b] /\ err'[b] = err[b]
       \/ st[b] \in FinalSteps /\ st'[b] \in FinalSteps \cup {"done"}

\* Such a move keeps what a build that is alone has.
LEMMA GlidesKeeps ==
    ASSUME NEW b \in Builds, Active(b), Mine(b), Glides(b)
    PROVE  Settled(b)'
  <1>0. Line(b) /\ Cache(b) /\ Full(b) /\ Measured(b)  BY DEF Mine
  <1>. USE DEF Glides, Ended, Active, OnCache, Packed, FinalSteps
  <1>1. ASSUME Active(b)' PROVE Line(b)'
    BY <1>0, <1>1 DEF Line, Instr, RunSteps, CopySteps
  <1>2. ASSUME Active(b)' PROVE Cache(b)'
    BY <1>0, <1>2 DEF Cache, Cached, RunSteps
  <1>3. ASSUME Active(b)' PROVE Full(b)'
    BY <1>0, <1>3 DEF Full
  <1>4. Measured(b)'  BY <1>0 DEF Measured
  <1>5. ASSUME st'[b] = "done" PROVE Complete(b)'
    <2>1. st[b] \in FinalSteps  BY <1>5
    <2>. QED  BY <1>0, <1>5, <2>1 DEF Complete, Line, Full, Measured
  <1>. QED  BY <1>1, <1>2, <1>3, <1>4, <1>5 DEF Settled, Mine

\* The steps that handle devices, sockets and keys are such moves.
LEMMA GlideSteps ==
    ASSUME Types, NEW b \in Builds,
           \/ NoRootfs(b) \/ RunAttach(b) \/ RunOrigin(b) \/ RunSnap(b) \/ RunInitramfs(b)
           \/ RunSpawn(b) \/ RunWait(b) \/ RunTimeout(b) \/ RunDetach(b) \/ RunRmSnap(b)
           \/ RunRmOrigin(b) \/ FinalizeHash(b) \/ MeasureVtpm(b) \/ MeasureSpawn(b)
           \/ MeasureSocket(b) \/ MeasureBoot(b) \/ MeasureRead(b) \/ FinalizeManifest(b)
           \/ ResolveKey(b) \/ MakeKeyDir(b) \/ SavePublic(b) \/ SaveSecret(b)
           \/ HypervisorListens(b) \/ Cancel(b) \/ VmExits(b)
    PROVE  Glides(b)
  <1>0. out[b] \in ImageDir  BY DEF Types
  <1>. USE DEF Glides, Types, OnCache, Packed, FinalSteps, Ended
  <1>1. CASE NoRootfs(b)
    BY <1>0, <1>1 DEF NoRootfs, Goto, fileVars, devVars, measVars, keyVars, histVars
  <1>2. CASE RunAttach(b)
    BY <1>0, <1>2 DEF RunAttach, Goto, Leave, Spoil, runFrame, measVars, keyVars
  <1>3. CASE RunOrigin(b)
    BY <1>0, <1>3 DEF RunOrigin, Goto, Leave, Spoil, runFrame, measVars, keyVars
  <1>4. CASE RunSnap(b)
    BY <1>0, <1>4 DEF RunSnap, Goto, Leave, Spoil, runFrame, measVars, keyVars
  <1>5. CASE RunInitramfs(b)
    BY <1>0, <1>5 DEF RunInitramfs, Goto, Unwind, runFrame, measVars, keyVars
  <1>6. CASE RunSpawn(b)
    BY <1>0, <1>6 DEF RunSpawn, Goto, Unwind, runFrame, measVars, keyVars
  <1>7. CASE RunWait(b)
    BY <1>0, <1>7 DEF RunWait, Goto, Unwind, devVars, runFrame, measVars, keyVars
  <1>8. CASE RunTimeout(b)
    BY <1>0, <1>8 DEF RunTimeout, Unwind, Goto, Spoil, devVars, runFrame, measVars, keyVars
  <1>9. CASE RunDetach(b)
    BY <1>0, <1>9 DEF RunDetach, Goto, Spoil, runFrame, measVars, keyVars
  <1>10. CASE RunRmSnap(b)
    BY <1>0, <1>10 DEF RunRmSnap, Goto, Spoil, runFrame, measVars, keyVars
  <1>11. CASE RunRmOrigin(b)
    BY <1>0, <1>11 DEF RunRmOrigin, Goto, Spoil, runFrame, measVars, keyVars
  <1>12. CASE FinalizeHash(b)
    BY <1>0, <1>12 DEF FinalizeHash, Goto, measVars, keyVars, finalFrame, fileVars, devVars,
                       ImageDir
  <1>13. CASE MeasureVtpm(b)
    BY <1>0, <1>13 DEF MeasureVtpm, Goto, keyVars, finalFrame, fileVars, devVars
  <1>14. CASE MeasureSpawn(b)
    BY <1>0, <1>14 DEF MeasureSpawn, Goto, keyVars, finalFrame, fileVars, devVars
  <1>15. CASE MeasureSocket(b)
    BY <1>0, <1>15 DEF MeasureSocket, Goto, keyVars, finalFrame, fileVars, devVars
  <1>16. CASE MeasureBoot(b)
    <2>1. pcr'[b] \subseteq pcr[b] \cup {b}  BY <1>16 DEF MeasureBoot, Types
    <2>. QED  BY <1>16, <2>1 DEF MeasureBoot, Goto, keyVars, finalFrame, fileVars, devVars
  <1>17. CASE MeasureRead(b)
    BY <1>0, <1>17 DEF MeasureRead, Goto, keyVars, finalFrame, fileVars, devVars, ImageDir
  <1>18. CASE FinalizeManifest(b)
    BY <1>0, <1>18 DEF FinalizeManifest, Goto, measVars, keyVars, finalFrame, fileVars,
                       devVars, ImageDir
  <1>19. CASE ResolveKey(b)
    BY <1>0, <1>19 DEF ResolveKey, Signed, Goto, measVars, keyVars, finalFrame, fileVars,
                       devVars, ImageDir
  <1>20. CASE MakeKeyDir(b)
    BY <1>0, <1>20 DEF MakeKeyDir, Goto, measVars, finalFrame, fileVars, devVars
  <1>21. CASE SavePublic(b)
    BY <1>0, <1>21 DEF SavePublic, Goto, measVars, finalFrame, fileVars, devVars
  <1>22. CASE SaveSecret(b)
    BY <1>0, <1>22 DEF SaveSecret, Signed, Goto, measVars, finalFrame, fileVars, devVars,
                       ImageDir
  <1>23. CASE HypervisorListens(b)
    BY <1>0, <1>23 DEF HypervisorListens, keyVars, finalFrame, fileVars, devVars
  <1>24. CASE Cancel(b)
    BY <1>0, <1>24 DEF Cancel, Goto, Spoil, fileVars, devVars, keyVars
  <1>25. CASE VmExits(b)
    BY <1>0, <1>25 DEF VmExits, buildVars, fileVars, measVars, keyVars, histVars
  <1>. QED  BY <1>1, <1>2, <1>3, <1>4, <1>5, <1>6, <1>7, <1>8, <1>9, <1>10, <1>11, <1>12,
               <1>13, <1>14, <1>15, <1>16, <1>17, <1>18, <1>19, <1>20, <1>21, <1>22, <1>23,
               <1>24, <1>25

-----------------------------------------------------------------------------
(* The steps that read and write the images.                                *)

\* The build stays at its line, on its rootfs, and measures nothing.
Stays(b) ==
    /\ prog'[b] = prog[b] /\ pc'[b] = pc[b] /\ root'[b] = root[b]
    /\ pcr' = pcr /\ out'[b].pcrs = out[b].pcrs

\* A RUN of a build that is alone finds no stale file in the cache.
LEMMA RunBeginAlone ==
    ASSUME BuildInv, NEW b \in Builds, Active(b), Mine(b), Own(b), RunBegin(b)
    PROVE  Settled(b)'
  <1>0. Types /\ Work(b) /\ Devices(b) /\ Line(b) /\ Cache(b) /\ Full(b) /\ Measured(b)
    BY DEF BuildInv, Build, Mine
  <1>1. st[b] = "next" /\ root[b] # None /\ pc[b] <= Len(prog[b]) /\ Instr(b).op = "run"
    BY DEF RunBegin, At
  <1>2. root[b] \in Paths /\ (root[b] = b \/ root[b] \in Images) /\ root[b] # None
    BY <1>0, <1>1, NonePath DEF Types, Work, Own, RunSteps, CopySteps, FinalSteps
  <1>3. CASE /\ Stays(b) /\ sqfs' = sqfs /\ ext4' = ext4
             /\ (\/ st'[b] = "attach" /\ ext4[root[b]] # None
                 \/ st'[b] = "extract" /\ ext4[root[b]] = None)
    <2>1. FromOnce(prog[b]) => ext4[root[b]] = None
      BY <1>0, <1>1, <1>2, <1>3 DEF Cache, Cached, RunSteps
    <2>2. Line(b)'
      BY <1>0, <1>1, <1>2, <1>3 DEF Stays, Line, Instr, RunSteps, CopySteps, FinalSteps
    <2>3. Cache(b)'
      BY <1>0, <1>1, <1>2, <1>3, <2>1 DEF Stays, Cache, Cached, RunSteps, Paths
    <2>4. Full(b)'
      BY <1>0, <1>1, <1>2, <1>3, <2>1 DEF Stays, Full, OnCache, Packed, FinalSteps
    <2>5. Measured(b)'  BY <1>0, <1>1, <1>2, <1>3 DEF Stays, Measured
    <2>. QED  BY <1>3, <2>2, <2>3, <2>4, <2>5 DEF Settled, Mine
  <1>4. out[b] \in ImageDir  BY <1>0 DEF Types
  <1>. QED  BY <1>0, <1>1, <1>2, <1>3 DEF Stays, RunBegin, Goto, devVars, runFrame, measVars,
                                          keyVars, Types, Ended, OnCache, ImageDir

\* The directory a RUN extracts is whole.
LEMMA RunExtractAlone ==
    ASSUME BuildInv, NEW b \in Builds, Active(b), Mine(b), Own(b), RunExtract(b)
    PROVE  Settled(b)'
  <1>0. Types /\ Work(b) /\ Devices(b) /\ Line(b) /\ Cache(b) /\ Full(b) /\ Measured(b)
    BY DEF BuildInv, Build, Mine
  <1>1. st[b] = "extract"  BY DEF RunExtract, At
  <1>2. root[b] \in Paths /\ (root[b] = b \/ root[b] \in Images) /\ root[b] # None
    BY <1>0, <1>1, NonePath DEF Types, Work, Own, RunSteps, CopySteps, FinalSteps
  <1>3. CASE /\ Stays(b) /\ sqfs' = sqfs /\ ext4' = ext4 /\ st'[b] = "truncate"
             /\ extr'[b] = sqfs[root[b]]
    <2>1. Line(b)'
      BY <1>0, <1>1, <1>2, <1>3 DEF Stays, Line, Instr, RunSteps, CopySteps, FinalSteps
    <2>2. Cache(b)'
      BY <1>0, <1>1, <1>2, <1>3 DEF Stays, Cache, Cached, RunSteps, Paths
    <2>3. Full(b)'
      BY <1>0, <1>1, <1>2, <1>3 DEF Stays, Full, OnCache, Packed, FinalSteps
    <2>4. Measured(b)'  BY <1>0, <1>1, <1>2, <1>3 DEF Stays, Measured
    <2>. QED  BY <1>3, <2>1, <2>2, <2>3, <2>4 DEF Settled, Mine
  <1>4. CASE Glides(b)  BY <1>4, GlidesKeeps
  <1>5. out[b] \in ImageDir  BY <1>0 DEF Types
  <1>. QED  BY <1>0, <1>1, <1>2, <1>3, <1>4, <1>5 DEF Stays, Glides, RunExtract,
               extract_squashfs, Goto, Leave, devVars, runFrame, measVars, keyVars, Types,
               Ended, OnCache, ImageDir

\* The file that truncate makes is used by this RUN.
LEMMA RunTruncateAlone ==
    ASSUME BuildInv, NEW b \in Builds, Active(b), Mine(b), Own(b), RunTruncate(b)
    PROVE  Settled(b)'
  <1>0. Types /\ Work(b) /\ Devices(b) /\ Line(b) /\ Cache(b) /\ Full(b) /\ Measured(b)
    BY DEF BuildInv, Build, Mine
  <1>1. st[b] = "truncate"  BY DEF RunTruncate, At
  <1>2. root[b] \in Paths /\ (root[b] = b \/ root[b] \in Images) /\ root[b] # None
    BY <1>0, <1>1, NonePath DEF Types, Work, Own, RunSteps, CopySteps, FinalSteps
  <1>3. CASE /\ Stays(b) /\ sqfs' = sqfs /\ extr'[b] = extr[b] /\ st'[b] = "mkfs"
             /\ \A p \in Paths \ {root[b]} : ext4'[p] = ext4[p]
    <2>1. Line(b)'
      BY <1>0, <1>1, <1>2, <1>3 DEF Stays, Line, Instr, RunSteps, CopySteps, FinalSteps
    <2>2. Cache(b)'
      BY <1>0, <1>1, <1>2, <1>3 DEF Stays, Cache, Cached, RunSteps, Paths
    <2>3. Full(b)'
      BY <1>0, <1>1, <1>2, <1>3 DEF Stays, Full, OnCache, Packed, FinalSteps
    <2>4. Measured(b)'  BY <1>0, <1>1, <1>2, <1>3 DEF Stays, Measured
    <2>. QED  BY <1>3, <2>1, <2>2, <2>3, <2>4 DEF Settled, Mine
  <1>4. CASE Glides(b)  BY <1>4, GlidesKeeps
  <1>5. out[b] \in ImageDir  BY <1>0 DEF Types
  <1>. QED  BY <1>0, <1>1, <1>2, <1>3, <1>4, <1>5 DEF Stays, Glides, RunTruncate, Goto, Leave,
               devVars, runFrame, measVars, keyVars, Types, Ended, OnCache, ImageDir

\* mkfs fills the cache from the whole directory.
LEMMA RunMkfsAlone ==
    ASSUME BuildInv, NEW b \in Builds, Active(b), Mine(b), Own(b), RunMkfs(b)
    PROVE  Settled(b)'
  <1>0. Types /\ Work(b) /\ Devices(b) /\ Line(b) /\ Cache(b) /\ Full(b) /\ Measured(b)
    BY DEF BuildInv, Build, Mine
  <1>1. st[b] = "mkfs"  BY DEF RunMkfs, At
  <1>2. root[b] \in Paths /\ (root[b] = b \/ root[b] \in Images) /\ root[b] # None
    BY <1>0, <1>1, NonePath DEF Types, Work, Own, RunSteps, CopySteps, FinalSteps
  <1>3. CASE /\ Stays(b) /\ sqfs' = sqfs /\ st'[b] = "attach"
             /\ ext4'[root[b]] = extr[b]
             /\ \A p \in Paths \ {root[b]} : ext4'[p] = ext4[p]
    <2>1. Line(b)'
      BY <1>0, <1>1, <1>2, <1>3 DEF Stays, Line, Instr, RunSteps, CopySteps, FinalSteps
    <2>2. Cache(b)'
      BY <1>0, <1>1, <1>2, <1>3 DEF Stays, Cache, Cached, RunSteps, Paths
    <2>3. Full(b)'
      BY <1>0, <1>1, <1>2, <1>3 DEF Stays, Full, OnCache, Packed, FinalSteps
    <2>4. Measured(b)'  BY <1>0, <1>1, <1>2, <1>3 DEF Stays, Measured
    <2>. QED  BY <1>3, <2>1, <2>2, <2>3, <2>4 DEF Settled, Mine
  <1>4. CASE Glides(b)  BY <1>4, GlidesKeeps
  <1>5. out[b] \in ImageDir  BY <1>0 DEF Types
  <1>. QED  BY <1>0, <1>1, <1>2, <1>3, <1>4, <1>5 DEF Stays, Glides, RunMkfs, Goto, Leave,
               devVars, runFrame, measVars, keyVars, Types, Ended, OnCache, ImageDir

\* The layer is packed from the device over the cached file.
LEMMA RunSquashAlone ==
    ASSUME BuildInv, NEW b \in Builds, Active(b), Mine(b), Own(b), RunSquash(b)
    PROVE  Settled(b)'
  <1>0. Types /\ Work(b) /\ Devices(b) /\ Line(b) /\ Cache(b) /\ Full(b) /\ Measured(b)
    BY DEF BuildInv, Build, Mine
  <1>1. st[b] = "squash"  BY DEF RunSquash, At
  <1>2. root[b] \in Paths /\ (root[b] = b \/ root[b] \in Images) /\ root[b] # None
    BY <1>0, <1>1, NonePath DEF Types, Work, Own, RunSteps, CopySteps, FinalSteps
  <1>3. CASE /\ Stays(b) /\ sqfs' = sqfs /\ ext4' = ext4 /\ st'[b] = "detach"
             /\ DeviceContent \notin {None, Torn} /\ extr'[b] = DeviceContent
    <2>1. snap = b /\ DeviceContent = ext4[root[b]]
      BY <1>0, <1>1, <1>2, <1>3, BuildAssumption DEF Devices, HasSnap, DeviceContent
    <2>2. ext4[root[b]] \in Content
      BY <1>0, <1>1, <1>2, <1>3, <2>1 DEF Types, Files
    <2>3. Whole(b, prog[b], pc[b], DeviceContent)
      BY <1>0, <1>1, <1>2, <1>3, <2>1, <2>2 DEF Full, OnCache, Whole
    <2>4. Line(b)'
      BY <1>0, <1>1, <1>2, <1>3 DEF Stays, Line, Instr, RunSteps, CopySteps, FinalSteps
    <2>5. Cache(b)'
      BY <1>0, <1>1, <1>2, <1>3, <2>1, <2>2, <2>3 DEF Stays, Cache, Cached, RunSteps, Paths
    <2>6. Full(b)'
      BY <1>0, <1>1, <1>2, <1>3, <2>1, <2>2, <2>3 DEF Stays, Full, OnCache, Packed, FinalSteps
    <2>7. Measured(b)'  BY <1>0, <1>1, <1>2, <1>3 DEF Stays, Measured
    <2>. QED  BY <1>3, <2>4, <2>5, <2>6, <2>7 DEF Settled, Mine
  <1>4. CASE Glides(b)  BY <1>4, GlidesKeeps
  <1>5. out[b] \in ImageDir  BY <1>0 DEF Types
  <1>. QED  BY <1>0, <1>1, <1>2, <1>3, <1>4, <1>5 DEF Stays, Glides, RunSquash, Goto, Spoil,
               Unwind, runFrame, measVars, keyVars, Types, Ended, OnCache, ImageDir

\* The directory a COPY extracts is whole.
LEMMA CopyBeginAlone ==
    ASSUME BuildInv, NEW b \in Builds, Active(b), Mine(b), Own(b), CopyBegin(b)
    PROVE  Settled(b)'
  <1>0. Types /\ Work(b) /\ Devices(b) /\ Line(b) /\ Cache(b) /\ Full(b) /\ Measured(b)
    BY DEF BuildInv, Build, Mine
  <1>1. st[b] = "next" /\ pc[b] <= Len(prog[b]) /\ Instr(b).op = "copy" /\ root[b] # None
    BY DEF CopyBegin, At
  <1>2. root[b] \in Paths /\ (root[b] = b \/ root[b] \in Images) /\ root[b] # None
    BY <1>0, <1>1, NonePath DEF Types, Work, Own, RunSteps, CopySteps, FinalSteps
  <1>3. CASE /\ Stays(b) /\ sqfs' = sqfs /\ ext4' = ext4 /\ st'[b] = "inject"
             /\ extr'[b] = sqfs[root[b]]
    <2>1. Line(b)'
      BY <1>0, <1>1, <1>2, <1>3 DEF Stays, Line, Instr, RunSteps, CopySteps, FinalSteps
    <2>2. Cache(b)'
      BY <1>0, <1>1, <1>2, <1>3 DEF Stays, Cache, Cached, RunSteps, Paths
    <2>3. Full(b)'
      BY <1>0, <1>1, <1>2, <1>3 DEF Stays, Full, OnCache, Packed, FinalSteps
    <2>4. Measured(b)'  BY <1>0, <1>1, <1>2, <1>3 DEF Stays, Measured
    <2>. QED  BY <1>3, <2>1, <2>2, <2>3, <2>4 DEF Settled, Mine
  <1>4. CASE Glides(b)  BY <1>4, GlidesKeeps
  <1>5. out[b] \in ImageDir  BY <1>0 DEF Types
  <1>. QED  BY <1>0, <1>1, <1>2, <1>3, <1>4, <1>5 DEF Stays, Glides, CopyBegin,
               extract_squashfs, Goto, Leave, copyFrame, devVars, measVars, keyVars, histVars,
               Types, Ended, OnCache, ImageDir

\* The injected layer has the file of the COPY line as well.
LEMMA CopyInjectAlone ==
    ASSUME BuildInv, NEW b \in Builds, Active(b), Mine(b), Own(b), CopyInject(b)
    PROVE  Settled(b)'
  <1>0. Types /\ Work(b) /\ Devices(b) /\ Line(b) /\ Cache(b) /\ Full(b) /\ Measured(b)
    BY DEF BuildInv, Build, Mine
  <1>1. st[b] = "inject"  BY DEF CopyInject, At
  <1>2. root[b] \in Paths /\ (root[b] = b \/ root[b] \in Images) /\ root[b] # None
    BY <1>0, <1>1, NonePath DEF Types, Work, Own, RunSteps, CopySteps, FinalSteps
  <1>3. ASSUME NEW n \in Names, Stays(b), sqfs' = sqfs /\ ext4' = ext4, st'[b] = "truncateRoot",
               name'[b] = n, inj'[n] = extr[b] \cup {<<b, pc[b]>>}
        PROVE  Settled(b)'
    <2>1. Whole(b, prog[b], pc[b], inj'[n]) /\ <<b, pc[b]>> \in inj'[n]
      <3>1. Whole(b, prog[b], pc[b], extr[b])  BY <1>0, <1>1 DEF Full
      <3>2. pc[b] \in Nat  BY <1>0 DEF Types
      <3>. QED  BY <1>3, <3>1, <3>2, WholeAdds
    <2>2. Line(b)'
      BY <1>0, <1>1, <1>2, <1>3 DEF Stays, Line, Instr, RunSteps, CopySteps, FinalSteps
    <2>3. Cache(b)'
      BY <1>0, <1>1, <1>2, <1>3, <2>1 DEF Stays, Cache, Cached, RunSteps, Paths
    <2>4. Full(b)'
      BY <1>0, <1>1, <1>2, <1>3, <2>1 DEF Stays, Full, OnCache, Packed, FinalSteps
    <2>5. Measured(b)'  BY <1>0, <1>1, <1>2, <1>3 DEF Stays, Measured
    <2>. QED  BY <1>3, <2>2, <2>3, <2>4, <2>5 DEF Settled, Mine
  <1>4. CASE Glides(b)  BY <1>4, GlidesKeeps
  <1>5. out[b] \in ImageDir  BY <1>0 DEF Types
  <1>. QED  BY <1>0, <1>1, <1>2, <1>3, <1>4, <1>5 DEF Stays, Glides, CopyInject, Goto, Leave,
               copyFrame, devVars, measVars, keyVars, histVars, Types, Ended, OnCache, ImageDir

\* Only the image that is written next is torn.
LEMMA CopyTruncateAlone ==
    ASSUME BuildInv, NEW b \in Builds, Active(b), Mine(b), Own(b), CopyTruncate(b)
    PROVE  Settled(b)'
  <1>0. Types /\ Work(b) /\ Devices(b) /\ Line(b) /\ Cache(b) /\ Full(b) /\ Measured(b)
    BY DEF BuildInv, Build, Mine
  <1>1. st[b] = "truncateRoot"  BY DEF CopyTruncate, At
  <1>2. root[b] \in Paths /\ (root[b] = b \/ root[b] \in Images) /\ root[b] # None
    BY <1>0, <1>1, NonePath DEF Types, Work, Own, RunSteps, CopySteps, FinalSteps
  <1>3. CASE /\ Stays(b) /\ ext4' = ext4 /\ inj' = inj /\ name'[b] = name[b]
             /\ st'[b] = "write" /\ \A p \in Paths \ {root[b]} : sqfs'[p] = sqfs[p]
    <2>1. Line(b)'
      BY <1>0, <1>1, <1>2, <1>3 DEF Stays, Line, Instr, RunSteps, CopySteps, FinalSteps
    <2>2. Cache(b)'
      BY <1>0, <1>1, <1>2, <1>3 DEF Stays, Cache, Cached, RunSteps, Paths
    <2>3. Full(b)'
      BY <1>0, <1>1, <1>2, <1>3 DEF Stays, Full, OnCache, Packed, FinalSteps
    <2>4. Measured(b)'  BY <1>0, <1>1, <1>2, <1>3 DEF Stays, Measured
    <2>. QED  BY <1>3, <2>1, <2>2, <2>3, <2>4 DEF Settled, Mine
  <1>4. out'[b].pcrs = out[b].pcrs
    BY <1>0, RewriteEntries DEF CopyTruncate, Types, Rewritten
  <1>. QED  BY <1>0, <1>1, <1>2, <1>3, <1>4 DEF Stays, Glides, CopyTruncate, Goto, copyFrame,
                                                devVars, measVars, keyVars, histVars, Types,
                                                Ended, OnCache, ImageDir

\* The image directory gets the whole rootfs.
LEMMA FinalizeCopyAlone ==
    ASSUME BuildInv, NEW b \in Builds, Active(b), Mine(b), Own(b), FinalizeCopy(b)
    PROVE  Settled(b)'
  <1>0. Types /\ Work(b) /\ Devices(b) /\ Line(b) /\ Cache(b) /\ Full(b) /\ Measured(b)
    BY DEF BuildInv, Build, Mine
  <1>1. st[b] = "next" /\ pc[b] > Len(prog[b]) /\ root[b] # None  BY DEF FinalizeCopy, At
  <1>2. root[b] \in Paths /\ (root[b] = b \/ root[b] \in Images) /\ root[b] # None
    BY <1>0, <1>1, NonePath DEF Types, Work, Own, RunSteps, CopySteps, FinalSteps
  <1>3. CASE /\ Stays(b) /\ ext4' = ext4 /\ st'[b] = "hash"
             /\ sqfs'[Output(b)] = sqfs[root[b]]
             /\ \A p \in Paths \ {Output(b)} : sqfs'[p] = sqfs[p]
    <2>5. sqfs'[root[b]] = sqfs[root[b]]  BY <1>2, <1>3
    <2>1. Line(b)'
      BY <1>0, <1>1, <1>2, <1>3 DEF Stays, Line, Instr, RunSteps, CopySteps, FinalSteps, Types
    <2>6. Whole(b, prog[b], pc[b], sqfs[root[b]])  BY <1>0, <1>1 DEF Full
    <2>2. Cache(b)'
      BY <1>0, <1>1, <1>2, <1>3, <2>6 DEF Stays, Cache, Cached, RunSteps, Paths, Whole
    <2>3. Full(b)'
      BY <1>0, <1>1, <1>2, <1>3, <2>5, <2>6 DEF Stays, Full, OnCache, Packed, FinalSteps
    <2>4. Measured(b)'  BY <1>0, <1>1, <1>2, <1>3 DEF Stays, Measured
    <2>. QED  BY <1>3, <2>1, <2>2, <2>3, <2>4 DEF Settled, Mine
  <1>4. CASE st'[b] = "failed"  BY <1>4 DEF Settled, Active, Ended
  <1>5. Output(b) \in Paths  BY OutputPath
  <1>. QED  BY <1>0, <1>1, <1>2, <1>3, <1>4, <1>5 DEF Stays, FinalizeCopy, Goto, measVars, Types

-----------------------------------------------------------------------------
(* The steps that end a line, and the first one.                            *)

\* The loop goes on to the next line with a rootfs that is whole for it.
LEMMA NextLine ==
    ASSUME Types, NEW b \in Builds, pc[b] \in 1..Len(prog[b]),
           prog'[b] = prog[b], pc'[b] = pc[b] + 1, st'[b] = "next",
           \A p \in Images : sqfs'[p] \in Content \cup {None},
           root'[b] \in Images => FromSeen(prog[b], pc[b] + 1, root'[b]),
           FromOnce(prog[b]) => \A p \in Images : ext4'[p] # None =>
               FromSeen(prog[b], pc[b], p) /\ root'[b] # p,
           ext4'[b] = None,
           root'[b] # None => Whole(b, prog[b], pc[b] + 1, sqfs'[root'[b]]),
           Measured(b)'
    PROVE  Settled(b)'
  <1>1. Len(prog[b]) \in Nat  BY ProgLen
  <1>2. pc[b] \in Nat \ {0} /\ pc[b] + 1 \in 1..(Len(prog[b]) + 1)  BY <1>1
  <1>3. Line(b)'  BY <1>2 DEF Line, RunSteps, CopySteps, FinalSteps
  <1>4. Cache(b)'  BY <1>2, SeenNext DEF Cache
  <1>5. Full(b)'  BY <1>2 DEF Full, OnCache, Packed, FinalSteps
  <1>. QED  BY <1>3, <1>4, <1>5 DEF Settled, Mine

\* FROM takes an image that is whole, and that no RUN of this file has cached.
LEMMA HandleFromAlone ==
    ASSUME BuildInv, NEW b \in Builds, Active(b), Mine(b), HandleFrom(b)
    PROVE  Settled(b)'
  <1>0. Types /\ Line(b) /\ Cache(b) /\ Measured(b)  BY DEF BuildInv, Mine
  <1>1. st[b] = "next" /\ pc[b] <= Len(prog[b]) /\ prog[b][pc[b]].op = "from"
    BY DEF HandleFrom, At, Instr
  <1>2. Len(prog[b]) \in Nat /\ pc[b] \in 1..Len(prog[b]) /\ pc[b] \in Nat \ {0}
    BY <1>0, <1>1, ProgLen DEF Line
  <1>3. CASE Instr(b).image \in Images /\ sqfs[Instr(b).image] # None
    <2>. DEFINE m == prog[b][pc[b]].image
    <2>1. m \in Images /\ sqfs[m] \in Content  BY <1>0, <1>1, <1>3 DEF Instr, Cache
    <2>2. /\ root'[b] = m /\ pc'[b] = pc[b] + 1 /\ st'[b] = "next" /\ prog' = prog
          /\ sqfs' = sqfs /\ ext4' = ext4 /\ pcr' = pcr /\ out' = out
      BY <1>0, <1>3 DEF HandleFrom, Instr, Advance, Goto, Types, fileVars, measVars
    <2>. HIDE DEF m
    <2>3. FromSeen(prog[b], pc[b] + 1, m)  BY <1>1, <1>2, SeenNext DEF m
    <2>4. Whole(b, prog[b], pc[b] + 1, sqfs[m])  BY <1>1, <1>2, <2>1, WholeFrom
    <2>5. FromOnce(prog[b]) => \A p \in Images : ext4[p] # None =>
              FromSeen(prog[b], pc[b], p) /\ m # p
      <3>1. FromOnce(prog[b]) => ~FromSeen(prog[b], pc[b], m)  BY <1>1, <1>2, SeenOnce DEF m
      <3>. QED  BY <1>0, <3>1 DEF Cache
    <2>6. ext4[b] = None /\ \A p \in Images : sqfs[p] \in Content \cup {None}
      BY <1>0, <1>1 DEF Cache, Cached, RunSteps
    <2>7. Measured(b)'  BY <1>0, <2>2 DEF Measured
    <2>. QED  BY <1>0, <1>2, <2>1, <2>2, <2>3, <2>4, <2>5, <2>6, <2>7, NextLine
  <1>4. CASE ~(Instr(b).image \in Images /\ sqfs[Instr(b).image] # None)
    <2>1. Glides(b)
      BY <1>0, <1>4 DEF HandleFrom, Goto, Types, fileVars, measVars, Glides, Ended
    <2>. QED  BY <2>1, GlidesKeeps
  <1>. QED  BY <1>3, <1>4

\* A line of the configuration leaves the rootfs as it is.
LEMMA HandleConfigAlone ==
    ASSUME BuildInv, NEW b \in Builds, Active(b), Mine(b), HandleConfig(b)
    PROVE  Settled(b)'
  <1>0. Types /\ Line(b) /\ Cache(b) /\ Full(b) /\ Measured(b)  BY DEF BuildInv, Mine
  <1>1. st[b] = "next" /\ pc[b] <= Len(prog[b])
        /\ prog[b][pc[b]].op \in {"config", "measured"}
    BY DEF HandleConfig, At, Instr
  <1>2. pc[b] \in 1..Len(prog[b]) /\ pc[b] \in Nat \ {0}
    BY <1>0, <1>1, ProgLen DEF Line
  <1>3. /\ root'[b] = root[b] /\ pc'[b] = pc[b] + 1 /\ st'[b] = "next" /\ prog' = prog
        /\ sqfs' = sqfs /\ ext4' = ext4 /\ pcr' = pcr /\ out' = out
    BY <1>0 DEF HandleConfig, Advance, Goto, Types, fileVars, measVars
  <1>4. /\ ext4[b] = None /\ \A p \in Images : sqfs[p] \in Content \cup {None}
        /\ FromOnce(prog[b]) => \A p \in Images : ext4[p] # None =>
               FromSeen(prog[b], pc[b], p) /\ root[b] # p
        /\ root[b] \in Images => FromSeen(prog[b], pc[b], root[b])
    BY <1>0, <1>1 DEF Cache, Cached, RunSteps
  <1>5. root[b] \in Images => FromSeen(prog[b], pc[b] + 1, root[b])  BY <1>2, <1>4, SeenNext
  <1>6. root[b] # None => Whole(b, prog[b], pc[b] + 1, sqfs[root[b]])
    <2>1. root[b] # None => Whole(b, prog[b], pc[b], sqfs[root[b]])  BY <1>0, <1>1 DEF Full
    <2>. QED  BY <1>1, <1>2, <2>1, WholeNext
  <1>7. Measured(b)'  BY <1>0, <1>3 DEF Measured
  <1>. QED  BY <1>0, <1>2, <1>3, <1>4, <1>5, <1>6, <1>7, NextLine

\* The layer of a RUN has what was copied before it.
LEMMA RunEndAlone ==
    ASSUME BuildInv, NEW b \in Builds, Active(b), Mine(b), RunEnd(b)
    PROVE  Settled(b)'
  <1>0. Types /\ Line(b) /\ Cache(b) /\ Full(b) /\ Measured(b)  BY DEF BuildInv, Mine
  <1>1. st[b] = "runEnd"  BY DEF RunEnd
  <1>2. pc[b] \in 1..Len(prog[b]) /\ pc[b] \in Nat \ {0} /\ prog[b][pc[b]].op = "run"
    BY <1>0, <1>1, ProgLen DEF Line, RunSteps, Instr
  <1>3. b \in Paths /\ Images \subseteq Paths /\ b \notin Images  BY OutputPath DEF Paths
  <1>4. CASE ~err[b] /\ Advance(b)
             /\ root' = [root EXCEPT ![b] = b] /\ sqfs' = [sqfs EXCEPT ![b] = extr[b]]
             /\ ext4' = [ext4 EXCEPT ![b] = None]
    <2>1. /\ root'[b] = b /\ pc'[b] = pc[b] + 1 /\ st'[b] = "next" /\ sqfs'[b] = extr[b]
          /\ ext4'[b] = None /\ \A p \in Images : sqfs'[p] = sqfs[p] /\ ext4'[p] = ext4[p]
      BY <1>0, <1>3, <1>4 DEF Advance, Goto, Types
    <2>2. prog' = prog /\ pcr' = pcr /\ out' = out  BY DEF RunEnd, measVars
    <2>3. Whole(b, prog[b], pc[b] + 1, extr[b])
      <3>1. Whole(b, prog[b], pc[b], extr[b])  BY <1>0, <1>1, <1>4 DEF Full, Packed
      <3>. QED  BY <1>2, <3>1, WholeNext
    <2>4. /\ \A p \in Images : sqfs[p] \in Content \cup {None}
          /\ FromOnce(prog[b]) => \A p \in Images : ext4[p] # None =>
                 FromSeen(prog[b], pc[b], p)
      BY <1>0, <1>1 DEF Cache
    <2>5. Measured(b)'  BY <1>0, <2>2 DEF Measured
    <2>. QED  BY <1>0, <1>2, <1>3, <2>1, <2>2, <2>3, <2>4, <2>5, NextLine
  <1>5. CASE Leave(b) /\ UNCHANGED <<pc, root, sqfs, ext4>>
    <2>1. Glides(b)
      BY <1>0, <1>5 DEF RunEnd, Leave, Goto, Types, measVars, Glides, Ended
    <2>. QED  BY <2>1, GlidesKeeps
  <1>. QED  BY <1>4, <1>5 DEF RunEnd

\* The rootfs that COPY writes has the file of its line.
LEMMA CopyWriteAlone ==
    ASSUME BuildInv, NEW b \in Builds, Active(b), Mine(b), Own(b), CopyWrite(b)
    PROVE  Settled(b)'
  <1>0. Types /\ Work(b) /\ Line(b) /\ Cache(b) /\ Full(b) /\ Measured(b)
    BY DEF BuildInv, Build, Mine
  <1>1. st[b] = "write"  BY DEF CopyWrite
  <1>2. pc[b] \in 1..Len(prog[b]) /\ pc[b] \in Nat \ {0} /\ prog[b][pc[b]].op = "copy"
    BY <1>0, <1>1, ProgLen DEF Line, CopySteps, Instr
  <1>3. b \in Paths /\ Images \subseteq Paths /\ root[b] \in Paths
    BY <1>0, <1>1 DEF Work, CopySteps, Paths
  <1>4. CASE sqfs' = [sqfs EXCEPT ![root[b]] = inj[name[b]]] /\ Rewrite(b) /\ Advance(b)
    <2>1. /\ pc'[b] = pc[b] + 1 /\ st'[b] = "next" /\ sqfs'[root[b]] = inj[name[b]]
          /\ \A p \in Images \ {root[b]} : sqfs'[p] = sqfs[p]
      BY <1>0, <1>3, <1>4 DEF Advance, Goto, Types
    <2>2. prog' = prog /\ root' = root /\ ext4' = ext4 /\ pcr' = pcr
      BY DEF CopyWrite, copyFrame, measVars
    <2>9. out'[b].pcrs = out[b].pcrs  BY <1>0, <1>4, RewriteEntries DEF Types, Rewritten
    <2>3. /\ Whole(b, prog[b], pc[b], inj[name[b]]) /\ <<b, pc[b]>> \in inj[name[b]]
      BY <1>0, <1>1 DEF Full
    <2>4. Whole(b, prog[b], pc[b] + 1, inj[name[b]])  BY <1>2, <2>3, WholeNext
    <2>5. \A p \in Images : sqfs'[p] \in Content \cup {None}
      BY <1>0, <2>1, <2>3 DEF Cache, Whole
    <2>6. /\ ext4[b] = None
          /\ FromOnce(prog[b]) => \A p \in Images : ext4[p] # None =>
                 FromSeen(prog[b], pc[b], p) /\ root[b] # p
          /\ root[b] \in Images => FromSeen(prog[b], pc[b], root[b])
      BY <1>0, <1>1 DEF Cache, Cached, RunSteps
    <2>7. root[b] \in Images => FromSeen(prog[b], pc[b] + 1, root[b])  BY <1>2, <2>6, SeenNext
    <2>8. Measured(b)'  BY <1>0, <2>2, <2>9 DEF Measured
    <2>. QED  BY <1>0, <1>2, <2>1, <2>2, <2>4, <2>5, <2>6, <2>7, <2>8, NextLine
  <1>5. CASE Goto(b, "failed") /\ UNCHANGED <<pc, sqfs, out>>
    <2>1. Glides(b)
      BY <1>0, <1>5 DEF CopyWrite, Goto, Types, copyFrame, measVars, Glides, Ended
    <2>. QED  BY <2>1, GlidesKeeps
  <1>. QED  BY <1>4, <1>5 DEF CopyWrite

\* A build that begins alone finds no cached and no torn image.
LEMMA BuildBeginAlone ==
    ASSUME BuildInv, NEW b \in Builds, Clean(b), BuildBegin(b), b \in alone'
    PROVE  Settled(b)' /\ Solo(b)'
  <1>0. Types  BY DEF BuildInv
  <1>1. /\ st[b] = "idle" /\ pc[b] = 1 /\ root[b] = None /\ ext4[b] = None
        /\ pcr[b] = {} /\ out[b].pcrs = None /\ b \notin alone
    BY DEF BuildBegin, Clean
  <1>2. /\ pc' = pc /\ root' = root /\ sqfs' = sqfs /\ ext4' = ext4 /\ pcr' = pcr /\ out' = out
        /\ st'[b] \in {"next", "failed"} /\ \A c \in Builds \ {b} : st'[c] = st[c]
    BY <1>0 DEF BuildBegin, Goto, Types, fileVars, measVars
  <1>3. /\ \A c \in Builds \ {b} : ~Active(c)
        /\ \A p \in Images : ext4[p] = None /\ sqfs[p] # Torn
    BY <1>1 DEF BuildBegin, Lonely, Active
  <1>4. Solo(b)'  BY <1>2, <1>3 DEF Solo, Active
  <1>5. Len(prog'[b]) \in Nat
    <2>1. PICK p \in Programs : prog' = [prog EXCEPT ![b] = p]  BY DEF BuildBegin
    <2>2. prog'[b] = p  BY <1>0, <2>1 DEF Types
    <2>3. p \in Seq(Instructions)  BY BuildAssumption
    <2>4. Len(p) \in Nat  BY <2>3
    <2>. QED  BY <2>2, <2>4
  <1>6. ASSUME st'[b] = "next" PROVE Mine(b)'
    <2>1. Line(b)'  BY <1>1, <1>2, <1>5, <1>6 DEF Line, RunSteps, CopySteps, FinalSteps
    <2>2. Cache(b)'
      <3>1. \A p \in Images : sqfs[p] \in Content \cup {None}
        BY <1>0, <1>3 DEF Types, Paths, Files
      <3>2. root'[b] \notin Images  BY <1>1, <1>2, BuildAssumption DEF Images
      <3>. QED  BY <1>1, <1>2, <1>3, <3>1, <3>2 DEF Cache
    <2>3. Full(b)'  BY <1>1, <1>2, <1>6 DEF Full, OnCache, Packed, FinalSteps
    <2>4. Measured(b)'  BY <1>1, <1>2 DEF Measured
    <2>. QED  BY <2>1, <2>2, <2>3, <2>4 DEF Mine
  <1>. QED  BY <1>2, <1>4, <1>6 DEF Settled, Active, Ended

-----------------------------------------------------------------------------
(* The second invariant holds, and with it the property.                    *)

\* Every step of a build that is alone keeps it so settled.
LEMMA AloneSteps ==
    ASSUME BuildInv, NEW b \in Builds, Active(b), Mine(b), Own(b), Acts(b), ~BuildBegin(b)
    PROVE  Settled(b)'
  <1>0. Types  BY DEF BuildInv
  <1>. USE <1>0, GlideSteps, GlidesKeeps
  <1>1. CASE RunStep(b)
    BY <1>1, RunBeginAlone, RunExtractAlone, RunTruncateAlone, RunMkfsAlone, RunSquashAlone,
       RunEndAlone
    DEF RunStep
  <1>2. CASE CopyStep(b)
    BY <1>2, CopyBeginAlone, CopyInjectAlone, CopyTruncateAlone, CopyWriteAlone DEF CopyStep
  <1>3. CASE FinalStep(b)
    BY <1>3, FinalizeCopyAlone DEF FinalStep
  <1>4. CASE HandleFrom(b) \/ HandleConfig(b) \/ NoRootfs(b) \/ VmExits(b)
             \/ HypervisorListens(b) \/ Cancel(b)
    BY <1>4, HandleFromAlone, HandleConfigAlone
  <1>. QED  BY <1>1, <1>2, <1>3, <1>4 DEF Acts, Step

\* A build works on a base image or its own layer, and never goes back to the start.
LEMMA OwnSteps ==
    ASSUME Types, NEW b \in Builds, Own(b), Acts(b)
    PROVE  Own(b)' /\ (st'[b] = "idle" => VmExits(b))
  <1>. USE DEF Own, Types
  <1>1. CASE BuildBegin(b)
    BY <1>1 DEF BuildBegin, Goto, fileVars, devVars, measVars, keyVars
  <1>2. CASE HandleFrom(b)
    BY <1>2 DEF HandleFrom, Advance, Goto, fileVars, devVars, measVars, keyVars, histVars
  <1>3. CASE HandleConfig(b)
    BY <1>3 DEF HandleConfig, Advance, Goto, fileVars, devVars, measVars, keyVars, histVars
  <1>4. CASE NoRootfs(b)
    BY <1>4 DEF NoRootfs, Goto, fileVars, devVars, measVars, keyVars, histVars
  <1>5. CASE VmExits(b)
    BY <1>5 DEF VmExits, buildVars, fileVars, measVars, keyVars, histVars
  <1>6. CASE HypervisorListens(b)
    BY <1>6 DEF HypervisorListens, keyVars, finalFrame, fileVars, devVars
  <1>7. CASE Cancel(b)
    BY <1>7 DEF Cancel, Goto, Spoil, fileVars, devVars, keyVars
  <1>8. CASE RunBegin(b)
    BY <1>8 DEF RunBegin, Goto, devVars, runFrame, measVars, keyVars
  <1>9. CASE RunExtract(b)
    BY <1>9 DEF RunExtract, extract_squashfs, Goto, Leave, devVars, runFrame, measVars, keyVars
  <1>10. CASE RunTruncate(b)
    BY <1>10 DEF RunTruncate, Goto, Leave, devVars, runFrame, measVars, keyVars
  <1>11. CASE RunMkfs(b)
    BY <1>11 DEF RunMkfs, Goto, Leave, devVars, runFrame, measVars, keyVars
  <1>12. CASE RunAttach(b)
    BY <1>12 DEF RunAttach, Goto, Leave, Spoil, runFrame, measVars, keyVars
  <1>13. CASE RunOrigin(b)
    BY <1>13 DEF RunOrigin, Goto, Leave, Spoil, runFrame, measVars, keyVars
  <1>14. CASE RunSnap(b)
    BY <1>14 DEF RunSnap, Goto, Leave, Spoil, runFrame, measVars, keyVars
  <1>15. CASE RunInitramfs(b)
    BY <1>15 DEF RunInitramfs, Goto, Unwind, runFrame, measVars, keyVars
  <1>16. CASE RunSpawn(b)
    BY <1>16 DEF RunSpawn, Goto, Unwind, runFrame, measVars, keyVars
  <1>17. CASE RunWait(b)
    BY <1>17 DEF RunWait, Goto, Unwind, devVars, runFrame, measVars, keyVars
  <1>18. CASE RunTimeout(b)
    BY <1>18 DEF RunTimeout, Unwind, Goto, Spoil, devVars, runFrame, measVars, keyVars
  <1>19. CASE RunSquash(b)
    BY <1>19 DEF RunSquash, Goto, Spoil, Unwind, runFrame, measVars, keyVars
  <1>20. CASE RunDetach(b)
    BY <1>20 DEF RunDetach, Goto, Spoil, runFrame, measVars, keyVars
  <1>21. CASE RunRmSnap(b)
    BY <1>21 DEF RunRmSnap, Goto, Spoil, runFrame, measVars, keyVars
  <1>22. CASE RunRmOrigin(b)
    BY <1>22 DEF RunRmOrigin, Goto, Spoil, runFrame, measVars, keyVars
  <1>23. CASE RunEnd(b)
    BY <1>23 DEF RunEnd, Advance, Goto, Leave, devVars, measVars, keyVars, histVars
  <1>24. CASE CopyBegin(b)
    BY <1>24 DEF CopyBegin, extract_squashfs, Goto, Leave, copyFrame, devVars, measVars,
                 keyVars, histVars
  <1>25. CASE CopyInject(b)
    BY <1>25 DEF CopyInject, Goto, Leave, copyFrame, devVars, measVars, keyVars, histVars
  <1>26. CASE CopyTruncate(b)
    BY <1>26 DEF CopyTruncate, Goto, copyFrame, devVars, measVars, keyVars, histVars
  <1>27. CASE CopyWrite(b)
    BY <1>27 DEF CopyWrite, Advance, Goto, copyFrame, devVars, measVars, keyVars, histVars
  <1>28. CASE FinalizeCopy(b)
    BY <1>28 DEF FinalizeCopy, Goto, devVars, measVars, keyVars, histVars
  <1>29. CASE FinalizeHash(b)
    BY <1>29 DEF FinalizeHash, Goto, measVars, keyVars, finalFrame, fileVars, devVars
  <1>30. CASE MeasureVtpm(b)
    BY <1>30 DEF MeasureVtpm, Goto, keyVars, finalFrame, fileVars, devVars
  <1>31. CASE MeasureSpawn(b)
    BY <1>31 DEF MeasureSpawn, Goto, keyVars, finalFrame, fileVars, devVars
  <1>32. CASE MeasureSocket(b)
    BY <1>32 DEF MeasureSocket, Goto, keyVars, finalFrame, fileVars, devVars
  <1>33. CASE MeasureBoot(b)
    BY <1>33 DEF MeasureBoot, Goto, keyVars, finalFrame, fileVars, devVars
  <1>34. CASE MeasureRead(b)
    BY <1>34 DEF MeasureRead, Goto, keyVars, finalFrame, fileVars, devVars
  <1>35. CASE FinalizeManifest(b)
    BY <1>35 DEF FinalizeManifest, Goto, measVars, keyVars, finalFrame, fileVars, devVars
  <1>36. CASE ResolveKey(b)
    BY <1>36 DEF ResolveKey, Signed, Goto, measVars, keyVars, finalFrame, fileVars, devVars
  <1>37. CASE MakeKeyDir(b)
    BY <1>37 DEF MakeKeyDir, Goto, measVars, finalFrame, fileVars, devVars
  <1>38. CASE SavePublic(b)
    BY <1>38 DEF SavePublic, Goto, measVars, finalFrame, fileVars, devVars
  <1>39. CASE SaveSecret(b)
    BY <1>39 DEF SaveSecret, Signed, Goto, measVars, finalFrame, fileVars, devVars
  <1>. QED
    BY <1>1, <1>2, <1>3, <1>4, <1>5, <1>6, <1>7, <1>8, <1>9, <1>10, <1>11, <1>12, <1>13,
       <1>14, <1>15, <1>16, <1>17, <1>18, <1>19, <1>20, <1>21, <1>22, <1>23, <1>24, <1>25,
       <1>26, <1>27, <1>28, <1>29, <1>30, <1>31, <1>32, <1>33, <1>34, <1>35, <1>36, <1>37,
       <1>38, <1>39
    DEF Acts, Step, RunStep, CopyStep, FinalStep

\* Only a request that comes in changes which builds are alone.
LEMMA AloneStays ==
    ASSUME NEW c \in Builds, Acts(c), ~BuildBegin(c)
    PROVE  alone' = alone
  <1>1. CASE RunStep(c)  BY <1>1 DEF RunStep, runFrame, histVars, RunBegin, RunExtract,
                                     RunTruncate, RunMkfs, RunAttach, RunOrigin, RunSnap,
                                     RunInitramfs, RunSpawn, RunWait, RunTimeout, RunSquash,
                                     RunDetach, RunRmSnap, RunRmOrigin, RunEnd
  <1>2. CASE CopyStep(c)  BY <1>2 DEF CopyStep, copyFrame, histVars, CopyBegin, CopyInject,
                                      CopyTruncate, CopyWrite
  <1>3. CASE FinalStep(c)  BY <1>3 DEF FinalStep, finalFrame, histVars, FinalizeCopy,
                                       FinalizeHash, MeasureVtpm, MeasureSpawn, MeasureSocket, MeasureBoot,
                                       MeasureRead, FinalizeManifest, ResolveKey, MakeKeyDir,
                                       SavePublic, SaveSecret
  <1>4. CASE HandleFrom(c) \/ HandleConfig(c) \/ NoRootfs(c)
    BY <1>4 DEF histVars, HandleFrom, HandleConfig, NoRootfs
  <1>5. CASE VmExits(c) \/ HypervisorListens(c) \/ Cancel(c)
    BY <1>5 DEF histVars, finalFrame, VmExits, HypervisorListens, Cancel
  <1>. QED  BY <1>1, <1>2, <1>3, <1>4, <1>5 DEF Acts, Step

\* A build is not touched by a step of another one: that one would have to work beside
\* it, or to begin, and then it is alone no more.
LEMMA AloneBeside ==
    ASSUME BuildInv, NEW c \in Builds, NEW b \in Builds \ {c},
           Own(c), Own(b), Clean(b), Alone(b), Acts(c)
    PROVE  Own(b)' /\ Clean(b)' /\ Alone(b)'
  <1>0. Types  BY DEF BuildInv
  <1>1. Spares(c, b)  BY <1>0, StepSpares
  <1>2. root[c] # b /\ b # None  BY BuildAssumption, OutputPath DEF Own
  <1>3. b \in alone' => b \in alone
    <2>1. BuildBegin(c) => alone' \subseteq alone \cup {c}  BY DEF BuildBegin, Lonely
    <2>. QED  BY <1>1, <2>1 DEF Spares
  <1>4. Own(b)'  BY <1>1 DEF Own, Spares
  <1>5. Clean(b)'  BY <1>1, <1>2, <1>3 DEF Clean, Spares
  <1>6. ASSUME b \in alone' PROVE (Active(b) => Solo(b))' /\ Settled(b)'
    <2>1. (Active(b) => Solo(b)) /\ Settled(b)  BY <1>3, <1>6 DEF Alone
    <2>2. Active(b)' => Active(b)  BY <1>1 DEF Active, Spares
    <2>3. st'[b] = "done" => Complete(b)'
      BY <1>1, <2>1 DEF Settled, Complete, Spares
    <2>4. ASSUME Active(b)' PROVE Solo(b)' /\ Mine(b)'
      <3>1. Active(b) /\ Solo(b) /\ Mine(b) /\ ~Active(c)
        BY <2>1, <2>2, <2>4 DEF Settled, Solo
      <3>2. ~BuildBegin(c)
        BY <1>6, <3>1 DEF BuildBegin, Lonely, Active
      <3>3. VmExits(c)  BY <3>1, <3>2, ActsActive
      <3>4. UNCHANGED <<prog, pc, st, root, err, extr, name, sqfs, ext4, inj, pcr, out>>
        BY <3>3 DEF VmExits, buildVars, fileVars, measVars
      <3>5. Solo(b)'  BY <3>1, <3>4 DEF Solo, Active
      <3>6. Mine(b)'
        BY <3>1, <3>4 DEF Mine, Line, Instr, Cache, Full, Measured
      <3>. QED  BY <3>5, <3>6
    <2>. QED  BY <2>3, <2>4 DEF Settled
  <1>. QED  BY <1>4, <1>5, <1>6 DEF Alone

\* A step of the build itself.
LEMMA AloneItself ==
    ASSUME BuildInv, NEW b \in Builds, Own(b), Clean(b), Alone(b), Acts(b)
    PROVE  Own(b)' /\ Clean(b)' /\ Alone(b)'
  <1>0. Types  BY DEF BuildInv
  <1>1. Own(b)' /\ (st'[b] = "idle" => VmExits(b))  BY <1>0, OwnSteps
  <1>2. ASSUME VmExits(b)
        PROVE  UNCHANGED <<prog, pc, st, root, err, extr, name, sqfs, ext4, inj, tpmSock, pcr,
                           out, alone>>
    BY <1>2 DEF VmExits, buildVars, fileVars, measVars, histVars
  <1>3. Clean(b)'  BY <1>1, <1>2 DEF Clean
  <1>4. CASE BuildBegin(b)
    BY <1>1, <1>3, <1>4, BuildBeginAlone DEF Alone
  <1>5. CASE ~BuildBegin(b)
    <2>1. alone' = alone /\ \A c \in Builds \ {b} : st'[c] = st[c]
      <3>1. \A c \in Builds \ {b} : Spares(b, c)  BY <1>0, StepSpares
      <3>2. \A c \in Builds \ {b} : st'[c] = st[c]  BY <3>1 DEF Spares
      <3>3. alone' = alone  BY <1>0, <1>5, AloneStays
      <3>. QED  BY <3>2, <3>3
    <2>2. ASSUME b \in alone, Active(b) PROVE Settled(b)' /\ Solo(b)'
      <3>1. Solo(b) /\ Mine(b)  BY <2>2 DEF Alone, Settled
      <3>2. Settled(b)'  BY <1>5, <2>2, <3>1, AloneSteps
      <3>3. Solo(b)'  BY <2>1, <3>1 DEF Solo, Active
      <3>. QED  BY <3>2, <3>3
    <2>3. ASSUME b \in alone, ~Active(b) PROVE Settled(b)' /\ ~Active(b)'
      <3>1. VmExits(b)  BY <1>5, <2>3, ActsActive
      <3>2. Settled(b)  BY <2>3 DEF Alone
      <3>. QED  BY <1>2, <2>3, <3>1, <3>2 DEF Settled, Active, Complete
    <2>. QED  BY <1>1, <1>3, <2>1, <2>2, <2>3 DEF Alone
  <1>. QED  BY <1>4, <1>5

\* The work directory before the first build.
LEMMA AloneInvInit == Init => AloneInv
  <1>. SUFFICES ASSUME Init, NEW b \in Builds PROVE Own(b) /\ Clean(b) /\ Alone(b)
    BY DEF AloneInv
  <1>1. /\ root[b] = None /\ pc[b] = 1 /\ pcr[b] = {} /\ tpmSock = None /\ alone = {}
        /\ out[b] = NoImage
    BY DEF Init
  <1>2. ext4[b] = None  BY DEF Init, Paths
  <1>3. out[b].pcrs = None  BY <1>1 DEF NoImage
  <1>. QED  BY <1>1, <1>2, <1>3, BuildAssumption DEF Own, Clean, Alone

\* Every step of every build keeps the second invariant.
LEMMA AloneInvStep == BuildInv /\ AloneInv /\ [Next]_vars => AloneInv'
  <1>. SUFFICES ASSUME BuildInv, AloneInv, [Next]_vars, NEW b \in Builds
                PROVE  Own(b)' /\ Clean(b)' /\ Alone(b)'
    BY DEF AloneInv
  <1>1. ASSUME NEW c \in Builds, Acts(c) PROVE Own(b)' /\ Clean(b)' /\ Alone(b)'
    BY <1>1, AloneBeside, AloneItself DEF AloneInv
  <1>2. CASE UNCHANGED vars
    <2>1. UNCHANGED <<prog, pc, st, root, err, extr, name, sqfs, ext4, inj, tpmSock, pcr,
                      out, alone>>
      BY <1>2 DEF vars, buildVars, fileVars, measVars, histVars
    <2>2. Own(b) /\ Clean(b) /\ Alone(b)  BY DEF AloneInv
    <2>3. Own(b)' /\ Clean(b)'  BY <2>1, <2>2 DEF Own, Clean
    <2>4. Alone(b)'
      BY <2>1, <2>2 DEF Alone, Solo, Settled, Active, Complete, Mine, Line, Instr, Cache, Full,
                        Measured
    <2>. QED  BY <2>3, <2>4
  <1>. QED  BY <1>1, <1>2 DEF Next, Acts

\* A build that ran alone, from any file and over any images, makes a whole image with
\* every file it copied since its last FROM, which it keeps until a later build copies
\* into it, and is measured as itself or not at all.
THEOREM AloneIsCompleteHolds == Spec => []AloneIsComplete
  <1>1. BuildInv /\ AloneInv => AloneIsComplete
    <2>. SUFFICES ASSUME BuildInv, AloneInv, NEW b \in alone, st[b] = "done"
                  PROVE  /\ ~out[b].rewritten =>
                              /\ sqfs[Output(b)] \in Content
                              /\ FromOnce(prog[b]) =>
                                     \A i \in CopyLines(b) : <<b, i>> \in sqfs[Output(b)]
                         /\ out[b].pcrs # None => out[b].pcrs \subseteq {b}
      BY DEF AloneIsComplete
    <2>1. Types /\ b \in Builds  BY DEF BuildInv, Types
    <2>2. Complete(b)  BY <2>1 DEF AloneInv, Alone, Settled
    <2>3. Len(prog[b]) \in Nat  BY <2>1, ProgLen
    <2>4. ASSUME ~out[b].rewritten
          PROVE  /\ sqfs[Output(b)] \in Content
                 /\ FromOnce(prog[b]) => \A i \in CopyLines(b) : <<b, i>> \in sqfs[Output(b)]
      <3>1. Whole(b, prog[b], Len(prog[b]) + 1, sqfs[Output(b)])  BY <2>2, <2>4 DEF Complete
      <3>2. sqfs[Output(b)] \in Content  BY <3>1 DEF Whole
      <3>. QED  BY <2>1, <2>3, <3>1, <3>2, WholeAtEnd
    <2>5. out[b].pcrs # None => out[b].pcrs \subseteq {b}  BY <2>2 DEF Complete
    <2>. QED  BY <2>4, <2>5
  <1>. QED  BY <1>1, BuildInvariant, AloneInvInit, AloneInvStep, PTL DEF Spec

=============================================================================
