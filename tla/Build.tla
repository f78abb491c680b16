---------------------------- MODULE Build ----------------------------
(***************************************************************************)
(* The image builder: POST /build (vyomad/src/api/handlers.rs) hands each  *)
(* request to a BuildRunner of its own (vyoma-build/src/runner.rs), which  *)
(* interprets a Vyomafile line by line.  Builds run concurrently, without  *)
(* a lock, in one work directory, so they share the base images, the ext4  *)
(* cache, the injected-layer file, the device-mapper name (it is made from *)
(* the daemon's pid), the initramfs file, the measurement sockets and the  *)
(* signing key files.                                                      *)
(*                                                                         *)
(* What a file system holds is the set of COPY instructions whose file is  *)
(* in it, each named by its build and its line.  A RUN adds nothing: the   *)
(* init script powers the VM off before it writes the command's script.    *)
(***************************************************************************)
EXTENDS Naturals, Sequences, FiniteSets

CONSTANTS
    Builds,     \* the requests for a build
    Bases,      \* the names of base images a FROM may use
    Programs,   \* the Vyomafiles a request may carry
    Names,      \* the seconds in which COPY names its new layer file
    KeyPath,    \* whether the policy names a directory of signing keys
    None,       \* no file, no owner, no value
    Torn        \* a file that was truncated and not written to its end

Ops == {"from", "run", "copy", "config", "measured", "bad"}

Output(b) == <<b>>                      \* images/<build id>, where b puts its image
Images    == Bases \cup {Output(b) : b \in Builds}

Instructions == [op : Ops, image : Images \cup {None}]

Owner   == Builds \cup {None}
Paths   == Images \cup Builds     \* a build's own path is its latest layer
Copies  == Builds \X Nat
Content == SUBSET Copies
Files   == Content \cup {None, Torn}

ASSUME BuildAssumption ==
    /\ Builds \cap Bases = {}
    /\ None # Torn /\ None \notin Builds \cup Bases /\ Torn \notin Builds \cup Bases
    /\ \A b \in Builds : Output(b) \notin Builds \cup Bases \cup {None, Torn}
    /\ Programs \subseteq Seq(Instructions)
    /\ KeyPath \in BOOLEAN

VARIABLES
    prog, pc, st, root, err,          \* each build: file, line, step, rootfs, result
    extr, name,                       \* what it extracted; the second of its layer
    sqfs, ext4, inj,                  \* squashfs images, ext4 cache, injected layers
    origin, snap, mounted,            \* device-mapper devices of the shared name
    loops, vm, initram,               \* loop devices, build VMs, the initramfs file
    chSock, tpmSock, pcr, child,      \* measurement: sockets, vTPM state, hypervisor
    keyDir, keyPub, keySec,           \* the signing key files
    out,                              \* what else lies in each build's image directory
    spoiled, alone                    \* history: see Spoil and Lonely

buildVars == <<prog, pc, st, root, err, extr, name>>
fileVars  == <<sqfs, ext4, inj>>
devVars   == <<origin, snap, mounted, loops, vm, initram>>
measVars  == <<chSock, tpmSock, pcr, child>>
keyVars   == <<keyDir, keyPub, keySec>>
histVars  == <<spoiled, alone>>
vars == <<buildVars, fileVars, devVars, measVars, keyVars, out, histVars>>

RunSteps == {"extract", "truncate", "mkfs", "attach", "origin", "snap", "initram",
             "spawn", "vm", "squash", "detach", "rmSnap", "rmOrigin", "runEnd"}
CopySteps == {"inject", "truncateRoot", "write"}
FinalSteps == {"hash", "vtpm", "hyper", "socket", "boot", "read",
               "manifest", "key", "mkdir", "pub", "sec"}
Ended  == {"done", "failed", "cancelled"}
Steps  == {"idle", "next"} \cup RunSteps \cup CopySteps \cup FinalSteps \cup Ended

\* rewritten is history: a COPY of some build has written the image in place.
NoImage == [hash |-> None, pcrs |-> None, manifest |-> FALSE,
            seed |-> None, pub |-> None, rewritten |-> FALSE]

----------------------------------------------------------------------------
(* A new BuildRunner has no rootfs and no configuration; the work directory *)
(* holds the base images that were pulled and nothing else.                 *)
Init ==
    /\ prog = [b \in Builds |-> <<>>] /\ pc = [b \in Builds |-> 1]
    /\ st = [b \in Builds |-> "idle"] /\ root = [b \in Builds |-> None]
    /\ err = [b \in Builds |-> FALSE]
    /\ extr = [b \in Builds |-> None] /\ name = [b \in Builds |-> None]
    /\ sqfs \in {f \in [Paths -> {None, {}}] :
                   \A b \in Builds : f[b] = None /\ f[Output(b)] = None}
    /\ ext4 = [p \in Paths |-> None] /\ inj = [n \in Names |-> None]
    /\ origin = None /\ snap = None /\ mounted = FALSE
    /\ loops = [b \in Builds |-> 0] /\ vm = [b \in Builds |-> None]
    /\ initram = None
    /\ chSock = None /\ tpmSock = None
    /\ pcr = [b \in Builds |-> {}] /\ child = [b \in Builds |-> FALSE]
    /\ keyDir = FALSE /\ keyPub = None /\ keySec = None
    /\ out = [b \in Builds |-> NoImage]
    /\ spoiled = {} /\ alone = {}

Goto(b, s) == st' = [st EXCEPT ![b] = s]

\* History: a call to the kernel failed, the VM outlived its time or the client went.
Spoil(b) == spoiled' = spoiled \cup {b}

\* History: a build is alone while no other runs beside it and, at its start,
\* no earlier one has left a cached or torn image or a measurement socket behind.
Lonely(b) ==
    alone' = IF \E c \in Builds \ {b} : st[c] \notin Ended \cup {"idle"}
             THEN {}
             ELSE alone \cup (IF /\ \A p \in Images : ext4[p] = None /\ sqfs[p] # Torn
                                 /\ chSock = None /\ tpmSock = None
                              THEN {b} ELSE {})

Instr(b) == prog[b][pc[b]]
At(b, op) == st[b] = "next" /\ pc[b] <= Len(prog[b]) /\ Instr(b).op = op

\* The loop goes on to the next line.
Advance(b) == Goto(b, "next") /\ pc' = [pc EXCEPT ![b] = @ + 1]

has_measured_boot(p) == \E i \in 1..Len(p) : p[i].op = "measured"

\* parse_line knows the instructions by name and checks their arguments.
parse_content(p) == \A i \in 1..Len(p) : p[i].op # "bad"

\* build_image: the context is streamed, unpacked and parsed; a request that
\* cannot be read, or has no Vyomafile that parses, is refused.
BuildBegin(b) ==
    /\ st[b] = "idle"
    /\ \E p \in Programs :
        /\ prog' = [prog EXCEPT ![b] = p]
        /\ \/ parse_content(p) /\ Goto(b, "next")
           \/ Goto(b, "failed")
    /\ Lonely(b)
    /\ UNCHANGED <<pc, root, err, extr, name, fileVars, devVars, measVars, keyVars, out, spoiled>>

\* FROM only takes the path of an image that is there, pulled or built before.
HandleFrom(b) ==
    /\ At(b, "from")
    /\ IF Instr(b).image \in Images /\ sqfs[Instr(b).image] # None
       THEN root' = [root EXCEPT ![b] = Instr(b).image] /\ Advance(b)
       ELSE Goto(b, "failed") /\ UNCHANGED <<root, pc>>
    /\ UNCHANGED <<prog, err, extr, name, fileVars, devVars, measVars, keyVars, out, histVars>>

\* CMD, ENTRYPOINT, ENV, WORKDIR and VM_MEASURED_BOOT only fill the configuration.
HandleConfig(b) ==
    /\ At(b, "config") \/ At(b, "measured")
    /\ Advance(b)
    /\ UNCHANGED <<prog, root, err, extr, name, fileVars, devVars, measVars, keyVars, out, histVars>>

\* RUN and COPY before the first FROM, and a file without FROM, are errors.
NoRootfs(b) ==
    /\ \/ At(b, "run") \/ At(b, "copy")
       \/ st[b] = "next" /\ pc[b] > Len(prog[b])
    /\ root[b] = None
    /\ Goto(b, "failed")
    /\ UNCHANGED <<prog, pc, root, err, extr, name, fileVars, devVars, measVars, keyVars, out, histVars>>

----------------------------------------------------------------------------
(* RUN: the rootfs as ext4, a snapshot of it over loop devices, a VM on the *)
(* snapshot, a new squashfs layer from what the VM left.                    *)

runFrame == <<prog, root, name, inj, measVars, keyVars, out, alone>>

\* A step of execute_build_in_vm before the guard exists fails: `?` leaves at once.
Leave(b) == Goto(b, "failed") /\ extr' = [extr EXCEPT ![b] = None]

\* handle_run, execute_build_in_vm: a cached ext4 file is used if it exists.
RunBegin(b) ==
    /\ At(b, "run") /\ root[b] # None
    /\ Goto(b, IF ext4[root[b]] # None THEN "attach" ELSE "extract")
    /\ UNCHANGED <<pc, err, extr, sqfs, ext4, devVars, spoiled, runFrame>>

\* unsquashfs into a temporary directory; a torn image does not extract.
extract_squashfs(b, to) ==
    \/ /\ sqfs[root[b]] \notin {None, Torn}
       /\ extr' = [extr EXCEPT ![b] = sqfs[root[b]]] /\ Goto(b, to)
    \/ Leave(b)

RunExtract(b) ==
    /\ st[b] = "extract" /\ extract_squashfs(b, "truncate")
    /\ UNCHANGED <<pc, err, sqfs, ext4, devVars, spoiled, runFrame>>

\* truncate -s 2G makes the file, or leaves one of that size as it is.
RunTruncate(b) ==
    /\ st[b] = "truncate"
    /\ \/ /\ ext4' = [ext4 EXCEPT ![root[b]] = IF @ = None THEN Torn ELSE @]
          /\ Goto(b, "mkfs") /\ UNCHANGED extr
       \/ Leave(b) /\ UNCHANGED ext4
    /\ UNCHANGED <<pc, err, sqfs, devVars, spoiled, runFrame>>

\* mkfs.ext4 -d fills the file; if it fails the empty file stays in the cache.
RunMkfs(b) ==
    /\ st[b] = "mkfs"
    /\ \/ /\ ext4' = [ext4 EXCEPT ![root[b]] = extr[b]]
          /\ extr' = [extr EXCEPT ![b] = None] /\ Goto(b, "attach")
       \/ Leave(b) /\ UNCHANGED ext4
    /\ UNCHANGED <<pc, err, sqfs, devVars, spoiled, runFrame>>

\* A COW file and two loop devices; an error after the first leaves it attached.
RunAttach(b) ==
    /\ st[b] = "attach"
    /\ \/ loops' = [loops EXCEPT ![b] = 2] /\ Goto(b, "origin") /\ UNCHANGED <<extr, spoiled>>
       \/ \E n \in 0..1 : loops' = [loops EXCEPT ![b] = n] /\ Leave(b) /\ Spoil(b)
    /\ UNCHANGED <<pc, err, sqfs, ext4, origin, snap, mounted, vm, initram, runFrame>>

\* create_snapshot, first half: the linear device.  The name may be taken; and
\* the device may be made without its node appearing.
RunOrigin(b) ==
    /\ st[b] = "origin"
    /\ \/ origin = None /\ origin' = b /\ Goto(b, "snap") /\ UNCHANGED <<extr, spoiled>>
       \/ origin' \in {origin} \cup (IF origin = None THEN {b} ELSE {}) /\ Leave(b) /\ Spoil(b)
    /\ UNCHANGED <<pc, err, sqfs, ext4, snap, mounted, loops, vm, initram, runFrame>>

\* create_snapshot, second half: the snapshot device.
RunSnap(b) ==
    /\ st[b] = "snap"
    /\ \/ snap = None /\ snap' = b /\ Goto(b, "initram") /\ UNCHANGED <<extr, spoiled>>
       \/ snap' \in {snap} \cup (IF snap = None THEN {b} ELSE {}) /\ Leave(b) /\ Spoil(b)
    /\ UNCHANGED <<pc, err, sqfs, ext4, origin, mounted, loops, vm, initram, runFrame>>

\* From here on an error is kept until the guard has cleaned up.
Unwind(b) == Goto(b, "detach") /\ err' = [err EXCEPT ![b] = TRUE]

\* Faulty variant of RunInitramfs: a file that is there is used, as in the ext4 cache.
RunInitramfs_Fault(b) ==
    /\ st[b] = "initram" /\ Goto(b, "spawn")
    /\ initram' = IF initram # None THEN initram ELSE <<b, pc[b]>>
    /\ UNCHANGED <<pc, err, extr, sqfs, ext4, origin, snap, mounted, loops, vm, spoiled, runFrame>>

\* create_build_initramfs writes the one file all builds boot from.
RunInitramfs(b) ==
    /\ st[b] = "initram"
    /\ \/ initram' = <<b, pc[b]>> /\ Goto(b, "spawn") /\ UNCHANGED err
       \/ initram' \in {initram, None} /\ Unwind(b)
    /\ UNCHANGED <<pc, extr, sqfs, ext4, origin, snap, mounted, loops, vm, spoiled, runFrame>>

\* The hypervisor starts on /dev/mapper/<name>.
RunSpawn(b) ==
    /\ st[b] = "spawn"
    /\ \/ /\ vm' = [vm EXCEPT ![b] = [cmd |-> initram, dev |-> snap, up |-> TRUE]]
          /\ Goto(b, "vm") /\ UNCHANGED err
       \/ Unwind(b) /\ UNCHANGED vm
    /\ UNCHANGED <<pc, extr, sqfs, ext4, origin, snap, mounted, loops, initram, spoiled, runFrame>>

\* The VM powers off, or the hypervisor fails.
VmExits(b) ==
    /\ vm[b] # None /\ vm[b].up
    /\ vm' = [vm EXCEPT ![b].up = FALSE]
    /\ UNCHANGED <<buildVars, fileVars, origin, snap, mounted, loops, initram,
                   measVars, keyVars, out, histVars>>

\* try_wait sees the exit: code 0 goes on to the layer, any other is an error.
RunWait(b) ==
    /\ st[b] = "vm" /\ ~vm[b].up
    /\ \/ Goto(b, "squash") /\ UNCHANGED err
       \/ Unwind(b)
    /\ UNCHANGED <<pc, extr, sqfs, ext4, devVars, spoiled, runFrame>>

\* Faulty variant of RunTimeout: the wait for the VM has no limit.
RunTimeout_Fault(b) == st[b] = "vm" /\ FALSE /\ UNCHANGED vars

\* After 300 s the wait ends; the process is not killed.
RunTimeout(b) ==
    /\ st[b] = "vm" /\ Unwind(b) /\ Spoil(b)
    /\ UNCHANGED <<pc, extr, sqfs, ext4, devVars, runFrame>>

\* What /dev/mapper/<name> shows: the ext4 image below the snapshot.
DeviceContent == IF snap = None THEN None ELSE ext4[root[snap]]

\* Faulty variant of RunSquash: the result of mounting the device is not looked at.
RunSquash_Fault(b) ==
    /\ st[b] = "squash" /\ extr' = [extr EXCEPT ![b] = DeviceContent] /\ Goto(b, "detach")
    /\ UNCHANGED <<pc, err, sqfs, ext4, devVars, spoiled, runFrame>>

\* ext4_to_squashfs mounts the device by its name, packs it and unmounts it;
\* an unmount that fails is only logged, and without mksquashfs there is none.
RunSquash(b) ==
    /\ st[b] = "squash"
    /\ \/ /\ DeviceContent \notin {None, Torn}
          /\ extr' = [extr EXCEPT ![b] = DeviceContent] /\ Goto(b, "detach") /\ UNCHANGED err
          /\ \/ UNCHANGED <<mounted, spoiled>>
             \/ mounted' = TRUE /\ Spoil(b)
       \/ Unwind(b) /\ UNCHANGED <<extr, mounted, spoiled>>
       \/ Unwind(b) /\ mounted' = TRUE /\ Spoil(b) /\ UNCHANGED extr
    /\ UNCHANGED <<pc, sqfs, ext4, origin, snap, loops, vm, initram, runFrame>>

\* Faulty variant of RunDetach: a RUN that failed drops no guard.
RunDetach_Fault(b) ==
    /\ st[b] = "detach"
    /\ IF err[b] THEN Goto(b, "runEnd") /\ UNCHANGED <<loops, spoiled>>
       ELSE loops' = [loops EXCEPT ![b] = 0] /\ Goto(b, "rmSnap") /\ UNCHANGED spoiled
    /\ UNCHANGED <<pc, err, extr, sqfs, ext4, origin, snap, mounted, vm, initram, runFrame>>

\* BuildResourceGuard::drop, loop devices: without a loop manager it gives up.
RunDetach(b) ==
    /\ st[b] = "detach"
    /\ \/ loops' = [loops EXCEPT ![b] = 0] /\ Goto(b, "rmSnap") /\ UNCHANGED spoiled
       \/ /\ \E n \in 1..2 : loops' = [loops EXCEPT ![b] = n]
          /\ Goto(b, "rmSnap") /\ Spoil(b)
       \/ Goto(b, "runEnd") /\ Spoil(b) /\ UNCHANGED loops
    /\ UNCHANGED <<pc, err, extr, sqfs, ext4, origin, snap, mounted, vm, initram, runFrame>>

\* A snapshot that a VM or a mount holds is not removed.
Busy == mounted \/ \E b \in Builds : vm[b] # None /\ vm[b].up /\ vm[b].dev = snap

\* remove_snapshot removes by name, the snapshot first; if that fails it returns.
RunRmSnap(b) ==
    /\ st[b] = "rmSnap"
    /\ \/ ~Busy /\ snap' = None /\ Goto(b, "rmOrigin") /\ UNCHANGED spoiled
       \/ Goto(b, "runEnd") /\ Spoil(b) /\ UNCHANGED snap
    /\ UNCHANGED <<pc, err, extr, sqfs, ext4, origin, mounted, loops, vm, initram, runFrame>>

\* The result of removing the linear device is ignored.
RunRmOrigin(b) ==
    /\ st[b] = "rmOrigin" /\ Goto(b, "runEnd")
    /\ \/ origin' = None /\ UNCHANGED spoiled
       \/ Spoil(b) /\ UNCHANGED origin
    /\ UNCHANGED <<pc, err, extr, sqfs, ext4, snap, mounted, loops, vm, initram, runFrame>>

\* handle_run moves the layer out of the build directory: it is the new rootfs.
RunEnd(b) ==
    /\ st[b] = "runEnd"
    /\ \/ /\ ~err[b] /\ Advance(b)
          /\ root' = [root EXCEPT ![b] = b]
          /\ sqfs' = [sqfs EXCEPT ![b] = extr[b]]
          /\ ext4' = [ext4 EXCEPT ![b] = None]
          /\ extr' = [extr EXCEPT ![b] = None]
       \/ Leave(b) /\ UNCHANGED <<pc, root, sqfs, ext4>>
    /\ UNCHANGED <<prog, err, name, inj, devVars, measVars, keyVars, out, histVars>>

----------------------------------------------------------------------------
(* COPY: the rootfs is extracted, gets the file, is packed into a layer file *)
(* named by the second, and is then overwritten in place with it.            *)

copyFrame == <<prog, root, ext4, devVars, measVars, keyVars, histVars>>

\* History: the rootfs that b writes in place may be the image an earlier build made.
Rewrite(b) ==
    out' = [c \in Builds |-> IF root[b] = Output(c)
                             THEN [out[c] EXCEPT !.rewritten = TRUE] ELSE out[c]]

CopyBegin(b) ==
    /\ At(b, "copy") /\ root[b] # None
    /\ extract_squashfs(b, "inject")
    /\ UNCHANGED <<pc, err, name, sqfs, inj, out, copyFrame>>

\* Faulty variant of CopyInject: the directory is packed before the file is in it.
CopyInject_Fault(b) ==
    /\ st[b] = "inject"
    /\ \E n \in Names :
         /\ name' = [name EXCEPT ![b] = n] /\ inj' = [inj EXCEPT ![n] = extr[b]]
         /\ extr' = [extr EXCEPT ![b] = None] /\ Goto(b, "truncateRoot")
    /\ UNCHANGED <<pc, err, sqfs, out, copyFrame>>

\* The source may be missing, and the packing may fail.
CopyInject(b) ==
    /\ st[b] = "inject"
    /\ \/ \E n \in Names :
            /\ name' = [name EXCEPT ![b] = n]
            /\ inj' = [inj EXCEPT ![n] = extr[b] \cup {<<b, pc[b]>>}]
            /\ extr' = [extr EXCEPT ![b] = None] /\ Goto(b, "truncateRoot")
       \/ Leave(b) /\ UNCHANGED <<name, inj>>
    /\ UNCHANGED <<pc, err, sqfs, out, copyFrame>>

\* std::fs::copy truncates the rootfs, be it an image, before it writes it.
CopyTruncate(b) ==
    /\ st[b] = "truncateRoot"
    /\ sqfs' = [sqfs EXCEPT ![root[b]] = Torn] /\ Rewrite(b) /\ Goto(b, "write")
    /\ UNCHANGED <<pc, err, extr, name, inj, copyFrame>>

CopyWrite(b) ==
    /\ st[b] = "write"
    /\ \/ sqfs' = [sqfs EXCEPT ![root[b]] = inj[name[b]]] /\ Rewrite(b) /\ Advance(b)
       \/ Goto(b, "failed") /\ UNCHANGED <<pc, sqfs, out>>
    /\ UNCHANGED <<err, extr, name, inj, copyFrame>>

----------------------------------------------------------------------------
(* finalize_image.                                                          *)

finalFrame == <<prog, pc, root, err, extr, name, fileVars, devVars, spoiled, alone>>

\* The rootfs is copied into a directory named by the build's id.
FinalizeCopy(b) ==
    /\ st[b] = "next" /\ pc[b] > Len(prog[b]) /\ root[b] # None
    /\ \/ sqfs' = [sqfs EXCEPT ![Output(b)] = sqfs[root[b]]] /\ Goto(b, "hash")
       \/ sqfs' = [sqfs EXCEPT ![Output(b)] = Torn] /\ Goto(b, "failed")
    /\ UNCHANGED <<prog, pc, root, err, extr, name, ext4, inj, devVars, measVars, keyVars,
                   out, histVars>>

\* Faulty variant of FinalizeHash: the hash is taken of the rootfs that was copied.
FinalizeHash_Fault(b) ==
    /\ st[b] = "hash"
    /\ out' = [out EXCEPT ![b].hash = sqfs[root[b]]]
    /\ Goto(b, IF has_measured_boot(prog[b]) THEN "vtpm" ELSE "manifest")
    /\ UNCHANGED <<measVars, keyVars, finalFrame>>

\* compute_squashfs_hash reads the copy, not the rootfs it was made from.
FinalizeHash(b) ==
    /\ st[b] = "hash"
    /\ \/ /\ out' = [out EXCEPT ![b].hash = sqfs[Output(b)]]
          /\ Goto(b, IF has_measured_boot(prog[b]) THEN "vtpm" ELSE "manifest")
       \/ Goto(b, "failed") /\ UNCHANGED out
    /\ UNCHANGED <<measVars, keyVars, finalFrame>>

\* measure_boot_pcr: the vTPM of the shared name takes the place of another's socket.
MeasureVtpm(b) ==
    /\ st[b] = "vtpm"
    /\ \/ tpmSock' = b /\ Goto(b, "hyper")
       \/ tpmSock' \in {tpmSock, None} /\ Goto(b, "failed")
    /\ UNCHANGED <<chSock, pcr, child, keyVars, out, finalFrame>>

\* External: cloud-hypervisor ends if its socket exists, and is up otherwise.
MeasureSpawn(b) ==
    /\ st[b] = "hyper"
    /\ \/ child' = [child EXCEPT ![b] = (chSock = None)] /\ Goto(b, "socket")
       \/ Goto(b, "failed") /\ UNCHANGED child
    /\ UNCHANGED <<chSock, tpmSock, pcr, keyVars, out, finalFrame>>

\* The hypervisor makes its socket, if no other has by then.
HypervisorListens(b) ==
    /\ child[b] /\ st[b] = "socket" /\ chSock # b
    /\ IF chSock = None THEN chSock' = b /\ UNCHANGED child
                        ELSE child' = [child EXCEPT ![b] = FALSE] /\ UNCHANGED chSock
    /\ UNCHANGED <<st, tpmSock, pcr, keyVars, out, finalFrame>>

\* The wait ends when there is a socket, no matter whose, or after 10 s.
MeasureSocket(b) ==
    /\ st[b] = "socket"
    /\ \/ chSock # None /\ Goto(b, "boot") /\ UNCHANGED child
       \/ child' = [child EXCEPT ![b] = FALSE] /\ Goto(b, "failed")
    /\ UNCHANGED <<chSock, tpmSock, pcr, keyVars, out, finalFrame>>

\* The boot goes to whoever listens; its errors are ignored.  The rootfs booted
\* by b's hypervisor is measured into the vTPM behind the socket.
MeasureBoot(b) ==
    /\ st[b] = "boot" /\ Goto(b, "read")
    /\ \/ /\ chSock = b /\ child[b] /\ tpmSock # None
          /\ pcr' = [pcr EXCEPT ![tpmSock] = @ \cup {b}]
       \/ UNCHANGED pcr
    /\ UNCHANGED <<chSock, tpmSock, child, keyVars, out, finalFrame>>

\* The PCRs are read, the VM is killed and the directory removed, with any socket
\* in it; if they cannot be read the VM goes on running.
MeasureRead(b) ==
    /\ st[b] = "read"
    /\ \/ /\ out' = [out EXCEPT ![b].pcrs = pcr[b]] /\ child' = [child EXCEPT ![b] = FALSE]
          /\ tpmSock' = IF tpmSock = b THEN None ELSE tpmSock
          /\ chSock' = None /\ Goto(b, "manifest")
       \/ Goto(b, "failed") /\ UNCHANGED <<out, child, chSock, tpmSock>>
    /\ UNCHANGED <<pcr, keyVars, finalFrame>>

\* The manifest is written, then signed if resolve_signing_key finds a key.
FinalizeManifest(b) ==
    /\ st[b] = "manifest"
    /\ \/ out' = [out EXCEPT ![b].manifest = TRUE] /\ Goto(b, "key")
       \/ Goto(b, "failed") /\ UNCHANGED out
    /\ UNCHANGED <<measVars, keyVars, finalFrame>>

\* The seed must belong to the public key.
from_seed_and_public(seed, pub) == seed # None /\ pub = seed

Signed(b, seed, pub) == out' = [out EXCEPT ![b].seed = seed, ![b].pub = pub]

\* Both files: they are loaded.  No directory: a pair is made.  One file missing,
\* or no directory named and none at the standard place: no signature.
ResolveKey(b) ==
    /\ st[b] = "key"
    /\ \/ /\ KeyPath /\ keyDir /\ keyPub # None /\ keySec # None
          /\ IF from_seed_and_public(keySec, keyPub)
             THEN Signed(b, keySec, keyPub) /\ Goto(b, "done")
             ELSE Goto(b, "failed") /\ UNCHANGED out
       \/ KeyPath /\ ~keyDir /\ Goto(b, "mkdir") /\ UNCHANGED out
       \/ /\ KeyPath => keyDir /\ (keyPub = None \/ keySec = None)
          /\ Goto(b, "done") /\ UNCHANGED out
    /\ UNCHANGED <<measVars, keyVars, finalFrame>>

\* create_dir_all succeeds as well if another build has made the directory by now.
MakeKeyDir(b) ==
    /\ st[b] = "mkdir"
    /\ \/ keyDir' = TRUE /\ Goto(b, "pub")
       \/ Goto(b, "failed") /\ UNCHANGED keyDir
    /\ UNCHANGED <<measVars, keyPub, keySec, out, finalFrame>>

\* The public half is saved first.
SavePublic(b) ==
    /\ st[b] = "pub"
    /\ \/ keyPub' = b /\ Goto(b, "sec")
       \/ Goto(b, "failed") /\ UNCHANGED keyPub
    /\ UNCHANGED <<measVars, keyDir, keySec, out, finalFrame>>

\* The pair that was made is the one that signs, whatever the files hold by now.
SaveSecret(b) ==
    /\ st[b] = "sec"
    /\ \/ keySec' = b /\ Signed(b, b, b) /\ Goto(b, "done")
       \/ Goto(b, "failed") /\ UNCHANGED <<keySec, out>>
    /\ UNCHANGED <<measVars, keyDir, keyPub, finalFrame>>

----------------------------------------------------------------------------
(* The client goes: the handler is dropped where it waits.  Nothing of a RUN *)
(* is cleaned up, for the guard is only made after the wait; the vTPM of a   *)
(* measurement is stopped by its Drop, the hypervisor is not.                *)
Cancel(b) ==
    /\ st[b] \in {"vm", "socket", "boot", "read"}
    /\ Goto(b, "cancelled") /\ Spoil(b)
    /\ tpmSock' = IF st[b] # "vm" /\ tpmSock = b THEN None ELSE tpmSock
    /\ UNCHANGED <<prog, pc, root, err, extr, name, fileVars, devVars, chSock, pcr, child,
                   keyVars, out, alone>>

RunStep(b) ==
    \/ RunBegin(b) \/ RunExtract(b) \/ RunTruncate(b) \/ RunMkfs(b) \/ RunAttach(b)
    \/ RunOrigin(b) \/ RunSnap(b) \/ RunInitramfs(b) \/ RunSpawn(b)
    \/ RunWait(b) \/ RunTimeout(b) \/ RunSquash(b)
    \/ RunDetach(b) \/ RunRmSnap(b) \/ RunRmOrigin(b) \/ RunEnd(b)

CopyStep(b) == CopyBegin(b) \/ CopyInject(b) \/ CopyTruncate(b) \/ CopyWrite(b)

FinalStep(b) ==
    \/ FinalizeCopy(b) \/ FinalizeHash(b)
    \/ MeasureVtpm(b) \/ MeasureSpawn(b) \/ MeasureSocket(b) \/ MeasureBoot(b) \/ MeasureRead(b)
    \/ FinalizeManifest(b) \/ ResolveKey(b) \/ MakeKeyDir(b) \/ SavePublic(b) \/ SaveSecret(b)

\* The steps the runner takes by itself.
Step(b) == HandleFrom(b) \/ HandleConfig(b) \/ NoRootfs(b) \/ RunStep(b) \/ CopyStep(b) \/ FinalStep(b)

Next == \E b \in Builds : BuildBegin(b) \/ Step(b) \/ VmExits(b) \/ HypervisorListens(b) \/ Cancel(b)

Spec == Init /\ [][Next]_vars

\* The daemon's runtime runs every request on; the tools it calls return.
FairSpec == Spec /\ \A b \in Builds : WF_vars(Step(b))

----------------------------------------------------------------------------
(* Properties.                                                              *)

\* The state of every build and of the files, devices and sockets they share keeps its
\* type; a directory a RUN or COPY works on was extracted whole (extract_squashfs).
TypeOK ==
    /\ prog \in [Builds -> Programs \cup {<<>>}] /\ pc \in [Builds -> Nat]
    /\ st \in [Builds -> Steps] /\ root \in [Builds -> Paths \cup {None}]
    /\ err \in [Builds -> BOOLEAN]
    /\ extr \in [Builds -> Files] /\ name \in [Builds -> Names \cup {None}]
    /\ sqfs \in [Paths -> Files] /\ ext4 \in [Paths -> Files] /\ inj \in [Names -> Files]
    /\ \A b \in Builds : extr[b] # Torn
    /\ origin \in Owner /\ snap \in Owner /\ mounted \in BOOLEAN
    /\ loops \in [Builds -> 0..2]
    /\ initram \in Copies \cup {None}
    /\ \A b \in Builds :
         vm[b] = None \/ vm[b] \in [cmd : Copies \cup {None}, dev : Owner, up : BOOLEAN]
    /\ chSock \in Owner /\ tpmSock \in Owner
    /\ pcr \in [Builds -> SUBSET Builds] /\ child \in [Builds -> BOOLEAN]
    /\ keyDir \in BOOLEAN /\ keyPub \in Owner /\ keySec \in Owner
    /\ out \in [Builds -> [hash : Files, pcrs : (SUBSET Builds) \cup {None},
                           manifest : BOOLEAN, seed : Owner, pub : Owner, rewritten : BOOLEAN]]
    /\ spoiled \subseteq Builds /\ alone \subseteq Builds

(* A build VM runs the command of its own build's RUN, on the snapshot its  *)
(* own build made, and the layer is packed from that snapshot, although the *)
(* device name and the initramfs file are the same for all builds           *)
(* (execute_build_in_vm, create_build_initramfs).                           *)
OwnDevice ==
    \A b \in Builds :
        /\ st[b] = "vm" => vm[b].cmd = <<b, pc[b]>> /\ vm[b].dev = b
        /\ st[b] \in {"vm", "squash", "detach", "rmSnap"} => snap = b

(* A build that ended, however its RUN ended, has given back the device     *)
(* name and its loop devices, unless a call to the kernel failed, its VM    *)
(* ran out of time or its client went (BuildResourceGuard::drop).           *)
DevicesReturned ==
    \A b \in Builds \ spoiled :
        st[b] \in Ended => loops[b] = 0 /\ origin # b /\ snap # b

(* The manifest of an image gives the hash of the rootfs that lies beside   *)
(* it, also when another build rewrites the base image in the meantime      *)
(* (finalize_image); unless a build that named this image in its FROM has   *)
(* copied into it, for COPY writes the image in place and not the manifest  *)
(* (handle_copy).                                                           *)
ManifestMatchesRootfs ==
    \A b \in Builds :
        out[b].manifest /\ ~out[b].rewritten => out[b].hash = sqfs[Output(b)]

\* The lines of b's file that copy into the image b is making.
CopyLines(b) ==
    {i \in 1..Len(prog[b]) :
        /\ prog[b][i].op = "copy"
        /\ \A j \in i..Len(prog[b]) : prog[b][j].op # "from"}

\* No two FROM lines of file p name the same image.  A file that comes back to an
\* image it has RUN on meets its own stale ext4 cache, and loses what it COPYs there.
FromOnce(p) ==
    \A i, j \in 1..Len(p) :
        (p[i].op = "from" /\ p[j].op = "from" /\ p[i].image = p[j].image) => i = j

(* A build that ran alone, in a directory with no cached or torn image,     *)
(* makes an image that was written to its end; it holds every file the COPY *)
(* lines since the last FROM injected, across the RUN lines between them,   *)
(* until a later build copies into it; and if it was measured the measured  *)
(* boot is its own or none.                                                 *)
AloneIsComplete ==
    \A b \in alone :
        st[b] = "done" =>
            /\ ~out[b].rewritten =>
                 /\ sqfs[Output(b)] \in Content
                 /\ FromOnce(prog[b]) => \A i \in CopyLines(b) : <<b, i>> \in sqfs[Output(b)]
            /\ out[b].pcrs # None => out[b].pcrs \subseteq {b}

(* Every build that began ends: the VM of a RUN may hang and the            *)
(* measurement VM may never open its socket, both waits are bounded.        *)
BuildsEnd == <>[](\A b \in Builds : st[b] \in Ended \cup {"idle"})

=============================================================================
