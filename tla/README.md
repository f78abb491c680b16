# Verification of Vyoma

Vyoma runs OCI images as microVMs: the daemon `vyomad` creates, stops,
hibernates, attests and migrates them, a command line, SDKs, a compose front end
and a Kubernetes bridge drive it, and several daemons form a swarm with an
overlay network. This directory holds TLA+ models of the parts that carry its
own logic, the TLC configurations that check them on small instances, and TLAPS
proofs that hold for every instance.

All source paths below are relative to `src/crates` unless they say otherwise.

## Files

| file | what it is |
| --- | --- |
| `VmService.tla` | life of the VMs of one daemon, with all that races it |
| `MCVmService.tla`, `MCVmService.cfg`, `MCVmServiceLive.cfg` | safety and liveness runs |
| `MCVmServiceBlock.cfg`, `MCVmServiceRunning.cfg`, `MCVmServiceWake.cfg` | three statements of the docs that the code does not keep |
| `VmService_proofs.tla` | proofs about `VmService` |
| `Swarm.tla` | one node's swarm state machine and the host network it configures |
| `MCSwarm.tla`, `MCSwarm.cfg`, `MCSwarmUnique.cfg` | its runs |
| `Swarm_proofs.tla` | proofs about `Swarm` |
| `StartOrder.tla`, `StackOrder.tla`, `Compose.tla` | the start order, what a stack promises, and the compose commands |
| `MCCompose.tla`, `MCCompose.cfg`, `Compose_proofs.tla` | their run and proofs |
| `Build.tla`, `MCBuild.tla`, `MCBuild.cfg`, `Build_proofs.tla` | the image builder |
| `Recovery.tla`, `MCRecovery.tla`, `MCRecovery.cfg`, `Recovery_proofs.tla` | crashes, shutdowns and restarts of the daemon |
| `Teleport.tla`, `MCTeleport.tla`, `MCTeleport.cfg`, `Teleport_proofs.tla` | live migration |
| `TimeMachine.tla`, `SnapshotTree.tla`, `Cri.tla` | snapshot histories, the snapshot tree, the Kubernetes bridge |
| `Programs.tla`, `MCPrograms.tla`, `MCPrograms.cfg` | the run of the last three |
| `Cri_proofs.tla`, `Programs_proofs.tla` | proofs about the bridge, and about the histories and all three |
| `PROJECT.json` | components, runs, faulty variants, definition-to-source map, hazards, findings, theorems |

## The system: inventory

**VM service** (`vyomad/src/vm_service`, `vyomad/src/state.rs`). State:
`AppState.vms`, a mutex around a map from VM id to `Arc<Mutex<VmInstance>>`; the
instance (status, hypervisor, vTPM and virtiofsd managers, tap, device mapper,
copy-on-write file, cgroup, proxies, attestation task, directory). Operations:
`run_vm` (seven stages), `stop_vm`, `pause_vm`, `hibernate_vm`, `resume_vm`,
`snapshot_vm`, `VmInstance::cleanup`, and the `Drop` of the managers. Hard: every
handler looks the VM up under the lock of the map and works under the lock of the
VM, so any other actor may run in between; each external call may fail half way;
what a handler does to a VM that was stopped meanwhile is undone only by `Drop`.
Correct when: no process outlives the last holder of its VM; a VM in the map has
its disk; a stopped VM leaves nothing but what could not be removed; a VM that left
the map dies.

**Attestation and policy** (`vm_service/policy.rs`, `vyoma-core/src/{policy,attest,
unified_attest}.rs`). State: the policy switch, the task of each VM and its
verdict. The task runs beside `run_vm` and the handlers and writes the same
status field. Correct when: a failed attestation evicts the VM; a task whose vTPM was
stopped under it does no harm; a VM is Running only when attested.

**Hypervisor, vTPM, virtiofsd managers** (`vyoma-core/src/{vmm,vtpm,fs}.rs`). State:
child process, API socket. They are only reached through `VmInstance`.

**Swarm** (`vyomad/src/swarm/raft.rs`). State: nodes, subnets, placements,
services, the indices of the applied commands. Operations: bootstrap, add,
remove, update, placement and service commands through `submit_command`, join.
Each membership change runs a callback that configures the host. Hard: commands
may be handed over again or fail and be retried; subnets are computed from ids;
the callback may find WireGuard down. Correct when: all nodes compute the same
subnets; members are reachable; a repeated command has no effect.

**Overlay network** (`swarm/network_integration.rs`, `vyoma-net/src/wireguard.rs`).
State: WireGuard interface, peers, allowed IPs, routes, CNI bridge. Driven by the
swarm's side effects only.

**Crash recovery and WAL** (`vyomad/src/state/{wal,recovery}.rs`, `main.rs`). State: a
sled tree of entries, `state.json` files, sockets on disk. Hard: which steps
append, which VMs a restart adopts, cleans up or forgets. Correct when: what was
stopped does not come back, nothing alive is harmed, and the daemon comes up.

**Branch and restore** (`restore_vm`, `branch_vm_handler`): two more ways to make a
VM, each with resources and error paths of its own.

**Teleport** (`vyoma-teleport`, handlers `teleport_handler`, `receive_teleport_handler`,
`adopt_teleported_vm`, `cancel_teleport_internal`). Two daemons and a migration
between them. State: sessions, registries, hypervisors at both ends. Hard: lost
answers, timeouts, cancellation racing completion, two requests for one VM. Correct
when: the source gives a VM up only when it has moved, and otherwise it runs on.

**Time machine, automatic snapshots, snapshot tree**
(`vyomad/src/{timemachine,auto_snapshot}.rs`,
`vyoma-storage/src/{snapshot_tree,manager}.rs`). Chains of snapshots with parents in
sled; periodic tasks that are stopped and started. Correct when: parents exist or
are older, and the table of tasks tells the truth.

**Compose** (`vyoma-compose`, `vyoma/src/main.rs`). No state but the daemon's: the
order is computed from the file, the commands go through a list they read once.

**Image builder** (`vyoma-build`). State: everything in the work directory, shared by
all builds: base images, an ext4 cache, a device name, an initramfs file, key files.
Hard: builds run at once without a lock, and each step may fail or be dropped.

**CRI bridge** (`src/vk8s/pkg/cri`). State: the maps of pods and containers under one
RWMutex. Hard: calls overlap, wait for daemon and agents, and may be answered late
or not at all.

**Images** (`vyoma-image`, `vyoma-core/src/oci.rs`), **storage back ends**
(`vyoma-storage`), **network plumbing** (`vyoma-net`,
`vyoma-core/src/{cni,network,proxy}.rs`), **guest agent**, **hibernation manager**,
**API, auth, DNS, metrics**, **CLI, SDKs, UI**, **chaos hooks**: see `PROJECT.json`,
"components", for what is modelled and what stays out and why.

How they interact: the API handlers call the VM service and the swarm; the VM
service calls storage, network, agent and managers; the attestation task, the
process monitor and automatic snapshots run beside them on the shared map; the
swarm calls the overlay network inside its own lock; recovery fills the map
before the API opens; teleport talks to another daemon's API.

## VmService

A handler has two steps. `Lookup` (or `StopRemove`) clones the Arc out of the map
(or takes it out); the second step (`Stop`, `Pause`, `Hibernate`, `Resume`,
`Snapshot`, `AttestRead` and `AttestMark`, `Monitor`) is what the handler does
under the lock of the VM, to its end. `req[r]` is the call that handler slot `r`
serves. `Held(v)` says that somebody still has an Arc (the map, `run_vm` before the
insertion, the task between a lookup and its end, a handler); the step that gives
up the last one applies `DropVm`, as Rust does (`Release`).

`run_vm` is one action per stage: image, storage, network, agent, boot, spawn of
the task, save, insert. Each stage has the failures of its source and what the
error path leaves behind. The attestation task is a process of its own: `TaskStart`
reads the policy again, `TaskVerify` has a nondeterministic verdict (PCR comparison,
cryptography and the timeout), then `TaskLookup`, `TaskSetStatus`, `TaskSave`, and
for a failure `TaskMarkLookup`, `TaskMark`, `TaskRemove`, `TaskKill`, one action per
lock that is taken. The quote inside `TaskVerify` is a blocking command without an await:
`Abort` only marks the task (`dying`), the stop goes on to the vTPM, and the task runs until
an await suspends it (`TaskCancelled`), which a lock that is free does not do. `late` records
that a task asked a vTPM that was stopped. The VM is a record; the guest's memory is a version number that
`GuestRuns` increases, which is what makes "the same memory" a statement. The
constant `Faults` says which external calls may fail; `"crash"` lets the hypervisor
and virtiofsd exit by themselves. `Stuck` are the resources whose removal by `cleanup` may
fail; `cleanup` logs that and goes on, and `left` records it. `VmStatus` has all six variants of
the code, among them `Error`, which no code path assigns.

Abstractions: one VM's disk, tap and so on are names in a set; the two data
directories (`--data-dir`, where state is saved, and the home directory, where
cleanup removes) are the Boolean `DataDirIsHome`; logging, metrics and the write-ahead
log are left out (`Recovery` has the log).

Runs:

* `vm_safety`: one VM, two overlapping calls (by symmetry, either order), all
  stages, the task, fourteen kinds of faults (all but those of the tap and the cgroup,
  without which a VM runs on with one resource less) and failing removals of the disk, the tap and the
  directory; 2.1 million states. One VM is enough because nothing in
  the code relates two VMs except the map's keys; two calls are what a race needs.
  Memory has the versions 0 to 2, so a snapshot can be older than the guest.
  It shows `ProcessHasOwner`, `RegisteredKeepsDisk`, `HibernatedHasNoHypervisor` (the vTPM and
  virtiofsd do stay up through a hibernation), `StoppedReleasesAll` (but for what cleanup
  tried to remove and failed to) and `LateQuoteTouchesNothing`. There is no deadlock.
* `vm_liveness`: two overlapping calls and the faults of the vTPM, `save_state`, the new
  hypervisor and its restore, under `FairSpec`: `RemovedVmDies`
  and `FailedAttestationEvicts`. Fairness is weak fairness of the stages of `run_vm`, of
  the task and of an accepted call: tokio drives a future that was spawned or is being
  served until it ends, mutexes are fair, and the external calls return (attestation has
  a timeout). No fairness is assumed of clients, guests, crashes or the policy.
* `vm_attestation_blocks`, `vm_running_attested`, `vm_wake_continues`: statements of
  the documentation that TLC refutes; the findings in `PROJECT.json` quote them.

## Swarm

One node. `SwarmRaft` sits behind one mutex and calls its callback inside, so a
command and its effect on the host network are one action. The log that orders the
commands is external: `Deliver` hands over the next command, `Redeliver` any earlier
one, in any order. `Bootstrap` and `Join` are the API handlers.

The host network is a record: is WireGuard up, its peers, per subnet the peer with the
allowed IPs, per subnet the route, host routes, and the subnet of the bridge.
`SetupLocalNode`, `NodeAdded`, `NodeUpdated` and `RemoveRoute` are the four callbacks;
`AddPeers` and `AddRoutes` treat a loop over the nodes in the order of their ids as one
function (for peers the last write wins; for routes the first, since `route add` on an
existing route fails). An address is announced with or without a port: `BareAddrs` are
those without, the only ones `NodeAdded` and `NodeUpdated` can parse. Ids keep their
arithmetic (`% 254`).

Every call that configures the host may fail, and the code logs or drops the error. How the
calls of a step turn out is an `Outcome`, chosen from the constant `Outcomes`: whether
WireGuard starts, whether the bridge file is written, kept or left torn, for which nodes
`add_peer`, the host route and the subnet route succeed, and whether a route is deleted. The
history `last` keeps the outcome of the latest setup, for the properties to say which member
may lack its peer or its route, and `leased` the subnet a node was first given. (The keys that
`set_wireguard_peer` sends at `wireguard.rs:397` are not those of the WireGuard user-space
protocol, so `add_peer` may well fail every time; the proofs cover that outcome.)

Runs: `swarm` has the nodes 1, 2 and 256, where 2 and 256 collide, three outcomes (all calls
succeed; WireGuard does not start, the bridge file is kept, one node's peer and route fail;
the bridge file is torn, the other's peer, both routes and a removal fail), eleven commands
(among them a second add of a node, an add and a remove of the node itself, updates
of some and of all fields), a log of up to three entries with at most four effects, and
a window of 2 with a drain of 1, so that the window overflows and old commands come
again; 663 thousand states. `SubnetsAgree` says that a subnet depends on the id alone, not which
one it is: node 1 gets 10.42.2.0/24, as the listing of `docs/features/swarm.md:50` shows, though
`README.md:113` and `swarm.md:60` say 10.42.1.0/24. `swarm_unique_subnets` refutes the uniqueness the README of the repository states.

## StartOrder, StackOrder, Compose

`StartOrder` is the depth-first search of `ComposeConfig::start_order`, one action per
call of `visit`, per dependency and per return, with the recursion as an explicit
stack of frames; it ends with an order, a cycle or an undefined service. `Compose`
uses its result: `up`, `down` and `scale` of `vyoma/src/main.rs`, one action per
request to the daemon, each of which may fail or succeed with its answer lost, while
another client works on the same daemon. `StackOrder` is the promise, without saying how
the order is found: an `up` turns to a service only after all the services it depends
on, a `down` only after all that depend on it, and neither turns to one twice. `Compose` has
`Promise == INSTANCE StackOrder WITH ...`, and the run checks the abstract
specification as a property (`KeepsDependencyOrder`).

Run `compose`: three services, four files (a chain, a service reached over two paths and
named twice, a cycle, an undefined name), two clients, at most two VMs. Two clients are
what a stale list needs; with two VMs a service can have a replica too many.
`OrderRespectsDeps` and `RefusedHasNoOrder`:
the order is topological, and a file is refused only if it has none.
`UndisturbedDelivers`: a command nobody disturbed reaches what it is for. `CommandsEnd`
needs weak fairness of the steps of a command: it is one thread that waits for answers.

## Build

One action per step of `BuildRunner` at which another build can see or change the
shared files: FROM, the stages of a RUN (extract, truncate, mkfs, loop devices, origin,
snapshot, initramfs, spawn, wait or timeout, pack, detach, remove), of a COPY (extract,
inject, truncate, write) and of the finalisation (copy, hash, measured boot, manifest,
key). A file system is the set of COPY lines whose file it holds, `Torn` if it was not
written to its end. An image is a base or what a build put into `images/<build id>`
(`Output`), and FROM takes either. A COPY writes the image named in FROM in place and not the
manifest beside it: the history field `rewritten` marks the images this happened to.
`Cancel` is the client that goes, which drops the future at an await.

Run `build`: two builds, one base image, one second (so that injected layers collide),
files of up to three lines, one of which starts from the image of the other build and copies
into it; 1.4 million states. `OwnDevice`: a build VM runs its own
command on its own snapshot; the shared device name makes the second `create_snapshot`
fail, which is what keeps them apart. `DevicesReturned`, with the exceptions it names.
`ManifestMatchesRootfs`, for images not rewritten (without that exception TLC finds the stale
manifest), `AloneIsComplete` (a build that had the directory to itself makes a
whole image with all its COPY lines), and `BuildsEnd` under weak fairness of each build's steps, which the daemon drives and whose waits all have a limit.

## Recovery

What a crash keeps (log, directories, `state.json`, sockets, hypervisors, resources)
and what it loses (registry, handlers) are separate variables. Run, restore, branch and
stop are sequences of actions, so `Crash` and `Signal` come between any two. A start
scans the VMs `get_active_vm_ids` names, one `ScanVm` each, cleans up or lists them, and
`Adopt` fills the registry. The history `stray` has the hypervisors that were running when a
daemon crashed; they are the only ones `NoOrphanAfterShutdown` excepts, after any number of
restarts.

Run `recovery`: two VMs (VMs interact through the shutdown list and the scan only) and
two restarts, which is what a check that unlinks a socket needs to do harm: the first
finds the VM alive, the second calls it crashed. `StoppedStaysGone`,
`NoOrphanAfterShutdown`, `RecoverySparesLive`, and `RestartServes` under weak fairness of
the scan and the adoption: `main` runs them before it serves, and each check has a
timeout.

## Teleport

Command, source handler, its spawned task, target handler, cancel and the two
hypervisors are actors with a program counter each. The target's hypervisor belongs to
the handler that started it and dies when that returns; all receivers of a node share
port 9000, and the receivers for one VM its socket. The pause, the resume and every cancel may
fail, which the code logs or drops. Two history variables: `abandoned`, the
VMs whose migration a task gave up on while it went on (a cancel on timeout that failed
included), and `unresumed`, those whose latest resume failed. `Settles` excepts these two.

Run `teleport`: two requests for one VM, to one target or to two, and one cancel. Two
requests are needed for the interesting case: only with a second receiver does a
migration land, because the first one's hypervisor is dead by then. `HandedOver` and
`Settles`; fairness is weak, of the command, both handlers and the task. That a
migration ends is not assumed; the polling loop has its timeout.

## TimeMachine, SnapshotTree, Cri, Programs

`TimeMachine` has the history in sled, the handlers that add to it (snapshot, branch,
restore) and the automatic loops: start, stop, the two writes of a tick, the end of a
loop and its removal of "its" entry, with restarts of the daemon in between.
`SnapshotTree` has the two sled trees that threads of `StorageManager` read and then write
one after the other: `hand` has what each has read and is about to write (two threads about to
write the same are one). `Cri` has each call of the kubelet as a process: sections under the
mutex that wait for nothing are one step, `RemovePodSandbox` holds the mutex while the
daemon works, and `RemoveContainer`, which locks for writing and unlocks for reading,
either ends the process or leaves the mutex locked. Answers of the daemon may be lost;
the daemon may drop VMs; the bridge may end and start again.

The three share no state, so `Programs` chooses one of them in `Init`, and one run
(`programs`) checks them all: `Ancestry`, `TasksAgree`, `PodsAccountForVms` and
`KubeletCallsEnd`. Bounds: two VMs of which one is there at first, four snapshots with two
retained (so pruning happens at moved indices more than once), two loops, three nodes of
the tree, two threads on it, two overlapping calls on one pod. Five snapshots, three calls on one pod, and
two calls on two pods were checked as well. Fairness: a loop that was told to stop, or
lost its sender, leaves its `select!`; every call goes on unless it waits for an agent,
and the mutex, which is fair to those who wait, is strong fairness.

## What is proved

Every invariant and every action property that a passing run checks is also a theorem, so
it holds for all values of the constants; the refinement of `StackOrder` is one as well.
None of the properties but the types is inductive as it stands. Each section names the
inductive invariant and what it adds. The assumptions are those on the constants, named in
the modules, which TLC evaluates in each run: that names differ from the marks for "none",
that bounds are naturals, and what shape files and commands have.

`VmService_proofs`, for any sets of VMs and handlers, any memory bound, any set of faults:

* `TypeCorrect`: `Spec => []TypeOK`;
* `NoOrphanProcess`, `RegisteredVmKeepsItsDisk`, `HibernatedVmHasNoHypervisor` rest on `LifeInv`.
  That a VM in the map has its disk needs that a VM whose `run_vm` has passed the storage
  stage has it, and that `cleaned` VMs are never in the map again (ids are created once);
  that Hibernated implies no hypervisor needs what each stage of `run_vm` and of the task can
  find;
* `StopReleasesEverything` (`GoneInv`): a handler that comes late may even start the
  hypervisor of a VM that was cleaned up. The invariant separates what can come back at all
  (the resources stay within the hibernation snapshot, the directory and `left`) from what goes
  with the last holder (processes and socket);
* `LateQuoteIsHarmless` (`QuoteInv`): as long as `run_vm` or the map keeps a VM whose task is
  yet to ask, its vTPM is up, for no `Drop` comes and hibernation spares it; so a task that asks
  a stopped one belongs to a VM that is out of the map for good, and its lookups find nothing.

`Swarm_proofs`, for any set of ids up to any bound, any commands, outcomes, window and drain:

* `SwarmTypeCorrect`, `SubnetsAlwaysAgree`, `MembersAlwaysReachable`,
  `RecentAlwaysRemembered`. The inductive invariant `SwarmInv` adds `Standing` (not
  initialized: no nodes; initialized: the node itself is a member, so that its subnet is
  known), `Leased` (a lease is the one computed from the id) and `RememberedTail` (what is remembered is a tail of what took effect, no longer
  than the window and, once something was forgotten, at least `Window - Drain + 1` long). The
  minimum and maximum of a set of ids exist by well-founded induction on the naturals. With
  the constants of the code (1000 and 500) the last theorem says that the latest 501
  commands are protected;
* `MembershipAlwaysRepairs`, an action property: `setup_local_node` makes the mesh from
  whatever peers it finds (`SetupMeshes`: the last node of a subnet is set last, and no
  later node has its key), for the members whose `add_peer` succeeds, and each step that
  changes the members ends with it.

`Compose_proofs`, for any number of services, any files, clients and VMs:

* `TypeCorrect`, `StartOrderIsTopological`, `RefusalIsJustified`: the search never returns
  an order that is not one, and refuses only files without one. The inductive invariant
  says that the frames are a path of the dependency graph, that `visiting` is exactly
  what is on it and that `visited` is closed under dependencies and is what has been
  output;
* `ComposeKeepsOrder`: `Compose` implements `StackOrder` (initial states map to initial
  states, each step to a step or a stutter), with the invariant that the rest of the
  list of a command and what it has tried make up the order;
* `UndisturbedCommandDelivers` (`TallyInv`): at each point of an undisturbed `up` a service
  without a VM is still on its list and was not in its `GET /ps`; of an undisturbed `scale`
  the VMs there are and the calls it has left to make add up to the goal.

`Build_proofs`, for any number of builds at once, any files, any base images and builds that
start from each other's images:

* `BuildTypes`, `OwnDeviceHolds`, `DevicesReturnedHolds`, `ManifestMatchesHolds`. `BuildInv`
  says who owns the shared device name, its snapshot and the one initramfs file at each step
  of a RUN (the linear device bars every other build, hence the file is safe between its
  creation and the start of the VM), that a build without mishap owns devices only where it
  needs them, and that from `hash` on the hash is that of the rootfs in the image directory,
  which only a COPY into that image changes, and that marks it;
* `AloneIsCompleteHolds`. `AloneInv` follows the files of a build that works alone wherever
  they are (squashfs, extracted directory, ext4 cache, injected layer, image): each holds
  the COPY lines before the current line and since the last FROM. It needs that a build
  never works on another build's layer and that an idle build has left nothing behind.
  The proof failed without `FromOnce`, for the reason given below.

`Recovery_proofs`, for any VMs and any number of restarts:

* `RecoveryTypes`, `StoppedStaysGoneHolds`, `NoOrphanHolds` and the action property
  `RecoverySparesLiveHolds`. `RecoveryInv` adds where entries can be (in the registry only
  while the VM is live or its log is being written, outside only during a clean-up), that
  what a stop gave back has neither directory nor adopted entry, that every hypervisor but
  the stray ones has a `VmmManager` somewhere, and that a VM the log calls active has no
  `state.json`: only `run_vm` writes that file and only `restore_vm` opens a log. The last is
  why the scan takes nothing from a running VM.

`Cri_proofs` and `Programs_proofs`, for any pods, calls, VMs, snapshots, loops and any number
of retained snapshots:

* `PodsAccountForVmsHolds`, and `BridgeAccountsForVms` for the composition. `CriInv` adds that
  nobody else knows the id of a VM until `RunPodSandbox` records its pod, and that the VM is
  there when it does;
* `ProgramsTypes`, `AncestryHolds`, `TasksAliveHolds` (the safety half of `TasksAgree`).
  `Ancestry` needs that the entries of a history are strictly ordered from the second on (a
  deletion may put the second in the place of the first, which is why the first two may be
  equal), and for the tree that the nodes a thread has yet to write again have older parents.

`Teleport_proofs`, for any requests, VMs, targets, assignments and cancels:

* `TypeCorrect` and `VmHandedOver`. `HandedOver` is not inductive: it needs `TaskKnows`, that
  a task past its polling loop has a completed migration and one past the removal has
  removed the VM; and that a completed migration stays completed, since it is neither
  sent again nor cancelled (`CompletedStays`).

Only model-checked, since temporal proofs under fairness are out of this prover's reach:
the liveness properties `RemovedVmDies`, `FailedAttestationEvicts`, `CommandsEnd`,
`BuildsEnd`, `RestartServes`, `Settles`, `KubeletCallsEnd` and the second half of `TasksAgree`;
and that the VM service, the swarm and compose have no deadlock.

The proofs have, in obligations: Build 6286, Compose 2132, VmService 1903, Swarm 1304, Programs
932, Recovery 750, Teleport 608, Cri 454.

## What the models showed beside the findings

The four findings in `PROJECT.json` have runs of their own. The following was met while
translating; it is in the models as the code does it, and in the properties as named
exceptions.

* Teleport: the Drop in `receive_teleport_handler` kills the hypervisor that the comment at
  `handlers.rs:1924` leaves "running", so a single teleport cannot complete. The probe
  `/teleport/status/test` is answered 404 by every daemon, so the command always takes its
  fallback. `"in_progress"` may overwrite the final status of a session, and a watching
  command then never ends. A VM may land in the receiver of another VM (one port). An
  adopted VM is registered with no resources.
* Attestation: `docs/features/trusted-boot.md:121`, 127 and 138 say that a VM whose attestation
  failed goes to the state Error; the code sets AttestationFailed, and Error nowhere. The
  comment at `state.rs:270`, "Abort attestation task before stopping vTPM to prevent
  use-after-free", holds for a suspended task, not for one inside its blocking quote.
* Recovery: a VM found alive is listed, but its socket is unlinked by the check, so it is
  not adopted (`docs/architecture/crash-recovery-wal.md:39`); the log is written after the
  fact, by `restore_vm` and the stops only.
* Build: a RUN has no effect on the layer, since the init script powers off before it
  writes the command's script; a COPY after FROM rewrites the image named there in place, and
  leaves the manifest and the signature of an image a build made as they were. The ext4
  cache is keyed by the path of the image (`runner.rs:417`) and made once: a file that comes
  back to a base it has already RUN on (`FROM a`, `RUN`, `FROM a`, `COPY`, `RUN`) runs on the
  file system from before the COPY, and the image loses it. The proof of `AloneIsComplete`
  met this and TLC confirmed it with one build; `FromOnce` is the exception in the property.
* Compose: `down` stops one VM per service, so replicas stay, and removes no networks.
* Time machine: deleting an entry that is not among the last two replaces its successor by
  the one after it and leaves that one twice; pruning keeps such duplicates. `snap:0` and
  `snap:1` both name the first entry. A restore in place answers "restored" without
  loading anything. `AutoSnapshotManager`, `StorageManager` and `HibernationManager` are not
  used by the daemon.
* CRI bridge: `RemoveContainer` of a container that exists ends the process or blocks it for
  ever; the stop and removal of a pod report success when the daemon failed;
  `syncPodsFromVyomad` is never called; Exec on a container of a removed pod ends the
  process; a late StartContainer overwrites EXITED with RUNNING.

## Plan

Done: `VmService`, `Swarm`, `StartOrder`/`StackOrder`/`Compose`, `Teleport`, `Build`,
`Recovery` and `TimeMachine`/`SnapshotTree`/`Cri`, each with its runs, and the proofs of all
their invariants and action properties.

Next: what an unfinished repair leaves in the mesh when keys collide; a stop of a VM during
its migration; more of the start-up of the daemon (`vyomad/src/main.rs`).

## Not modelled

Cryptography (quotes, signatures, WireGuard, stream tokens), file formats and parsing (OCI
manifests, the compose schema and its unused v3 form, VMIF), the bodies of REST calls,
external tools (dmsetup, qemu-img, CNI plugins) beyond success and failure, conversion and
pulling of images, listing and metrics, the transports of exec streams, generated code, and
the commands and clients that make a single request. In modelled components: `commit_vm`,
node names of the swarm, `scale` of several services at once, a compose file edited between
two commands, a stop of a VM during its migration, the cgroup of a build VM, the lookup of a
signing key in the standard place. The hibernation manager is a map nobody uses. The reasons
are with the components in `PROJECT.json`.
