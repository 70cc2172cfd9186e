# A TLA+ verification of simple-sandbox

`ssbx` is a command line program that runs AI agents and their tools in
sandboxes: containers of podman or docker, or processes under the macOS seatbelt.
This directory holds TLA+ models of its core, the TLC configurations that check
them on small instances, and theorems that the TLA+ proof system checks for every
size. Paths below are those of the repository's `crates/`.

- [The system](#the-system)
- [Modules](#modules)
- [Runs](#runs)
- [Fairness](#fairness)
- [Proofs](#proofs)
- [Findings](#findings)
- [What is abstracted, and what is left out](#what-is-abstracted-and-what-is-left-out)
- [Plan](#plan)
- [Running it](#running-it)

## The system

| Component | State it keeps | Operations | Makes it correct |
|---|---|---|---|
| **CLI** `ssbx/src/main.rs` | none between invocations | create, run, exec, shell, policy get/set, ls, rm, logs, doctor | commands compose the parts below in an order that survives failure of any step |
| **State directory** `sandbox-core/src/state.rs` | `index.json` (list of records, `last_used`), `policies/<name>.yaml` | open, get, get_or_last, insert, remove, update_policy, touch_last_used | names and ids unique; `last_used` names a listed sandbox; hash = hash of the stored policy; listed means it has a runtime |
| **Mechanism choice, traits** `sandbox-core/src/lib.rs` | none | resolve_mechanism, mechanism_for | the mechanism started is the one named |
| **Policy** `sandbox-policy` | none | validate, content_hash, preflight, parse_size, millicores | accepts what the schema means and the host has, and nothing else; no wrapping arithmetic |
| **Podman mechanism** `sandbox-mech-podman` | the engine's containers, `ssbx-<name>` | create, exec, remove, logs, doctor; build_run_args, build_allowlist_args, mount_spec | `rm` kills its own container; the arguments come to what the policy grants, and the user's command to what was typed |
| **Mac mechanism** `sandbox-mech-mac` | `mac/instances/<name>/{profile.sb,workdir,policy.yaml}` | create, exec, remove; generate_seatbelt_profile, apply_rlimits | profile and rlimits are those of the one policy |
| **Krun mechanism** `sandbox-mech-krun` | none | a stub that refuses | refuses |
| **Allowlist proxy** `sandbox-proxy` | listener, one tokio task per client, two relay tasks per tunnel, a oneshot to stop | start, handle_client, relay, shutdown | reaches listed endpoints only, and all of them; tunnels are transparent; shutdown returns |
| **Secrets** `sandbox-core/src/secrets.rs` | locked buffers | resolve_secrets, to_env_pairs | a missing source stops the launch |
| **Control channel** `sandbox-core/src/control.rs` | a transport from another repository | send, recv | (unused) |

**How they interact.** Every invocation is a process of its own. It opens the
state directory, puts a policy together from file and options, validates it,
chooses a mechanism, holds the policy against the host (`preflight`), resolves
secrets, starts the proxy when the policy has an allowlist, calls the mechanism,
and records the result. Invocations share the state directory and the engine's
containers, and there is **no lock**: each index operation is load, compute,
truncate, write.

**What is hard here.** Overlapping invocations (an agent's scripts start several);
a kill between any two system calls; copies of a policy (stored, hashed, and two in
a mac instance) kept equal by hand; commands that fail half-way; tokio tasks racing a
shutdown, and two directions of a tunnel ending at different times; saturating,
rounding and checked arithmetic at the host's limits. `PROJECT.json` lists every
hazard with its line and the properties that watch it.

## Modules

Four models, each with a module of properties and, where something is proved, a
module of proofs.

### The state directory: `Ssbx`

| Module | Contents |
|---|---|
| `HostFile` | What a file can hold: absent, empty, a document, garbage; what `write(2)` leaves of two overlapping writers |
| `StoreState` | `SandboxState` and the pure part of every `Store` operation |
| `Ssbx` | All invocations at work on one directory |
| `SsbxProperties` | Types, invariants, action and liveness properties |
| `Registry` | The abstract register: create, rm, exec, policy set as one step each |
| `SsbxRegistry` | The refinement mapping `Ssbx` => `Registry` |
| `MCSsbx` | Constants of the configurations |
| `SsbxProofs` | Theorems for any number of overlapping invocations, and the lemmas about `StoreState` |
| `SerialProofs` | Theorems about one invocation at a time, the refinement among them |
| `QuietProofs` | Theorems about what is left when nothing was killed |

A process `p` is a slot that runs one invocation after another. `pc[p]` is where
it is in `run()`, `cmd[p]` its arguments, `rec[p]` the `SandboxRecord` it holds in
a local variable, `wr[p]` the `fs::write` it is inside of.

**One action is one system call or one call of the engine**, with the computation
up to it: `InsertRecord` is `load_index` and the push of `Store::insert`, after
which `Truncate` (`open(O_TRUNC)`) and `Fill` (`write(2)`) are `save_index`. So
another process may see the empty file, or the old index, or truncate it again.
`Crash` may come between any two.

| Command | Program points |
|---|---|
| run | `open` run: `Run` running: `RunEnds`; `OrphanEnds` when its ssbx was killed |
| create (podman) | `open` create: `CreatePodman` save: `SavePolicy` insert: `InsertRecord` created: `ReportCreated` |
| create (mac) | as above with `CreateMac` (profile.sb) and `WriteLimits` (policy.yaml) for `CreatePodman` |
| exec, shell | shell: `PeekShell` (chooses the program), `Get`, `TouchLastUsed`, `Exec` |
| policy set | `Get`, `SetPolicy`, `UpdateRecord` |
| policy get, logs, ls | `Get`, `Show` |
| rm | `RemoveRecord`, `UnlinkPolicy`, `KillPodman` / `KillMac` |

Errors are actions of their own: `Refuse`, `ContainerNameInUse`, `InstanceGone`,
`AlreadyExists`, `CannotLoad`, `NotFound`, `RefusePolicy`, `KillFails`. `acked`
(what the user has been told), `refused` (the names `insert` refused after the work
was done), `started` and `crashes` are history only. A run of a given name has the
container name of the persistent sandbox of that name, so both are in `container`,
and `ephemeral` tells them apart.

### The launch: `Policy`, `Launch`

`Policy` is the arithmetic and the conditions of `validate` and `preflight`, with
u64 scaled to `0 .. Word - 1` and 1024 to `Kilo`; f64 keeps NaN, the infinities,
and tenths of a millicore, so that rounding shows. `Launch` is one `create` or
`run` from arguments to exit code; its `stage` follows `cmd_create` and `cmd_run`
and every stage has the action of its success and that of its failure. `engine` is
whether podman answers, which `EngineChanges` may flip between
`prefer_available`'s look and `create`'s; the proxy's accept loop may end by itself
(`ProxyDies`), which ssbx does not see. `LaunchProperties` states the
meaning of a policy in exact arithmetic (`Bytes`, `Is`), not by the code's own
functions. `MCLaunch` has the documents; `LaunchProofs` the theorems.

### The proxy: `Proxy`

`phase[c]` is where the task of connection `c` is in `handle_client`, `pipe[c][d]` one
direction of its tunnel: bytes written by the source, not yet read, received by the
sink, numbered in the order of writing. A client may wait for the 200 or write ahead of
it, and then `Buffered` is what `into_inner` drops. Clients, upstreams and the kernel's
accept queue are environment actions (`Connect`, `SendRequest`, `Send`, `HalfClose`,
`Reset`). `EndLoop` is the end of the accept loop by the oneshot (`SeeShutdown`) or by
an accept error (`AcceptFails`); a side may stop reading for good (`StopReading`), and
then `write_all` to it does not come back. A host is a name, a case and, if it is an
IPv6 literal, brackets or none: `HashSet<String>` tells those apart and DNS does not.
`HasColon` is `contains(':')`, which takes every IPv6 literal for a target with a port.
`ProxyProperties`, `MCProxy`, `ProxyProofs` as above.

### What confines a process: `HostPath`, `Environ`, `Secrets`, `RunArgs`, `Seatbelt`, `Confine`

| Module | Contents |
|---|---|
| `HostPath` | Paths as sequences of components, those through a symbolic link or `..` with the real path they stand for (`Denotes`); `canonicalize`, `exists`, `resolve_path`, the `/workspace` prefix test, and `resolve_host_paths`, which no crate calls and which is the reference of what a policy grants |
| `Environ` | Environments as functions: one variable set, one environment over another |
| `Secrets` | `resolve_secrets`, `load_secret_bytes`, `to_env_pairs` |
| `RunArgs` | The argument vector of `podman run`, argument by argument, with the rewriting for an allowlist; below the line, how the engine reads it (`Parsed`, `ContainerOf`) |
| `Seatbelt` | `generate_seatbelt_profile` as a set of rules, what they allow, the rlimits, each of which may be refused by the system, environment |
| `Confine` | create, run, exec and rm of one sandbox on either mechanism, with kills and failing writes, and with what `sandbox-exec` makes of a command that begins with a dash |
| `FoldLemmas` | What `FoldLeft` and `FlattenSeq` compute, for whatever is folded |
| `RunArgsProofs` | What the engine reads in the arguments of any request: the containers of `build_run_args` and `build_allowlist_args` |
| `ConfineProperties`, `ConfineProofs`, `MCConfine` | as above |

`job` is the invocation at work (`step` is where it is), `port` its
`SSBX_PROXY_PORT` (which the user's environment may hold already), `proxy` its
proxy, `instance` the three files of the mac instance, `container` podman's
container, `process` what is running in a sandbox: its readable and writable host
paths, network, environment, directory, limits and command, beside the command as
typed. `asked` is history, the requests of the creates that got to the mechanism;
`faults` counts kills and failed writes. Killed inside a write of the instance, or with
the write of `profile.sb` or `workdir` failing, a create ends (`Killed`); when that of
`policy.yaml` fails it goes on (`LimitsNotWritten`). No `--` stands between
`sandbox-exec -f PROFILE` and the command, so a first word with a dash is read as an
option, and then `SandboxExec` leaves open what runs under which profile, if anything
does (`SandboxExecRefuses`).

The properties do not look at arguments or rules. They compare what the engine or
sandbox-exec makes of them with what `resolve_host_paths` and the network mode
grant, in both directions: nothing more (`WithinGrant`) and, of what exists, nothing
less (`CoversGrant`). So a mount that lost its `:ro`, an option swallowed by the
user's command, or a rule for the wrong directory shows, however it came about.

## Runs

| Run | Setting | Properties | Distinct states |
|---|---|---|---|
| `concurrent` | 2 overlapping invocations of 4, one killed, both mechanisms, every command, engine may fail | `TypeOK`, `IndexWellFormed`, `BrickedForGood`, `OnlyItsRmKills` | 2.00M |
| `serial` | one at a time, 4 invocations, one killed, engine up, 2 names, 2 policies, both mechanisms | `ListedHasRuntime`, `LastUsedIsListed`, `TornOnlyByCrash`, `CreatedIsListed`, `NoOrphan`, `CopiesAgree`, `ImplementsRegistry` | 390k |
| `fair` | 2 overlapping of 3, scheduled fairly, engine up | `Terminates`, `RemovalCompletes` | 56k |
| `proxy` | one connection, every request, waiting for the 200 or not, an IPv6 literal, 2 bytes each way, half-closes, resets, sides that stop reading, shutdown | `TypeOK`, `OnlyListedReached`, `ListedNotForbidden`, `Transparent`, `EverythingArrives`, `Answered`, `ShutdownEnds` | 325k |
| `launch` | both commands, documents and options that try every limit, 3 systems | `TypeOK`, `StartedFits`, `MechanismAsNamed`, `ProxyHeld`, `ReportsFailure`, `SoundIsAccepted` | 141k |
| `confine` | 3 invocations, one kill or failed write, 3 policies, 2 directories, links, both mechanisms | `TypeOK`, `SeatbeltConfines`, `ContainerConfines`, `ConfinedAsOne`, `ProxyIsOurs`, `SecretsInjected`, `CommandIntact` | 142k |
| `hash_mac`, `lost_create`, `shell_fits`, `secrets_mac`, `launch_nan`, `launch_signal` | expected violations | see [Findings](#findings) | |

**What they show.**

*Under any interleaving* little survives without a lock, and it is worth knowing
what: an index that parses never lists a name or id twice (`IndexWellFormed`);
a container is only ever stopped by an `rm` that took the very record made with
it, so a stale record is harmless to whoever has its name now, and so is a run
of the name (`OnlyItsRmKills`); and an index that got torn stays torn (`BrickedForGood`),
since `open` replaces only an absent one. Nothing blocks (`Terminates`).

*One invocation at a time* the directory is the register users think it is
(`ImplementsRegistry`): each `save_index` is one step of `Registry` or none, and a kill
loses nothing, the one change, or everything. `Registry` does not say which command
takes which step. Listed sandboxes have their runtime
wherever a command was killed (`ListedHasRuntime`), a reported one is listed
(`CreatedIsListed`), and `ssbx exec` without a name finds one that is
(`LastUsedIsListed`).

*With none killed either*, no container runs unlisted between commands, those of runs
included (`NoOrphan`), and copies of a policy agree (`CopiesAgree`): what is listed has
a stored policy, profile and rlimits file of an instance are of one policy, and the
hash is that of the stored one. Excepted are the
names of which `insert` refused a create after its work was done: the mac mechanism
does not mind a name it has, and podman does not know the names mac has. The stored
policy is not compared with the enforced one: `policy set` does not reach the runtime,
which TODO.md:12 lists as open, and a create refused by the other mechanism's name
stores its policy too.

*The proxy* dials only what is listed, forbids only what is not (an IPv6 literal has to
name its port and have the brackets the policy has), and is transparent:
what has arrived and what is on its way are the last of what was sent, without a gap;
they are all of it, unless the client wrote ahead of the 200, and all of it arrives in
the end when a side closes its half and the other reads, also with the other half still
going, or stuck. Every
request gets its status, and `shutdown` returns whatever the clients do (their tunnels
live on: it joins the accept loop only).

*What confines.* A process on mac has no more than one request asked for
(`SeatbeltConfines`), and of what it asked for all that is written as its real path,
also when it is an `exec` that finds the half-written instance of a killed create. The
profile has other paths as the policy spells them, which opens nothing. A container has
what was asked for too (`ContainerConfines`), with the exceptions of `mount_spec` named
in `NotMounted`. With none killed and no write failed, an `exec` has files, directory
and limits of one and the same create, whatever refused creates there were
(`ConfinedAsOne`); a limit that `setrlimit` refuses is missing. A run under an allowlist
is sent to its own proxy, not to a port left in the environment (`ProxyIsOurs`); secrets
arrive as the last reference says, and with a source that is missing, or bytes that are
no text, nothing starts (`SecretsInjected`); the user's command is not read as options
(`CommandIntact`), although a run on podman under an allowlist loses its `--network`s.
On mac all of this but the secrets and the proxy is of commands that do not begin with a
dash.

*The launch* starts nothing that does not fit, refuses nothing that does, uses the
mechanism named, holds its proxy for the whole of a `run` (`ProxyHeld`: only an accept
error ends it sooner), and does not report success of what did not start.

**The bounds, and why they are enough.**

- Two processes: every race here is between two, over one file or one container. Two
  invocations alive at once (`MaxConcurrent`), four in all (`MaxCommands`), so that a
  third and fourth follow in the same slot and meet what the race left behind, for
  instance a new create of a name whose old record a stale `rm` still holds.
  One name in `concurrent`, since that is where they meet; `Keys` has the name, the
  first id and none. Slots are symmetric.
- One kill (`MaxCrashes`): recovery of a kill is just the next command, which has no
  code for it that could be killed in turn. Two names and four commands make
  lists of length two, with the first or the last removed and `last_used` on either.
- One connection in `proxy`: tasks share nothing but the accept loop, which `EndLoop`
  covers for whoever is queued. Two bytes: one can be read alone or with the other.
- `confine` has three invocations: a create, a second one that overwrites or is
  refused, and an `exec`; or a create, an `rm`, and a create. The three policies cover
  every network mode, with and without the working directory, relative and absolute,
  missing and colliding paths, links and `..`, a directory spelt like `/workspace`, the
  root, secrets of each source, one referred to twice, one not text, one missing, one
  named like a proxy variable. One command has the words the rewriting looks for, one
  begins with a dash.
- `launch` has a word of 256, Kilo 2, a host of 64 bytes and 8 millicores, sizes at
  64, 65, 255, 256 and products on both sides of 64 and 256 with every suffix, cpus
  at both sides of the rounding points 0.5 and 8.5, and NaN and infinities.
- `CHECK_DEADLOCK FALSE` throughout: invocations and bytes are bounded, an invocation
  of `Launch` ends, and a command may run for ever; nothing here waits for a lock.

Each property of a passing run has a mutant (`PROJECT.json`, operators marked
"Mutant:" next to the original), a plausible slip in the code that the property
catches under the same configuration.

## Fairness

- `Ssbx!FairSpec`: `WF_vars(Work(p))`, the operating system runs every process that
  can run. `Start`, `Exec` (the user's command in a sandbox may run for ever) and
  `Crash` have none.
- `Proxy!FairSpec`: tokio polls every woken task, so each task's next step has weak
  fairness, and a connect ends one way or the other. `select!` polls its branches in
  random order, so `SeeShutdown` is not passed over for ever for `accept`. Nothing is
  assumed of clients and upstreams: they need not send, close or read on. A side that
  has stopped reading disables `Relay` to it, so that its fairness assumes nothing of
  `write_all`, and `EverythingArrives` says what happens if the side does read.
- The other runs check safety only.

## Proofs

`tlapm` checks these for every value of the constants that satisfies the modules'
assumptions: any number of processes, names, policies, commands, connections, bytes,
paths and requests. Every invariant and every safety property of an action that a
passing run checks is a theorem, the refinement of `Registry` among them.

**The state directory, whatever overlaps and is killed** (`SsbxProofs`)

| Theorem | Property | Argument |
|---|---|---|
| `TypeCorrect` | `TypeOK` | `TypeInv`: `TypeOK` and `ControlOK`, which says what a process has at each program point (a typed record from `save` on, a create's policy, only mac at `limits`). `TypeOK` alone is not inductive: a step that writes `rec[p].name` needs `rec[p]` to be there |
| `IndexIsWellFormed` | `IndexWellFormed` | `IndexInv` speaks of every copy of the index there is: the file and the document of each pending `fs::write` are well-formed with ids below `fresh`, and records still to be inserted have ids that are in none of them nor in each other. Another process may write a copy loaded long ago: uniqueness of the file alone says nothing of what will overwrite it |
| `BrickedIsForGood` | `BrickedForGood` | From `TypeInv`: every write of the index starts from a parsed one, or from an absent one |
| `OnlyRmEndsContainer` | `OnlyItsRmKills` | `RuntimeInv`: a record that is `Known`, in the index, in a write of it or in a process's hands, is `Tied`: no container of its id has another name or is ephemeral. It has to follow records through every hand, since the `rm` that kills acts on a copy that may be older than the container now running under the name |

**One invocation at a time** (`SerialProofs`, `QuietProofs`), with the hypothesis
`MaxConcurrent = 1` in each theorem, without which `lost_create` refutes one of them.

| Theorem | Property | Argument |
|---|---|---|
| `ListedAlwaysRuns`, `LastUsedAlwaysListed`, `CreatedStaysListed` | `ListedHasRuntime`, `LastUsedIsListed`, `CreatedIsListed` | `SerialInv`: the three hold of every index document, stored or about to be (`DocsInv`), and `PointInv` says what a process counts on: the record it will insert has its runtime, the one it will report is coming, the one whose runtime it will destroy is no longer listed. The second is needed since a runtime is made before the record is listed, and destroyed after |
| `TornByCrashOnly` | `TornOnlyByCrash` | `TornInv`: a `write(2)` finds its file empty, and nothing else is empty unless something was killed |
| `IndexIsRegistry` | `ImplementsRegistry` | Each step maps to a step of `Registry` or to a stutter. `FreshInv` (an invocation has at most one uuid) gives the abstract step its id, `BeginInv` says that a write that is about to truncate follows what the file holds. Where the file is truncated the register changes, so `BeginInv` is what makes that one step |
| `NoContainerIsOrphan` | `NoOrphan` | Also `EngineMayFail = FALSE`. `OrphanInv`: a container is `Covered` by a record that is coming, by a create or rm that has its record, or by the run it belongs to. `IndexThere` is needed for the error paths: past `Store::open` no look-up fails for want of an index, which would let an `rm` or a `create` give up between its steps |
| `CopiesAlwaysAgree` | `CopiesAgree` | `PointsInv` says which of the files an invocation has written at each program point, `CopiesInv` that each sandbox's files and hash agree or the one process that will make them agree is at work |

**The proxy** (`ProxyProofs`)

| Theorem | Property | Argument |
|---|---|---|
| `TypeCorrect` | `TypeOK` | with the two invariants below |
| `ReachedIsListed`, `ForbiddenIsUnlisted` | `OnlyListedReached`, `ListedNotForbidden` | Two spellings have one `Key` exactly when host (without case, with brackets as they are) and port (443 when there is no colon) agree; `CheckInv`: a task past the check still has the request it was checked for, and a refused one failed that check |
| `TunnelsAreTransparent` | `Transparent` | `StreamInv`: for each direction, what was received and what is under way are consecutive and end with what was sent last, and a byte is missing only from a client that did not wait. It needs the order of the handler: no byte is received while no relay runs, and none is sent ahead by a client that waits until there is a 200 |

**The launch** (`LaunchProofs`)

| Theorem | Property | Argument |
|---|---|---|
| `TypeCorrect`, `ProxyIsHeld`, `FailureIsReported` | `TypeOK`, `ProxyHeld`, `ReportsFailure` | `RunInv` ties `child`, `proxy`, `status` and `exit` to the stage |
| `StartedFitsHost` | `StartedFits` | What `parse_size` accepts is the exact product; a positive number of cpus a pool below `u64::MAX` can give is the one asked for, rounded half up; and no stage after `preflight` changes the policy |
| `RefusalHasReason` | `SoundIsAccepted` | The converse, for each refusal: a product that overflows does not fit, and neither does a number of cpus that saturates |
| `MechanismIsAsNamed` | `MechanismAsNamed` | `MechInv` follows the mechanism's name from the file through the option and `auto` |

**What confines a process** (`RunArgsProofs`, `ConfineProofs`)

`ConfineInv` is one inductive invariant for all seven:

| Theorem | Property | Its part of `ConfineInv` |
|---|---|---|
| `SeatbeltIsAsAsked` | `SeatbeltConfines` | `ProfileAsked`: the profile on disk, if it is whole, was generated for a request in `asked`. `exec` has no request of its own, and what confines it was written by an earlier invocation, killed or refused since |
| `ContainerIsAsAsked` | `ContainerConfines` | `ContainerAsked`: the container is `Full`, as a request in `asked` has it, in files, network, limits, directory and secrets |
| `ExecIsOfOneCreate` | `ConfinedAsOne` | `InstanceWhole`: if nothing was killed or failed, the files of the instance are of one create, or those that are written already are of the one that is writing |
| `ProxyIsItsOwn` | `ProxyIsOurs` | `PortIsProxys`: past its proxy step an allowlist invocation's port is that of the proxy it holds |
| `SecretsAreThere` | `SecretsInjected` | `EnvResolved`: the environment is what the references resolve to; `IsMap` says what that is for every list of references: for each variable, the value of the last one; and past its secrets step an invocation found each source, and text |
| `CommandIsKept` | `CommandIntact` | the command that `BuildContainer` and `AllowlistContainer` read back |
| `TypeCorrect` | `TypeOK` | with `Counted` (nothing runs before the first command) and `Running` (a process belongs to an invocation that waits for it) |

Under the podman ones lies what is hard: that an argument vector, patched after the
fact and with the user's command in it, is read as it was meant. `Part(args, options,
pairs)` says that some arguments are read as whole options whatever was read before,
`Plain(args)` that neither the image nor `--network` is among them. Both are kept by
concatenation, so each piece of `build_run_args` is shown to be one by itself
(`NetWorkTmpPart`, `MountPart`, `EnvPart`, ...) and the pieces are put together
(`BuildParsed`). For an allowlist, `CleanedWhole` shows that the loop over `--network`
touches the command only, `FirstImage` that the pairs go in front of the image and not
of a word of the command spelt like it, and `AllowlistParsed` what comes of both. Then
`BuildContainer` and `AllowlistContainer` give the container.

**Induction.** The parser, the loop and the environment are folds over sequences of any
length, and `FlattenSeq` is one too. The library's induction theorems take an operator,
which no installed prover can be given. `FoldLemmas` goes around it: `NatSetInduction`
is about a set of numbers, from the well-foundedness of `<`, so a property is
instantiated as `{k \in Nat : ...}`; `FoldRun` turns a fold into a function of states,
one after each element; and what is folded is a `CONSTANT` operator of the module, so
that each fold is an instance of it (`Parsing`, `Cleaning`, `Setting`, `Referring`).

**What the proof attempts found.** `SecretsInjected` was false of a secret named
`NO_PROXY` under an allowlist, which the proxy's own value replaces on both mechanisms;
the property now excepts it as it did the four proxy variables, and a policy of
`MCConfine` has such a secret. Its two cases, run and exec, were the arms of a CASE that
overlapped; they are two implications now. A policy's type says which fields it has, and
that its lists are sequences, where it had only said what each field holds.

**Assumptions.** `SsbxAssumption` (names, ids, policies and `None` are different
things), `PolicyAssumption` (the host's millicores are below u64::MAX, which is what an
infinite number of cpus becomes: without it the theorem is false), `LaunchAssumption`
(files, options and systems are typed, and `None` is no exit code), `ProxyAssumption` (a
listed endpoint has a port, as its type says; statuses are no requests, hosts are
typed), `HostPathAssumption` and `ConfineAssumption` (the root exists, a path through a
link stands for a real one and is not the beginning of one; policies and commands are
typed), and a `NoneAssumption` in `SsbxProperties` and `ConfineProperties` (`None` is
none of the values it stands in for). TLC evaluates all of them in the runs.

**Model-checked only:** liveness, that is `Terminates`, `RemovalCompletes`, `Answered`,
`EverythingArrives` and `ShutdownEnds`. They hold by fairness, and neither `ENABLED` nor
the rules for it are within the provers' reach.

## Findings

Where a run shows that the code does something other than a line of the repository
says:

1. **A refused `create` leaves another policy's hash** (`hash_mac`). On mac a second
   create of a name rewrites the instance and the stored policy, and only then does
   `insert` refuse it. The record keeps the old hash.
2. **An overlapping create wipes out another** (`lost_create`). `Store::open` looks for
   an index and writes the empty one when it saw none. In the run's trace a second
   create has looked before the first one wrote, and writes after the first one has
   recorded its sandbox and reported it: the container runs on unlisted. The second has
   reported nothing yet. `insert`'s load and save lose a record in the same way.
3. **`shell` can start the wrong program** (`shell_fits`). It resolves the sandbox
   twice, and another invocation can move `last_used` in between.
4. **NaN cpus are accepted** (`launch_nan`). `cpus <= 0.0` is false of NaN, and as
   millicores it is 0.
5. **No `exec` on mac has the policy's secrets** (`secrets_mac`). `cmd_exec` passes an
   empty environment and the instance keeps none; a persistent mac sandbox runs
   commands by `exec` only, so `create` resolves secrets for nobody.
6. **A killed command is reported as success** (`launch_signal`). `status.code()` is
   `None`, which `cmd_run` makes 0.

Known to the repository already and therefore not findings: the proxy is dropped
when `create` ends (TODO.md:11), `policy set` does not reach the runtime
(TODO.md:12), prefix escapes of seatbelt's `subpath` are open (TODO.md:13: that a
subpath is by components is an assumption here, not a result), the host's capacity is
fixed.

Seen while modelling, with no line of the repository that says otherwise:

- A `read_only` path inside the writable working directory stays writable on mac (the
  rules add up) and through `/workspace` on podman. `Granted` reads policies so.
- `exec` asks for `/workspace`, which a container with `workdir: false` does not have:
  the engine refuses (`ExecFails`).
- Two extra directories with one last component cannot be mounted together
  (`EngineRefuses`), and one spelt `/workspaces...` is not mounted at all.
- On mac a directory listed through a link or `..` is not there for the process:
  `resolve_path` keeps the spelling, and seatbelt compares real paths.
- On mac a command that begins with a dash is read as options of `sandbox-exec`.
- An IPv6 literal without a port, or with other brackets than in the policy, gets a 403
  of the proxy, or no `:443`.
- `write_all` in `relay` has no timeout: a side that does not read keeps its direction
  and the tunnel for good.
- Under an allowlist the proxy's variables, `NO_PROXY` too, replace secrets of those
  names.
- A create of a name that is listed under the other mechanism leaves a container or
  an instance that nothing lists, and another stored policy.

## What is abstracted, and what is left out

In `Ssbx`:

- An index is small enough that `read_to_string` is one read and `fs::write` one
  truncation and one write. Overlapping writes leave the later document if it covers
  the earlier, and garbage that does not parse if the earlier sticks out.
- `create_dir_all` and the first file in it, and `remove_dir_all`, are one step each.
  The instance directory is there exactly when `profile.sb` is. The `workdir` file
  beside it is left out: nothing decides on what it holds.
- `uuid` and the engine's container id come from one counter, `fresh`; no names look
  like ids. A hash is a token of the policy. The `mechanism` a create resolves to is
  in the command, not in the policy.
- Writing does not fail for want of space or permission (a failing write of the
  instance's files is in `Confine`); what the code drops on purpose is a write of the
  instance's policy.yaml into a directory that is gone.
- Whether a policy is refused is nondeterministic in `Ssbx` (`Refuse`,
  `RefusePolicy`) and exact in `Launch`.

In `Launch`: a policy is the fields that a check looks at; `SpawnFails` stands for
every error of `Mechanism::create`. In `Proxy`: a request arrives whole; a
connection can be reset once it is accepted; the bytes a
peer's socket buffers beyond what it reads are not counted: a side reads what is
written to it, or has stopped for good. The write of a status does not block.

In `Confine`: one sandbox, one invocation at a time (the races are `Ssbx`'s), policies
that validation has let through (`Launch`'s). A path is real or goes through a link or
`..` to a real one (`Denotes`); working directories are `getcwd`'s, so real, and
`canonicalize` of one does nothing; existence does not change. What seatbelt makes of a
profile is assumed: it compares the real path of a file with the path in a rule, as it
stands there, component by component. No path has a quote or a backslash, which the
profile would have to escape. `file-read-metadata`, the devices, and the listing of `/` are not among what a process reads. A container's own
file system is not host paths. The engine's and the kernel's reading of arguments and
rules (`Parsed`, `ContainerOf`, `Allowed`) is external, modelled from their
documentation. Creation of the instance directory and its first file is one step. A
proxy's port is fresh; that the system may give it to somebody else later is left out.
A process whose ssbx is killed is not followed any further.

Left out:

- `doctor` (prints what it finds), log output, YAML and JSON syntax, `FromStr` and
  `Display`;
- `ensure_image`, whose failure is ignored and whose success changes nothing else;
- the fields of a record that nothing reads back (workdir, created_at, proxy_port,
  log_path), and a sandbox named like another's id;
- the control channel (no crate uses it, and its transport is in another
  repository), `secure-memory`, the kernel's and the engine's own enforcement.

## Plan

Built, in order: `StoreState`, `Ssbx`, `Registry` and its refinement, `Proxy`,
`Policy` and `Launch`, their proofs; then early data in `Proxy`, ephemeral runs in
`Ssbx`, and `HostPath`, `Secrets`, `RunArgs`, `Seatbelt` and `Confine`. Next:

1. **Model.** Several connections in one `proxy` run; the record's `proxy_port` and
   the port's reuse by another sandbox's proxy.
2. **Prove.** What `Registry` itself promises (unique names, `last_used`), so that the
   refinement carries it to `Ssbx`; when two mounts of a request are refused
   (`Mountable`), in terms of its paths; the safety half of `Answered`, that a closed
   connection had at most one status.

## Running it

    tlc -workers 2 -config concurrent.cfg MCSsbx
    tlc -workers 2 -config proxy.cfg MCProxy
    tlc -workers 2 -config launch.cfg MCLaunch
    tlc -workers 2 -config confine.cfg MCConfine
    tlapm SsbxProofs.tla
    tlapm ConfineProofs.tla

`PROJECT.json` maps every definition to its source lines and lists runs, mutants,
hazards, findings and theorems. Longest: `serial` and `confine`, about two minutes on
two workers; `ConfineProofs` takes five.
