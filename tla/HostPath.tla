------------------------------ MODULE HostPath ------------------------------
(***************************************************************************)
(* Paths: a path of the host is the sequence of its components, and what a *)
(* policy lists is an absolute path or one relative to the working         *)
(* directory.  A path can be written through a symbolic link or `..`; the  *)
(* one it stands for has neither.                                          *)
(***************************************************************************)
EXTENDS Naturals, SequencesExt

CONSTANTS
    HostPaths,       \* the real paths of the host, the root among them
    Denotes,         \* the paths that go through a link or `..`: to real ones
    WorkspaceWords   \* components whose spelling begins with "workspace"

ASSUME HostPathAssumption ==
    /\ <<>> \in HostPaths
    /\ "workspace" \in WorkspaceWords
    /\ \A p \in DOMAIN Denotes :
            Denotes[p] \in HostPaths /\ \A h \in HostPaths : ~IsPrefix(p, h)

Absolute(path) == [absolute |-> TRUE, path |-> path]
Relative(path) == [absolute |-> FALSE, path |-> path]

Workspace == Absolute(<<"workspace">>)
Temp == Absolute(<<"tmp">>)

\* p is dir or below it, component by component.  That Seatbelt's subpath is
\* this, and never a prefix of characters, is assumed (TODO.md:13 is open).
Under(dir, p) == IsPrefix(dir, p)

Below(dirs) == {h \in HostPaths : \E d \in dirs : Under(d, h)}

\* Path::canonicalize and Path::exists.
Canonical(p) == IF p \in DOMAIN Denotes THEN Denotes[p] ELSE p
Exists(p) == Canonical(p) \in HostPaths
Real(dirs) == {Canonical(d) : d \in dirs}

\* Path::join
Resolve(p, workdir) == IF p.absolute THEN p.path ELSE workdir \o p.path

\* `policy_path.starts_with("/workspace")`, which compares characters.
StartsWithWorkspace(p) ==
    p.absolute /\ p.path # <<>> /\ Head(p.path) \in WorkspaceWords

\* resolve_host_paths: the directories that a policy lists for reading and
\* those that it lists for writing, with the working directory when it is in.
ResolveHostPaths(policy, workdir) ==
    LET Resolved(ps) == {Resolve(ps[i], workdir) : i \in DOMAIN ps}
    IN  [ro |-> Resolved(policy.read_only),
         rw |-> Resolved(policy.read_write)
                    \cup (IF policy.workdir THEN {workdir} ELSE {})]
=============================================================================
