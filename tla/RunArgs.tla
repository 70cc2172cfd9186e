------------------------------ MODULE RunArgs -------------------------------
(***************************************************************************)
(* The podman mechanism's argument vectors: what build_run_args and        *)
(* build_allowlist_args put together, and, as the engine reads it, the     *)
(* container that comes of it.  An argument is a tuple with its kind: a    *)
(* word, a volume, an environment pair or a limit.                         *)
(***************************************************************************)
EXTENDS HostPath, Environ

Word(w) == <<"word", w>>
Words(ws) == [i \in DOMAIN ws |-> Word(ws[i])]
Volume(host, guest, mode) == <<"volume", host, guest, mode>>
Pair(var, val) == <<"pair", var, val>>
Limit(resource, n) == <<"limit", resource, n>>

\* DEFAULT_IMAGE, a word the user's command can hold as well.
Image == Word("image")

ProxyVars == {"HTTP_PROXY", "HTTPS_PROXY", "http_proxy", "https_proxy"}
Url(host, port) == <<"url", host, port>>

\* Path::file_name has none for the root and for what ends in `..`.
HasFileName(host) == host # <<>> /\ Last(host) # ".."

\* Mutant: read-only mounts made like the others.
MountSpecRW(p, workdir, mode) ==
    LET host == Resolve(p, workdir)
    IN  IF StartsWithWorkspace(p) \/ ~Exists(host) \/ ~HasFileName(host) THEN <<>>
        ELSE <<Word("-v"), Volume(host, <<"mnt", Last(host)>>, "rw")>>

\* mount_spec and the -v before it: nothing for what is taken to be in the
\* workspace, what does not exist and what has no file_name.
MountSpec(p, workdir, mode) ==
    LET host == Resolve(p, workdir)
    IN  IF StartsWithWorkspace(p) \/ ~Exists(host) \/ ~HasFileName(host) THEN <<>>
        ELSE <<Word("-v"), Volume(host, <<"mnt", Last(host)>>, mode)>>

\* The loops over read_only, which skips nothing, and read_write.
MountSpecs(ps, skipped, workdir, mode) ==
    FlattenSeq([i \in DOMAIN ps |-> IF ps[i] \in skipped THEN <<>> ELSE MountSpec(ps[i], workdir, mode)])

EnvArgs(env) ==
    LET vars == SetToSeq(DOMAIN env)
    IN  FlattenSeq([i \in DOMAIN vars |-> <<Word("-e"), Pair(vars[i], env[vars[i]])>>])

\* build_run_args.  The branch that looks at SSBX_PROXY_PORT is left out: only
\* build_allowlist_args's result is used for an allowlist policy, and it comes
\* here with another mode.
BuildRunArgs(req) ==
    LET q == req.policy
    IN  <<Word("run"), Word(IF req.ephemeral THEN "--rm" ELSE "-d"), Word("--name"), Word("name"),
          Limit("cpus", q.millicores), Limit("memory", q.memory)>>
        \o (IF q.network # "unrestricted" THEN <<Word("--network"), Word("none")>> ELSE <<>>)
        \o (IF q.workdir THEN <<Word("-v"), Volume(req.workdir, Workspace.path, "rw"),
                                Word("-w"), Word("/workspace")>> ELSE <<>>)
        \o MountSpecs(q.read_only, {}, req.workdir, "ro")
        \o MountSpecs(q.read_write, {Workspace, Temp}, req.workdir, "rw")
        \o <<Word("--tmpfs"), Word("/tmp")>>
        \o EnvArgs(req.env)
        \o <<Image>>
        \o Words(IF req.command = <<>> THEN <<"sleep", "infinity">> ELSE req.command)

\* The loop that drops every --network and the argument after it, wherever.
CleanStep(s, a) ==
    IF s.skip THEN [s EXCEPT !.skip = FALSE]
    ELSE IF a = Word("--network") THEN [s EXCEPT !.skip = TRUE]
    ELSE [s EXCEPT !.out = Append(@, a)]

Cleaned(args) == FoldLeft(CleanStep, [out |-> <<>>, skip |-> FALSE], args).out

ProxyArgs(port) ==
    EnvArgs([v \in ProxyVars |-> Url("gateway", port)])
        \o <<Word("-e"), Pair("NO_PROXY", <<"text", "localhost">>)>>

\* Mutant: the pairs go where the image is last named.
AllowlistArgsLast(req, port) ==
    LET args == Cleaned(BuildRunArgs([req EXCEPT !.policy.network = "unrestricted"]))
        open == <<Head(args), Word("--add-host"), Word("gateway")>> \o Tail(args)
        at == SelectLastInSeq(open, LAMBDA a : a = Image)
    IN  IF port = 0 THEN open
        ELSE SubSeq(open, 1, at - 1) \o ProxyArgs(port) \o SubSeq(open, at, Len(open))

\* build_allowlist_args; port is SSBX_PROXY_PORT, 0 when it is not set.
BuildAllowlistArgs(req, port) ==
    LET args == Cleaned(BuildRunArgs([req EXCEPT !.policy.network = "unrestricted"]))
        open == <<Head(args), Word("--add-host"), Word("gateway")>> \o Tail(args)
        at == SelectInSeq(open, LAMBDA a : a = Image)
    IN  IF port = 0 THEN open
        ELSE SubSeq(open, 1, at - 1) \o ProxyArgs(port) \o SubSeq(open, at, Len(open))

\* Mutant: build_allowlist_args for every policy that has a network.
AllowlistForAll(req, port) ==
    IF req.policy.network # "none" THEN BuildAllowlistArgs(req, port) ELSE BuildRunArgs(req)

\* What PodmanMechanism::create hands to the engine.
CreateArgs(req, port) ==
    IF req.policy.network = "allowlist" THEN BuildAllowlistArgs(req, port) ELSE BuildRunArgs(req)

-----------------------------------------------------------------------------
(* The engine: external, as the command line of podman and docker has it *)

TakesValue == {Word(o) : o \in {"--name", "-v", "-w", "--tmpfs", "-e", "--network", "--add-host"}}
Flags == {Word(o) : o \in {"run", "--rm", "-d"}}

\* Options up to the first argument that is none: that is the image, and what
\* follows is the command.  An option is the argument and the value it takes.
ParseStep(s, a) ==
    IF s.image THEN [s EXCEPT !.command = Append(@, a[2])]
    ELSE IF s.option # <<>> THEN [s EXCEPT !.option = <<>>, !.options = Append(@, <<s.option, a>>)]
    ELSE IF a \in TakesValue THEN [s EXCEPT !.option = a]
    ELSE IF a \in Flags \/ a[1] = "limit" THEN [s EXCEPT !.options = Append(@, <<a, a>>)]
    ELSE [s EXCEPT !.image = TRUE]

Parsed(args) ==
    FoldLeft(ParseStep, [options |-> <<>>, option |-> <<>>, image |-> FALSE, command |-> <<>>], args)

Values(options, o) ==
    FlattenSeq([i \in DOMAIN options |-> IF options[i][1] = Word(o) THEN <<options[i][2]>> ELSE <<>>])

\* Two volumes on one place of the guest are an error of the engine.
Mountable(args) ==
    LET vs == Values(Parsed(args).options, "-v")
    IN  \A i, j \in DOMAIN vs : vs[i][3] = vs[j][3] => i = j

\* The container: what of the host can be read and written in it, what of the
\* network can be reached, its environment, working directory, limits and
\* command.  A volume is of what its path stands for, and a later -e wins.  The
\* tmpfs is the container's own.
ContainerOf(args) ==
    LET o == Parsed(args).options
        vs == Range(Values(o, "-v"))
        es == Values(o, "-e")
        LimitOf(r) == (CHOOSE pair \in Range(o) : pair[1][1] = "limit" /\ pair[1][2] = r)[1][3]
    IN  [read  |-> Below(Real({v[2] : v \in vs})),
         write |-> Below(Real({v[2] : v \in {w \in vs : w[4] = "rw"}})),
         net   |-> IF Word("none") \in Range(Values(o, "--network")) THEN {} ELSE {"host", "outside"},
         env   |-> FoldLeft(LAMBDA m, e : Put(m, e[2], e[3]), <<>>, es),
         cwd   |-> IF Values(o, "-w") = <<>> THEN "image" ELSE "workspace",
         cpus  |-> LimitOf("cpus"), memory |-> LimitOf("memory"),
         command |-> Parsed(args).command]
=============================================================================
