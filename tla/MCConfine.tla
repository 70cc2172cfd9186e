----------------------------- MODULE MCConfine ------------------------------
(* Confine on a small host. *)
EXTENDS ConfineProperties

Home == <<"home">>
Work == <<"home", "work">>
Other == <<"home", "other">>

\* The two working directories, with a directory in one of them; one of the
\* same name elsewhere; one that is spelt like the workspace; keys that no
\* policy lists; system and temporary ones.
Host == {<<>>, Home, Work, Other, <<"home", "work", "data">>, <<"home", "keys">>,
         <<"srv", "data">>, <<"opt">>, <<"workspaces">>, <<"usr">>, <<"etc">>,
         <<"private", "tmp">>}

\* /tmp is a link, as on a mac, /link is one to /opt, and both working
\* directories have the other one next to them.
Links ==
    (<<"tmp">> :> <<"private", "tmp">>) @@ (<<"link">> :> <<"opt">>)
        @@ (Work \o <<"..", "other">> :> Other) @@ (Other \o <<"..", "other">> :> Other)

Text(x) == <<"text", x>>
Env == [HOST_TOKEN |-> Text("t0")]
HostContents ==
    [f \in {<<"home", "work", "token">>, <<"home", "other", "token">>, <<"home", "work", "key">>} |->
        IF f = <<"home", "other", "token">> THEN <<"bytes", "o">> ELSE Text("w")]
Systems == {<<"usr">>, <<"etc">>, <<"tmp">>, <<"private", "tmp">>}

Secret(var, kind, what) == [env |-> var, from |-> [kind |-> kind, what |-> what]]

\* SandboxPolicy::default, small.
Default ==
    [workdir |-> TRUE, read_only |-> <<>>, read_write |-> <<Workspace, Temp>>,
     network |-> "none", millicores |-> 1000, memory |-> 2, secrets |-> <<>>]

\* No network and not the working directory but one in it, one spelt like
\* /workspace, one that is not there; a secret named twice, whose file is text in
\* Work only.
Reader ==
    [Default EXCEPT !.workdir = FALSE, !.memory = 1, !.millicores = 10,
                    !.read_only = <<Relative(<<"data">>), Absolute(<<"workspaces">>), Absolute(<<"no">>)>>,
                    !.secrets = <<Secret("TOKEN", "plain", "HOST_TOKEN"),
                                  Secret("TOKEN", "file", Relative(<<"token">>))>>]

\* An allowlist, the other directory to read and a link to write through; secrets
\* named like variables of the proxy, and one whose file is in Work only.
Listed ==
    [Default EXCEPT !.network = "allowlist",
                    !.read_only = <<Absolute(<<"etc">>), Relative(<<"..", "other">>)>>,
                    !.read_write = <<Absolute(<<"srv", "data">>), Absolute(<<"link">>)>>,
                    !.secrets = <<Secret("HTTP_PROXY", "value", Text("p")),
                                  Secret("NO_PROXY", "env", "HOST_TOKEN"),
                                  Secret("KEY", "file", Relative(<<"key">>))>>]

\* The network, the whole host to read, and two directories that in Work have
\* one name.
Open ==
    [Default EXCEPT !.network = "unrestricted", !.millicores = 4000,
                    !.read_only = <<Relative(<<"data">>), Absolute(<<>>)>>,
                    !.read_write = <<Absolute(<<"srv", "data">>), Temp>>]

AllPolicies == {Reader, Listed, Open}
OnlyListed == {Listed}

\* Nothing, a command with the words the arguments are made of, and one that
\* begins with a dash.
FewCommands == {<<>>, <<"sh", "--network", "-v", "image">>, <<"-v", "sh">>}

WorkAndOther == {Work, Other}
=============================================================================
