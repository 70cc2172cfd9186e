------------------------------ MODULE Secrets -------------------------------
(***************************************************************************)
(* secrets.rs: the environment that the secret references of a policy      *)
(* stand for.  A content is text or bytes that are not UTF-8, of which only *)
(* which one it is matters: <<"text", x>> or <<"bytes", x>>.               *)
(***************************************************************************)
EXTENDS HostPath, Environ

CONSTANTS
    HostEnv,     \* the environment ssbx is started with: variables to texts
    HostFiles    \* the files that can be read: paths, as written, to contents

Missing == <<"missing">>

\* load_secret_bytes.  A `from` is [kind, what]: env:NAME and a plain NAME,
\* file:PATH, value:TEXT, or something else with a colon in it.
LoadSecretBytes(from, searchRoot) ==
    CASE from.kind \in {"env", "plain"} /\ from.what \in DOMAIN HostEnv -> HostEnv[from.what]
      [] from.kind = "file" /\ Resolve(from.what, searchRoot) \in DOMAIN HostFiles
             -> HostFiles[Resolve(from.what, searchRoot)]
      [] from.kind = "value" -> from.what
      [] OTHER -> Missing

\* resolve_secrets stops at the first source it cannot load.
Resolvable(refs, searchRoot) ==
    \A i \in DOMAIN refs : LoadSecretBytes(refs[i].from, searchRoot) # Missing

\* Mutant: entry().or_insert, so that the first of two references wins.
FirstWins(refs, searchRoot) ==
    FoldLeft(LAMBDA m, r : IF r.env \in DOMAIN m THEN m
                           ELSE Put(m, r.env, LoadSecretBytes(r.from, searchRoot)), <<>>, refs)

\* Its map: a variable referred to twice has the later value.
ResolveSecrets(refs, searchRoot) ==
    FoldLeft(LAMBDA m, r : Put(m, r.env, LoadSecretBytes(r.from, searchRoot)), <<>>, refs)

\* Mutant: from_utf8_lossy, which takes any bytes.
Lossy(map) == TRUE

\* to_env_pairs refuses a value that is not UTF-8, among those left in the map.
IsText(map) == \A v \in DOMAIN map : map[v][1] = "text"
=============================================================================
