---------------------------- MODULE SsbxRegistry ----------------------------
(***************************************************************************)
(* One invocation at a time, ssbx implements Registry.  A command takes    *)
(* effect when save_index truncates the file: from then on the old index   *)
(* is gone, and the new one follows unless the invocation is killed first, *)
(* which loses both.                                                       *)
(***************************************************************************)
EXTENDS SsbxProperties

Filling == {p \in Procs : WritingIndex(p) /\ wr[p].stage = "fill"}

IsLost == file[Index] \in {Empty, Garbled} /\ Filling = {}

Document ==
    IF Filling # {} THEN wr[CHOOSE p \in Filling : TRUE].data
    ELSE IF Loaded THEN Stored
    ELSE DefaultState

\* Every invocation takes at most one uuid, so MaxCommands bounds the ids.
Ids == 0 .. MaxCommands
RegistryRecords ==
    [id : Ids, name : Names, mechanism : {"podman", "mac"},
     runtime_id : Ids \cup Names, policy_hash : {Hash(q) : q \in Policies}]

R == INSTANCE Registry WITH
        Record  <- RegistryRecords,
        entries <- {Document.sandboxes[i] : i \in DOMAIN Document.sandboxes},
        last    <- Document.last_used,
        lost    <- IsLost

\* Every behaviour with one invocation at a time is one of Registry: a save_index
\* is one step of Registry or none, and a kill loses nothing, or the change, or
\* everything.  Registry does not know which command takes a step: that a create
\* only adds, or an exec only moves last_used, is not part of this.
ImplementsRegistry == R!Spec
=============================================================================
