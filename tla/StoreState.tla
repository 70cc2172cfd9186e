----------------------------- MODULE StoreState -----------------------------
(***************************************************************************)
(* The document index.json holds (SandboxState) and what the operations of *)
(* Store compute from it between load_index and save_index.  All of it is  *)
(* pure: the files and the interleavings are in Ssbx.                      *)
(***************************************************************************)
EXTENDS Naturals, SequencesExt

CONSTANT None   \* Rust's Option::None, and "no such record"

\* SandboxPolicy::content_hash, a SHA-256 of the YAML: equal for equal policies
\* only.  It is a token, not the policy.
Hash(policy) == <<"sha256", policy>>

\* SandboxState::default()
DefaultState == [last_used |-> None, sandboxes |-> <<>>]

\* |s| s.name == key || s.id == key
Answers(r, key) == r.name = key \/ r.id = key

Hits(st, key) == {i \in DOMAIN st.sandboxes : Answers(st.sandboxes[i], key)}

\* iter().find and iter().position: the first record in index order.
Find(st, key) ==
    IF Hits(st, key) = {} THEN None ELSE st.sandboxes[Min(Hits(st, key))]

HasName(st, name) == \E i \in DOMAIN st.sandboxes : st.sandboxes[i].name = name

\* Store::get_or_last: the record the key names; without a key the one last
\* used, or the newest when last_used is unset or names no record.
GetOrLast(st, key) ==
    IF key # None THEN Find(st, key)
    ELSE IF st.last_used # None /\ Find(st, st.last_used) # None
         THEN Find(st, st.last_used)
    ELSE IF st.sandboxes = <<>> THEN None
    ELSE Last(st.sandboxes)

\* Mutant: the list starts anew.
InsertAlone(st, r) ==
    [last_used |-> r.name, sandboxes |-> <<r>>]

\* Store::insert, past its AlreadyExists check.
Insert(st, r) ==
    [last_used |-> r.name, sandboxes |-> Append(st.sandboxes, r)]

\* Mutant: pop() in place of remove(idx).
RemovePop(st, key) ==
    [last_used |-> IF Len(st.sandboxes) = 1 THEN None ELSE st.sandboxes[1].name,
     sandboxes |-> Front(st.sandboxes)]

\* Mutant: last_used is not looked after.
RemoveOnly(st, key) ==
    [st EXCEPT !.sandboxes = RemoveAt(@, Min(Hits(st, key)))]

\* Mutant: last_used is cleared, whoever else is listed.
RemoveAndClear(st, key) ==
    [last_used |-> None, sandboxes |-> RemoveAt(st.sandboxes, Min(Hits(st, key)))]

\* Store::remove of a record Find returned.
RemoveKey(st, key) ==
    LET at   == Min(Hits(st, key))
        left == RemoveAt(st.sandboxes, at)
    IN  [last_used |->
            IF st.last_used # st.sandboxes[at].name THEN st.last_used
            ELSE IF left = <<>> THEN None
            ELSE Last(left).name,
         sandboxes |-> left]

\* Mutant: the hash is not computed again.
UpdateNoHash(st, name, policy) == [st EXCEPT !.last_used = name]

\* Store::update_policy, past its look-up, which goes by name only.
UpdatePolicy(st, name, policy) ==
    LET at == Min({i \in DOMAIN st.sandboxes : st.sandboxes[i].name = name})
    IN  [last_used |-> name,
         sandboxes |-> [st.sandboxes EXCEPT ![at].policy_hash = Hash(policy)]]

\* Store::touch_last_used, which does not look whether the name is listed.
Touch(st, name) == [st EXCEPT !.last_used = name]
=============================================================================
