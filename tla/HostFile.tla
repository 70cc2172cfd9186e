------------------------------ MODULE HostFile ------------------------------
(***************************************************************************)
(* One file of the host, as std::fs shows it to the program: the store's   *)
(* index, the stored policies and the seatbelt instance files are all read *)
(* with fs::read_to_string and replaced with fs::write.  fs::write is two  *)
(* system calls, open(O_TRUNC) and write(2), so a reader or a crash can    *)
(* come between them, and two writers of one file can overlap.  External   *)
(* code, modelled from how the crates use it.                              *)
(***************************************************************************)

\* The contents a reader can meet.  Nothing here is put together character by
\* character: a document is the value it was serialised from.
Absent == [state |-> "absent"]
Empty == [state |-> "empty"]          \* truncated, not yet written
Garbled == [state |-> "garbled"]      \* bytes that do not parse
Holds(d) == [state |-> "holds", data |-> d]

Contents(D) == {Absent, Empty, Garbled} \cup {Holds(d) : d \in D}

\* fs::read_to_string followed by the parser succeeds.
Readable(c) == c.state = "holds"

\* write(2) at offset 0 of a file that holds c.  Over an empty file it leaves
\* d.  Over what another writer put there since the truncation it leaves d
\* when d is at least as long, and d followed by the tail of the longer
\* document when it is not: the lengths are abstracted, so both may happen.
Overwrite(c, d) ==
    IF c \in {Empty, Holds(d)} THEN {Holds(d)} ELSE {Holds(d), Garbled}
=============================================================================
