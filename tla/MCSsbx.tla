------------------------------- MODULE MCSsbx -------------------------------
(* Ssbx on small instances: the constants of the configurations. *)
EXTENDS SsbxRegistry

CONSTANTS a, b, p1, p2, q1, q2   \* names, processes, policies

FirstId == 0

\* Arguments: no name, each name, and the id of the first record made.
AnyKey == {None, a, FirstId}
NamesOrNone == Names \cup {None}

\* Processes are interchangeable in every safety property.
ProcSymmetry == Permutations(Procs)

\* So are names and policies.
NamePolicySymmetry == Permutations(Names) \cup Permutations(Policies)
=============================================================================
