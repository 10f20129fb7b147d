------------------------------- MODULE MCSync -------------------------------
(* A small workspace: two pages of users, of roles and of a group's members, *)
(* one function of two types each, one of every other thing.                 *)
EXTENDS Sync

CONSTANTS ws, u1, u2, g1, admin, reader, s1, w1, p1, f1, f2

SmallPages ==
  [user |-> <<{u1}, {u2}>>, group |-> <<{g1}>>, role |-> <<{admin}, {reader}>>,
   source |-> <<{s1}>>, warehouse |-> <<{w1}>>, space |-> <<{p1}>>,
   DESTINATION |-> <<{f1}, {f2}>>, INSERT_DESTINATION |-> <<>>, SOURCE |-> <<>>]

SmallMembers == [g \in {g1} |-> <<{u1}, {u2}>>]

On(role, type, id) == [role |-> role, type |-> type, id |-> id]
RolesHeld == [p \in {u1, u2, g1} |->
                CASE p = u1 -> {On(admin, "WORKSPACE", ws), On(reader, "WORKSPACE", ws)}
                  [] p = u2 -> {}
                  [] p = g1 -> {On(reader, "WORKSPACE", ws)}]
SourceHeld == [p \in {u1, u2, g1} |-> IF p = u1 THEN {On(admin, "SOURCE", s1)} ELSE {}]

\* The first role is not there yet.
ReaderHeld == [p \in {u1, u2, g1} |-> {On(reader, "WORKSPACE", ws)}]

SmallNames == [r \in {admin, reader} |-> IF r = admin THEN {"source"} ELSE {"source", "function"}]
NoOne == {}

\* u2 gets a role, g1 loses one.
SomeChanges == {[who |-> u2, access |-> On(reader, "WORKSPACE", ws)],
                [who |-> g1, access |-> On(reader, "WORKSPACE", ws)]}

\* u2 gets the role once it is there.
LateChanges == {[who |-> u2, access |-> On(admin, "WORKSPACE", ws)]}

\* Every kind of endpoint, and every way it may answer.  A blank workspace is apart: the
\* sync that stores it never completes.
Ill(at, how) == [at |-> at, how |-> how]
Blanks == {Ill("role", "blank"), Ill("principal", "blank")}
Boths == {Ill("user", "both"), Ill("DESTINATION", "both"), Ill("members", "both")}
Sames == {Ill("user", "same"), Ill("DESTINATION", "same")}
PassingIlls == Blanks \cup Boths \cup Sames
AllIlls == PassingIlls \cup {Ill("workspace", "blank")}
=============================================================================
