------------------------ MODULE MCLocalProvisioning ------------------------
(* A user and a group, two roles on two pages, a source and a function; lists    *)
(* with two permissions of one role, with several resources in one permission    *)
(* and with none.  The group keeps a permission whose entitlement no sync finds. *)
EXTENDS LocalProvisioning

CONSTANTS ws, u1, g1, admin, reader, s1, f1

SmallPages ==
  [user |-> <<{u1}>>, group |-> <<{g1}>>, role |-> <<{admin}, {reader}>>, source |-> <<{s1}>>,
   warehouse |-> <<>>, space |-> <<>>, DESTINATION |-> <<>>, INSERT_DESTINATION |-> <<{f1}>>,
   SOURCE |-> <<>>]
SmallMembers == [g \in {g1} |-> <<{u1}>>]
SmallNames == [r \in {admin, reader} |-> IF r = admin THEN {"source"} ELSE {"function"}]
SmallLength == [p \in {u1, g1} |-> IF p = u1 THEN 2 ELSE 0]

On(type, id) == [type |-> type, id |-> id]
Perm(r, rs) == [role |-> r, resources |-> rs]
UserLists == {<<>>, <<Perm(admin, <<On("WORKSPACE", ws)>>),
                      Perm(reader, <<On("FUNCTION", f1), On("SOURCE", s1)>>),
                      Perm(admin, <<>>)>>}
GroupLists == {<<Perm(reader, <<On("SOURCE", s1)>>)>>}
Lists == [p \in {u1, g1} |-> IF p = u1 THEN UserLists ELSE GroupLists]
=============================================================================
