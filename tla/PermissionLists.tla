-------------------------- MODULE PermissionLists --------------------------
(***************************************************************************)
(* The permissions of one principal as the code holds them: a list, each   *)
(* element a role on a list of resources.  grantPermissions appends to it, *)
(* whatever is there already, and revokePermissions filters it.  The other *)
(* modules see the set of accesses the list amounts to.                    *)
(***************************************************************************)
EXTENDS Permissions, Integers, Sequences

\* The accesses a list amounts to.
Flatten(list) ==
  UNION {{[role |-> p.role, type |-> p.resources[i].type, id |-> p.resources[i].id] :
            i \in DOMAIN p.resources} : p \in {list[i] : i \in DOMAIN list}}

\* Mutant: the new permission takes the place of the last one.
GrantOver(list, e) ==
  (IF list = <<>> THEN <<>> ELSE SubSeq(list, 1, Len(list) - 1))
    \o <<[role |-> RoleOf(e),
          resources |-> <<[type |-> AccessOf(e).type, id |-> AccessOf(e).id]>>]>>

GrantPermissions(list, e) ==
  Append(list, [role |-> RoleOf(e),
                resources |-> <<[type |-> AccessOf(e).type, id |-> AccessOf(e).id]>>])

\* Mutant: only the first permission of the role is dropped.
RevokeFirst(list, e) ==
  LET named == {i \in DOMAIN list : list[i].role = RoleOf(e)}
      first == CHOOSE i \in named : \A j \in named : i <= j
  IN  IF named = {} THEN list
      ELSE SubSeq(list, 1, first - 1) \o SubSeq(list, first + 1, Len(list))

\* revokePermissions goes through the list and keeps what is of another role.
RevokePermissions(list, e) ==
  LET kept[n \in 0 .. Len(list)] ==
        IF n = 0 THEN <<>>
        ELSE IF list[n].role = RoleOf(e) THEN kept[n - 1]
        ELSE Append(kept[n - 1], list[n])
  IN  kept[Len(list)]
=============================================================================
