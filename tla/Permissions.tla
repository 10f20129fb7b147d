---------------------------- MODULE Permissions ----------------------------
(***************************************************************************)
(* What baton-segment's grant and revoke helpers compute, free of any      *)
(* state: from an entitlement to the Segment permission it stands for, and *)
(* from the permissions a principal holds to the ones that replace them.   *)
(*                                                                         *)
(* A Segment permission is a role on a list of resources.  Here the        *)
(* permissions of a principal are flattened to a set of accesses, one per  *)
(* role and resource; PermissionLists shows that the code's list           *)
(* operations act on the lists as these operators act on the sets.         *)
(***************************************************************************)

CONSTANTS Role,      \* Segment role ids
          Resource,  \* ids of the workspace, sources, warehouses, spaces, functions
          NoRole     \* an entitlement description without a role id in it

ASSUME RoleAssumption == NoRole \notin Role

\* Connector resource types whose entitlements carry a role id in their
\* description, and all those whose Grant edits the principal's permissions.
ResourceKind == {"source", "warehouse", "space", "function"}
PermissionKind == ResourceKind \cup {"role"}

\* Segment's spelling of a resource type: strings.ToUpper of the connector's
\* resource type; a role is granted on the workspace.
SegmentType == [source    |-> "SOURCE",
                warehouse |-> "WAREHOUSE",
                space     |-> "SPACE",
                function  |-> "FUNCTION",
                role      |-> "WORKSPACE"]

Access == [role : Role,
           type : {"SOURCE", "WAREHOUSE", "SPACE", "FUNCTION", "WORKSPACE"},
           id   : Resource]

(***************************************************************************)
(* An entitlement e has the type and the id of its resource (e.kind, e.id),*)
(* the id of that resource's parent (e.parent) and the role id split out   *)
(* of its description (e.desc).                                            *)
(***************************************************************************)

RoleOf(e) == IF e.kind = "role" THEN e.id ELSE e.desc

AccessOf(e) == [role |-> RoleOf(e),
                type |-> SegmentType[e.kind],
                id   |-> IF e.kind = "role" THEN e.parent ELSE e.id]

\* Mutant: the permissions read from Segment are not carried over.
OnlyGranted(held, e) == {AccessOf(e)}

\* grantPermissions appends the one permission the entitlement stands for.
Granted(held, e) == held \cup {AccessOf(e)}

\* Mutant: only the permission on this very resource is dropped.
RevokedOne(held, e) == held \ {AccessOf(e)}

\* revokePermissions drops every permission of the role, whatever its resources.
Revoked(held, e) == {a \in held : a.role # RoleOf(e)}
=============================================================================
