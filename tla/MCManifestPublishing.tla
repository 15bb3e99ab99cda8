------------------------ MODULE MCManifestPublishing ------------------------
(***************************************************************************)
(* Two overlapping deploys of catalogs that differ in one thing each: in   *)
(* the order and the repetitions of their lists only, in a flag, in a      *)
(* description, in a name, in the permissions of a role, or by an entry.   *)
(***************************************************************************)
EXTENDS ManifestPublishing

CONSTANT Copy

Read   == [key |-> 1, description |-> Copy, tenantAssignable |-> FALSE]
Write  == [key |-> 2, description |-> Empty, tenantAssignable |-> FALSE]
Editor == [key |-> 1, name |-> "Editor", description |-> Empty,
           permissions |-> <<1, 2>>, staffOnly |-> FALSE]
Viewer == [key |-> 2, name |-> "Viewer", description |-> Copy,
           permissions |-> <<1>>, staffOnly |-> FALSE]

Basic == [permissions |-> <<Read, Write>>, roles |-> <<Editor, Viewer>>]

MCCatalogs ==
  {Basic,
   [permissions |-> <<Write, Read>>,
    roles       |-> <<Viewer, [Editor EXCEPT !.permissions = <<2, 1, 2>>]>>],
   [Basic EXCEPT !.permissions[1].tenantAssignable = TRUE],
   [Basic EXCEPT !.permissions[1].description = Empty],
   [Basic EXCEPT !.roles[1].staffOnly = TRUE],
   [Basic EXCEPT !.roles[1].permissions = <<2>>],
   [Basic EXCEPT !.roles[2].name = Empty],
   [Basic EXCEPT !.roles = <<>>],
   [permissions |-> <<>>, roles |-> <<>>]}
=============================================================================
