----------------------------- MODULE MCSocketDirs -----------------------------
(***************************************************************************)
(* Three contents of the OvsDpdkConfig: one that names its user and has a  *)
(* label and an ACL, one with numbers only, which leaves the group as it   *)
(* is, and one that names its group and has a malformed label.             *)
(***************************************************************************)
EXTENDS SocketDirs

Named  == [user |-> [kind |-> "name", name |-> "ovs"],
           group |-> [kind |-> "id", id |-> 0],
           label |-> "container_file", acl |-> {"qemu"}]
Plain  == [user |-> [kind |-> "id", id |-> 1], group |-> [kind |-> "id", id |-> NoID],
           label |-> NoLabel, acl |-> {}]
Broken == [Plain EXCEPT !.group = [kind |-> "name", name |-> "qemu"], !.label = BadLabel]

Contents == {Named, Plain, Broken}
=============================================================================
