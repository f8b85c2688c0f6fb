--------------------------- MODULE MCAdministrators ----------------------------
(* Two accounts, and updates of them one at a time or several at once. *)
EXTENDS Administrators

CONSTANTS u1, u2

To(u, role)    == [role |-> role, user |-> u]
MCSingles      == {To(u1, "user")}
MCEdits        == {<<To(u1, "user"), To(u2, "admin")>>, <<To(u2, "user"), To(u1, "admin")>>,
                   <<To(u2, "admin"), To(u2, "user"), To(u1, "user")>>}
MCSoleChoices  == {{}, {u2}}
================================================================================
