------------------------------ MODULE MCAccess ------------------------------
(* A superuser, another administrator, a team besides the default one.      *)
EXTENDS Access

CONSTANTS root, adm, system, custom, default, squad, retro, sess, k1, k2

Form(active, roles, teams, password) ==
    [active |-> active, roles |-> roles, teams |-> teams, password |-> password]

MCSigned == [k \in Tokens |-> IF k = k1 THEN root ELSE adm]

MCForms == {Form(TRUE, {system}, {}, TRUE), Form(FALSE, {custom}, {squad}, FALSE)}
=============================================================================
