------------------------------ MODULE MCBttest ------------------------------
(***************************************************************************)
(* The characteristic of bttest and three others: one that may be read,    *)
(* one to write, which is served as one that notifies, and one to          *)
(* indicate, which is served as one that does not.                         *)
(***************************************************************************)
EXTENDS Bttest

OfBttest == [properties |-> {"read"}, setsPermissions |-> FALSE, permissions |-> {}]
Readable == [OfBttest EXCEPT !.setsPermissions = TRUE, !.permissions = {"read"}]
ToWrite == [OfBttest EXCEPT !.properties = {"write"}]
ToIndicate == [OfBttest EXCEPT !.properties = {"indicate"}]

JustBttest == {OfBttest}
SomeOrders == {OfBttest, Readable, ToWrite, ToIndicate}
=============================================================================
