----------------------------- MODULE Membership -----------------------------
(***************************************************************************)
(* What a filter promises whatever its hash and its size: what was put in  *)
(* is never denied.  BloomFilter implements it.                            *)
(***************************************************************************)
CONSTANT Items

VARIABLES
    members,    \* what was put in
    answer      \* to the last question, "none" when something else was done

membershipVars == <<members, answer>>

MembershipInit ==
    /\ members = {}
    /\ answer = "none"

Insert(x) ==
    /\ members' = members \cup {x}
    /\ answer' = "none"

Ask(x) ==
    /\ answer' \in {"yes", "no"}
    /\ x \in members => answer' = "yes"
    /\ UNCHANGED members

Forget ==
    /\ answer' = "none"
    /\ UNCHANGED members

MembershipNext == Forget \/ \E x \in Items : Insert(x) \/ Ask(x)

MembershipSpec == MembershipInit /\ [][MembershipNext]_membershipVars
=============================================================================
