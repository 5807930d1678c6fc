-------------------------- MODULE AuthorizedMembers --------------------------
(***************************************************************************)
(* The evaluation of authorized_members (membership.rs): passes over the   *)
(* list of grants until one changes nothing.  The list comes out of a hash *)
(* map, so the order in which a pass visits the grants is any order.       *)
(***************************************************************************)
EXTENDS Roles

CONSTANT NoRole  \* a peer that is not in the map of members

ASSUME NoRoleAssumption == NoRole \notin Role

VARIABLES
    grants,      \* the argument
    authorized,  \* authorized[p]: p's role, or NoRole
    left,        \* the grants this pass has yet to visit
    changed,     \* this pass has changed something
    done

grant_vars == <<grants, authorized, left, changed, done>>

GrantsTypeOK ==
    /\ grants \subseteq Grant /\ OnePerTarget(grants) /\ left \subseteq grants
    /\ authorized \in [Peer -> Role \cup {NoRole}]
    /\ changed \in BOOLEAN /\ done \in BOOLEAN

\* A list with one grant for each target that has a record.
GrantsInit ==
    /\ \E named \in SUBSET Peer : \E by \in [named -> Peer], role \in [named -> Role] :
         grants = {[target |-> t, granter |-> by[t], role |-> role[t]] : t \in named}
    /\ authorized = [p \in Peer |-> IF p = Owner THEN "Owner" ELSE NoRole]
    /\ left = grants
    /\ changed = FALSE /\ done = FALSE

\* Faulty Takes: a role that is already there counts as a change.
TakesAlways(g) == g.target # Owner /\ CanAdmin(authorized[g.granter])

\* Whether visiting g changes the map.
Takes(g) ==
    g.target # Owner /\ CanAdmin(authorized[g.granter]) /\ authorized[g.target] # g.role

Visit(g) ==
    /\ g \in left
    /\ left' = left \ {g}
    /\ authorized' = IF Takes(g) THEN [authorized EXCEPT ![g.target] = g.role] ELSE authorized
    /\ changed' = (changed \/ Takes(g))
    /\ UNCHANGED <<grants, done>>

\* Faulty EndPass: one pass is taken to be enough.
EndPassOnce ==
    /\ left = {} /\ ~done
    /\ done' = TRUE
    /\ left' = {}
    /\ changed' = FALSE
    /\ UNCHANGED <<grants, authorized>>

\* A pass is over: go on while it changed something.
EndPass ==
    /\ left = {} /\ ~done
    /\ done' = ~changed
    /\ left' = IF changed THEN grants ELSE {}
    /\ changed' = FALSE
    /\ UNCHANGED <<grants, authorized>>

GrantsNext == EndPass \/ \E g \in left : Visit(g)

GrantsFairness == WF_grant_vars(GrantsNext)

GrantsSpec == GrantsInit /\ [][GrantsNext]_grant_vars

------------------------------------------------------------------------------
(* Properties. *)

\* Everyone in the map is there on the word of someone in the map who may
\* administrate, at every point of the evaluation; the owner stays owner.
Rooted ==
    /\ authorized[Owner] = "Owner"
    /\ \A p \in Peer \ {Owner} : authorized[p] # NoRole =>
         \E g \in grants : /\ g.target = p /\ g.role = authorized[p]
                           /\ CanAdmin(authorized[g.granter])

\* Whatever the order, the evaluation passes through rooted maps only, and its result is the set of members and their roles.
\* "This is a pure function of converged state"
Correct ==
    /\ GrantsTypeOK /\ Rooted
    /\ done => \A p \in Peer :
           authorized[p] = IF p \in MembersOf(grants) THEN RoleIn(grants, p) ELSE NoRole

\* The evaluation ends: no grant is for ever taken again.
Terminates == <>done
==============================================================================
