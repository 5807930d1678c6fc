-------------------------------- MODULE Roles --------------------------------
(***************************************************************************)
(* Who belongs to a scope (crates/stitch-p2p/src/membership.rs).  A grant  *)
(* names a target, the peer that granted, and a role.  A `_members` record *)
(* is keyed by its target, so a set of grants taken from the records has   *)
(* at most one per target.                                                 *)
(***************************************************************************)
EXTENDS Naturals, FiniteSets

CONSTANTS
    Peer,
    Owner   \* the genesis owner

ASSUME OwnerAssumption == Owner \in Peer

Role == {"Owner", "Admin", "Member"}

CanAdmin(role) == role \in {"Owner", "Admin"}

Grant == [target : Peer, granter : Peer, role : Role]

OnePerTarget(grants) == \A g, h \in grants : g.target = h.target => g = h

\* The role a peer holds if it is a member: the owner's cannot be changed.
RoleIn(grants, p) ==
    IF p = Owner THEN "Owner" ELSE (CHOOSE g \in grants : g.target = p).role

\* Who may administrate, if it is a member.
MayAdmin(grants, p) == p = Owner \/ \E g \in grants : g.target = p /\ CanAdmin(g.role)

\* The owner is in S, and with a peer that may administrate whomever it names.
Closed(grants, S) ==
    Owner \in S /\ \A g \in grants : g.granter \in S /\ MayAdmin(grants, g.granter) => g.target \in S

\* The members, by what membership means: the peers that cannot be left out.
MembersOf(grants) == {p \in Peer : \A S \in SUBSET Peer : Closed(grants, S) => p \in S}
==============================================================================
