----------------------------- MODULE Organization -----------------------------
(****************************************************************************)
(* The members of an organization in the core service, their privileged     *)
(* roles, the OpenFGA tuple that mirrors them, and the events that tell the *)
(* knowledge service who has left.                                          *)
(*                                                                          *)
(* A request reads the actor's permission, runs one transaction under the   *)
(* lock of the organization, then reads the target again and writes the     *)
(* tuple.  The permission may be gone when the transaction runs: it asks    *)
(* for a user who has been an owner at some time.                           *)
(****************************************************************************)
EXTENDS Integers, FiniteSets

CONSTANTS
    Users,      \* the people
    Creator,    \* the one who has created the organization
    Collecting, \* those of them who may collect conversations
    Slots,      \* the requests under way at a time
    MaxEvents,  \* bound: departures of a user that are not published
    MaxFaults   \* bound: failed calls and restarts

VARIABLES
    member,     \* organization_memberships.status
    managers,   \* history: who has been an owner, and may have a request under way
    owner,      \* the users with a row of the role owner that is not revoked
    admin,      \* the same of the role information_admin
    invited,    \* there is an invitation that is pending
    tuple,      \* OpenFGA: the information_admin of the organization
    stale,      \* history: a sync of the user's tuple failed or was overtaken
    op,         \* the requests under way
    outbox,     \* how many departures of a user are not published; the other events
                \* ask for permissions to be synchronized, which is KnowledgeItem's part
    collector,  \* knowledge: a collector of the user that is not removed
    adding,     \* knowledge: users whose membership was checked for a new collector
    slipped,    \* history: a collector was added for someone who had left meanwhile
    faults

vars == <<member, managers, owner, admin, invited, tuple, stale, op, outbox, collector, adding,
          slipped, faults>>
knowledge == <<collector, adding, slipped>>

Free == [at |-> "free", user |-> "none", granted |-> FALSE]
Kinds == {"grant_owner", "revoke_owner", "grant_admin", "revoke_admin",
          "suspend", "reactivate", "remove", "leave", "transfer"}

Active(u) == member[u] = "active"
Owners == {u \in owner : Active(u)}
Privileged(u) == Active(u) /\ (u \in owner \/ u \in admin)

\* CreateOrganization has made its creator the owner and written his tuple.
Init ==
    /\ member = [u \in Users |-> IF u = Creator THEN "active" ELSE "none"]
    /\ owner = {Creator} /\ managers = {Creator}
    /\ tuple = [u \in Users |-> u = Creator]
    /\ admin = {} /\ invited = FALSE
    /\ stale = [u \in Users |-> FALSE]
    /\ op = [s \in Slots |-> Free]
    /\ outbox = [u \in Collecting |-> 0]
    /\ collector = [u \in Collecting |-> FALSE] /\ adding = {} /\ slipped = {}
    /\ faults = 0

Fault == faults < MaxFaults /\ faults' = faults + 1

\* enqueueOrganizationEvent, in the transaction of the change.
Enqueue(u) ==
    /\ u \in Collecting => outbox[u] < MaxEvents
    /\ outbox' = IF u \in Collecting THEN [outbox EXCEPT ![u] = @ + 1] ELSE outbox

-----------------------------------------------------------------------------
(* Invitations. *)

\* An invitation while everybody is a member has nobody to accept it: left out.
CreateInvitation ==
    /\ ~invited /\ \E u \in Users : member[u] \in {"none", "left"}
    /\ invited' = TRUE
    /\ UNCHANGED <<member, managers, owner, admin, tuple, stale, op, outbox, knowledge, faults>>

RevokeInvitation ==
    /\ invited
    /\ invited' = FALSE
    /\ UNCHANGED <<member, managers, owner, admin, tuple, stale, op, outbox, knowledge, faults>>

\* A member who comes back comes without his roles; the tuple is not looked at.
AcceptInvitation(u) ==
    /\ invited /\ member[u] \in {"none", "left"}
    /\ member' = [member EXCEPT ![u] = "active"]
    /\ owner' = owner \ {u} /\ admin' = admin \ {u}
    /\ invited' = FALSE
    /\ stale' = [stale EXCEPT ![u] = @ \/ \E s \in Slots : op[s].user = u /\ op[s].at = "read"]
    /\ UNCHANGED <<managers, tuple, op, outbox, knowledge, faults>>

-----------------------------------------------------------------------------
(* Roles and memberships. *)

SparesOwner_AnyRow(u) ==            \* mutant: an owner who is suspended counts
    u \in owner => Cardinality(owner) > 1
\* ErrLastOwner: the active owners are counted under the organization's lock.
SparesOwner(u) == u \in owner => Cardinality(Owners) > 1

\* The role is given to an active member, under the organization's lock.
GrantRole(u, role) ==
    /\ Active(u)
    /\ owner' = IF role = "owner" THEN owner \cup {u} ELSE owner
    /\ admin' = IF role = "admin" THEN admin \cup {u} ELSE admin
    /\ UNCHANGED <<member, outbox>>

RevokeRole(u, role) ==
    /\ Active(u)
    /\ IF role = "owner"
       THEN u \in owner /\ SparesOwner(u) /\ owner' = owner \ {u} /\ UNCHANGED admin
       ELSE u \in admin /\ admin' = admin \ {u} /\ UNCHANGED owner
    /\ UNCHANGED <<member, outbox>>

\* The actor must still be an owner, and he stays one.
TransferOwner(u) ==
    /\ Active(u) /\ Owners \ {u} # {}
    /\ owner' = owner \cup {u}
    /\ UNCHANGED <<member, admin, outbox>>

From(status) ==
    CASE status = "suspended" -> {"active"}
      [] status = "active" -> {"suspended"}
      [] OTHER -> {"active", "suspended"}

\* Who leaves, leaves his roles; who is suspended keeps them.
ChangeMembershipStatus(u, status) ==
    /\ member[u] \in From(status)
    /\ status # "active" => SparesOwner(u)
    /\ member' = [member EXCEPT ![u] = status]
    /\ IF status = "left" THEN owner' = owner \ {u} /\ admin' = admin \ {u}
                          ELSE UNCHANGED <<owner, admin>>
    /\ IF status = "active" THEN UNCHANGED outbox ELSE Enqueue(u)

Change(kind, u) ==
    \/ kind = "grant_owner" /\ GrantRole(u, "owner")
    \/ kind = "grant_admin" /\ GrantRole(u, "admin")
    \/ kind = "revoke_owner" /\ RevokeRole(u, "owner")
    \/ kind = "revoke_admin" /\ RevokeRole(u, "admin")
    \/ kind = "transfer" /\ TransferOwner(u)
    \/ kind = "suspend" /\ ChangeMembershipStatus(u, "suspended")
    \/ kind = "reactivate" /\ ChangeMembershipStatus(u, "active")
    \/ kind \in {"remove", "leave"} /\ ChangeMembershipStatus(u, "left")

\* Nobody suspends, reactivates, removes or makes a successor of himself.
Commit(s, kind, u) ==
    /\ op[s] = Free
    /\ kind \in {"suspend", "reactivate", "remove", "transfer"} => managers \ {u} # {}
    /\ Change(kind, u)
    /\ managers' = managers \cup owner'
    /\ op' = [op EXCEPT ![s] = [at |-> "committed", user |-> u,
                                granted |-> kind \in {"grant_owner", "grant_admin"}]]
    /\ stale' = [stale EXCEPT ![u] = @ \/ \E z \in Slots : op[z].user = u /\ op[z].at = "read"]
    /\ UNCHANGED <<invited, tuple, knowledge, faults>>

GrantedNow_IgnoresStatus(u) == u \in owner \/ u \in admin   \* mutant: roles of a suspended member
GrantedNow(u) == Privileged(u)

\* syncCurrentPrivilegedRole reads the target again; GrantRole goes by its request.
ReadRole(s) ==
    LET u == op[s].user IN
    /\ op[s].at = "committed"
    /\ op' = [op EXCEPT ![s].at = "read", ![s].granted = @ \/ GrantedNow(u)]
    /\ stale' = [stale EXCEPT ![u] = @ \/ (op[s].granted /\ ~Privileged(u))]
    /\ UNCHANGED <<member, managers, owner, admin, invited, tuple, outbox, knowledge, faults>>

\* SyncOrganizationRole: a lasting answer comes from a sync that nothing has overtaken.
SyncOrganizationRole(s) ==
    /\ op[s].at = "read"
    /\ tuple' = [tuple EXCEPT ![op[s].user] = op[s].granted]
    /\ op' = [op EXCEPT ![s] = Free]
    /\ UNCHANGED <<member, managers, owner, admin, invited, stale, outbox, knowledge, faults>>

\* OpenFGA does not answer after the commit: the caller gets an error, the change stays.
SyncFails(s) ==
    /\ op[s].at \in {"committed", "read"}
    /\ Fault
    /\ stale' = [stale EXCEPT ![op[s].user] = TRUE]
    /\ op' = [op EXCEPT ![s] = Free]
    /\ UNCHANGED <<member, managers, owner, admin, invited, tuple, outbox, knowledge>>

\* A restart ends the requests and runs SyncExistingRoleRelations, of active members only.
Restart ==
    /\ Fault
    /\ op' = [s \in Slots |-> Free]
    /\ tuple' = [u \in Users |-> IF Active(u) THEN Privileged(u) ELSE tuple[u]]
    /\ stale' = [u \in Users |-> ~Active(u) /\
                    (stale[u] \/ \E s \in Slots : op[s].user = u)]
    /\ UNCHANGED <<member, managers, owner, admin, invited, outbox, knowledge>>

-----------------------------------------------------------------------------
(* OrganizationEventRelay.Tick and the knowledge service. *)

Heard_NotTheSuspended(u) == member[u] # "suspended"     \* mutant: only leaving is heard
\* ApplyOrganizationMembershipEvent of who was suspended, removed or has left.
Heard(u) == TRUE

\* A publish that succeeds is marked, or it was heard and the event comes again; one that
\* fails waits its half minute and others overtake it.
PublishOrganizationEvent(u) ==
    /\ outbox[u] > 0
    /\ collector' = [collector EXCEPT ![u] = @ /\ ~Heard(u)]
    /\ slipped' = IF Heard(u) THEN slipped \ {u} ELSE slipped
    /\ \/ outbox' = [outbox EXCEPT ![u] = @ - 1] /\ UNCHANGED faults
       \/ Fault /\ UNCHANGED outbox
    /\ UNCHANGED <<member, managers, owner, admin, invited, tuple, stale, op, adding>>

\* AddCollector asks the core service who is a member, and then inserts.
CheckCollector(u) ==
    /\ Active(u) /\ ~collector[u] /\ u \notin adding
    /\ adding' = adding \cup {u}
    /\ UNCHANGED <<member, managers, owner, admin, invited, tuple, stale, op, outbox, collector, slipped, faults>>

AddCollector(u) ==
    /\ u \in adding
    /\ adding' = adding \ {u}
    /\ collector' = [collector EXCEPT ![u] = TRUE]
    /\ slipped' = IF Active(u) THEN slipped ELSE slipped \cup {u}
    /\ UNCHANGED <<member, managers, owner, admin, invited, tuple, stale, op, outbox, faults>>

Next ==
    \/ CreateInvitation \/ RevokeInvitation \/ Restart
    \/ \E u \in Users : AcceptInvitation(u)
    \/ \E u \in Collecting : PublishOrganizationEvent(u) \/ CheckCollector(u) \/ AddCollector(u)
    \/ \E s \in Slots :
          \/ \E kind \in Kinds, u \in Users : Commit(s, kind, u)
          \/ ReadRole(s) \/ SyncOrganizationRole(s) \/ SyncFails(s)

Spec == Init /\ [][Next]_vars

-----------------------------------------------------------------------------
TypeOK ==
    /\ member \in [Users -> {"none", "active", "suspended", "left"}]
    /\ owner \subseteq Users /\ admin \subseteq Users /\ invited \in BOOLEAN
    /\ tuple \in [Users -> BOOLEAN] /\ stale \in [Users -> BOOLEAN]
    /\ op \in [Slots -> [at : {"committed", "read"}, user : Users, granted : BOOLEAN] \cup {Free}]
    /\ outbox \in [Collecting -> 0..MaxEvents] /\ managers \subseteq Users
    /\ collector \in [Collecting -> BOOLEAN] /\ adding \subseteq Collecting /\ slipped \subseteq Collecting

\* Whatever owners do to each other at once, an organization keeps an active owner.
HasOwner == Owners # {}

\* OpenFGA knows the privileged members, once nobody is changing them and nothing failed
\* or overtook a change on its way there.
TupleIsRole ==
    \A u \in Users : stale[u] \/ (\E s \in Slots : op[s].user = u) \/ tuple[u] = Privileged(u)

\* Someone who is gone does not go on collecting when his events are heard, in whatever
\* order and however often, unless a collector of his was added behind the check.
GoneStopsCollecting ==
    \A u \in Collecting : collector[u] /\ ~Active(u) => u \in slipped \/ outbox[u] > 0

Organized == HasOwner /\ TupleIsRole /\ GoneStopsCollecting

-----------------------------------------------------------------------------
(* Why it holds: what a request has read of its target is still true until  *)
(* it writes the tuple, unless a change has overtaken it and left a mark.   *)

ReadIsTrue ==
    \A s \in Slots : op[s].at = "read" =>
        stale[op[s].user] \/ op[s].granted = Privileged(op[s].user)

OrgInv ==
    /\ TypeOK
    /\ HasOwner
    /\ TupleIsRole
    /\ GoneStopsCollecting
    /\ ReadIsTrue
=============================================================================
