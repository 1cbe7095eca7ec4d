----------------------------- MODULE Membership -----------------------------
(***************************************************************************)
(* Worlds, their owners and members, and the invitations that let users    *)
(* in: the part of store.rs behind the world, invitation and membership    *)
(* routes of web.rs.  SQLite has one connection, so each store call is one *)
(* step; the calls of different browsers come in any order.                *)
(***************************************************************************)
EXTENDS Naturals, FiniteSets

CONSTANTS
  World,
  User,
  Invite,        \* tokens; a random token is never drawn twice
  Nobody,        \* owner of a world that does not exist yet
  Limit          \* bound: the use limits asked for, NoLimit if none is

NoLimit == 0     \* max_uses IS NULL

ASSUME MembershipAssumption ==
  /\ IsFiniteSet(User)
  /\ Nobody \notin User
  /\ Limit \subseteq Nat

VARIABLES
  owner,         \* world_owner
  agent,         \* per world and user the player agent of the membership, 0: no membership
  active,        \* per world the members whose access is active
  invitation,    \* world_invitation, with the rows that were never made or are deleted
  agents,        \* agents created: the next one has a fresh id
  joined         \* per token who became a member through it

memberVars == <<owner, agent, active, invitation, agents, joined>>

NoInvitation == [state |-> "unissued"]
Live(t)      == invitation[t].state = "live"
Member(w, u) == agent[w][u] # 0
Owns(u, w)   == owner[w] = u

MembershipInit ==
  /\ owner = [w \in World |-> Nobody]
  /\ agent = [w \in World |-> [u \in User |-> 0]]
  /\ active = [w \in World |-> {}]
  /\ invitation = [t \in Invite |-> NoInvitation]
  /\ agents = 0
  /\ joined = [t \in Invite |-> {}]

(* join_world: the membership, its player agent and its Adventurer. *)
JoinWorld(w, u) ==
  /\ agents' = agents + 1
  /\ agent' = [agent EXCEPT ![w][u] = agents + 1]
  /\ active' = [active EXCEPT ![w] = @ \cup {u}]

(* install_scenario: the world and its owner's membership are made at once. *)
InstallScenario(u, w) ==
  /\ owner[w] = Nobody
  /\ owner' = [owner EXCEPT ![w] = u]
  /\ JoinWorld(w, u)
  /\ UNCHANGED <<invitation, joined>>

CreateInvitation(u, t, w, limit) ==
  /\ invitation[t] = NoInvitation
  /\ Owns(u, w)
  /\ invitation' = [invitation EXCEPT ![t] =
       [state |-> "live", world |-> w, max |-> limit, uses |-> 0]]
  /\ UNCHANGED <<owner, agent, active, agents, joined>>

RevokeInvitation(u, t, w) ==
  /\ Live(t) /\ invitation[t].world = w /\ Owns(u, w)
  /\ invitation' = [invitation EXCEPT ![t].state = "revoked"]
  /\ UNCHANGED <<owner, agent, active, agents, joined>>

RemoveAnyMember(u, v, w) ==                    \* faulty: the owner too
  /\ Owns(u, w) /\ v \in active[w]
  /\ active' = [active EXCEPT ![w] = @ \ {v}]
  /\ UNCHANGED <<owner, agent, invitation, agents, joined>>

(* Access is withdrawn; the membership, its agent and Adventurer stay. *)
RemoveMember(u, v, w) ==
  /\ Owns(u, w) /\ v \in active[w] /\ v # u
  /\ active' = [active EXCEPT ![w] = @ \ {v}]
  /\ UNCHANGED <<owner, agent, invitation, agents, joined>>

UnlimitedOrLast(i)  == i.max = NoLimit \/ i.uses <= i.max      \* faulty: off by one
UnlimitedOrFree(i)  == i.max = NoLimit \/ i.uses < i.max

KnownActive(w, u) == u \in active[w]           \* faulty: looks up active memberships only
Existing(w, u)    == Member(w, u)

(* accept_invitation, one transaction: a returning member needs no slot.   *)
AcceptInvitation(u, t) ==
  /\ Live(t)
  /\ LET w == invitation[t].world IN
       \/ /\ Existing(w, u)
          /\ active' = [active EXCEPT ![w] = @ \cup {u}]
          /\ UNCHANGED <<owner, agent, invitation, agents, joined>>
       \/ /\ ~Existing(w, u)
          /\ UnlimitedOrFree(invitation[t])
          /\ invitation' = [invitation EXCEPT ![t].uses = @ + 1]
          /\ joined' = [joined EXCEPT ![t] = @ \cup {u}]
          /\ JoinWorld(w, u)
          /\ UNCHANGED owner

MembershipStep ==
  \/ \E u \in User, w \in World : InstallScenario(u, w)
  \/ \E u \in User, t \in Invite, w \in World :
       \/ \E limit \in Limit : CreateInvitation(u, t, w, limit)
       \/ RevokeInvitation(u, t, w)
  \/ \E u, v \in User, w \in World : RemoveMember(u, v, w)
  \/ \E u \in User, t \in Invite : AcceptInvitation(u, t)

MembershipSpec == MembershipInit /\ [][MembershipStep]_memberVars

-----------------------------------------------------------------------------
Invitation == {NoInvitation}
  \cup [state : {"live", "revoked"}, world : World, max : Nat, uses : Nat]

MembershipTypeOK ==
  /\ owner \in [World -> User \cup {Nobody}]
  /\ agent \in [World -> [User -> Nat]]
  /\ active \in [World -> SUBSET User]
  /\ invitation \in [Invite -> Invitation]
  /\ agents \in Nat
  /\ joined \in [Invite -> SUBSET User]

(* A token lets in no more new members than it was made for, and has one   *)
(* use for each of them: whoever is removed and returns takes no slot.     *)
SlotsAreSeats ==
  \A t \in Invite : invitation[t] # NoInvitation =>
    /\ invitation[t].uses = Cardinality(joined[t])
    /\ invitation[t].max # NoLimit => invitation[t].uses <= invitation[t].max

(* Every world that exists has an owner who is a member and has access:    *)
(* the start of every newcomer is where the owner's Adventurer is.         *)
OwnersStay ==
  \A w \in World :
    /\ owner[w] # Nobody => Member(w, owner[w]) /\ owner[w] \in active[w]
    /\ owner[w] = Nobody => active[w] = {}

(* A membership keeps its agent, and with it the history and Adventurer,   *)
(* through removal, return and everybody else's comings and goings.        *)
SeatsAreForever ==
  [][\A w \in World : \A u \in User :
       Member(w, u) => agent'[w][u] = agent[w][u]]_memberVars
=============================================================================
