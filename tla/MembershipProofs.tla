-------------------------- MODULE MembershipProofs --------------------------
(***************************************************************************)
(* Theorems about Membership, for any number of worlds, users, tokens and  *)
(* limits.  MembershipInvariance is stated for a step, so that it can be   *)
(* used for the modules in which a step of Membership is one among others. *)
(***************************************************************************)
EXTENDS Membership, FiniteSetTheorems, TLAPS

(* Who joined by a token is a member of the world it is for. *)
JoinedAreMembers ==
  \A t \in Invite : \A u \in joined[t] :
    invitation[t] # NoInvitation /\ Member(invitation[t].world, u)

(* Nobody is a member of a world that does not exist, nor invited to it. *)
NobodyBeforeOwner ==
  /\ \A w \in World : owner[w] = Nobody => \A u \in User : ~Member(w, u)
  /\ \A t \in Invite : invitation[t] # NoInvitation => owner[invitation[t].world] # Nobody

MembershipInv ==
  /\ MembershipTypeOK
  /\ SlotsAreSeats
  /\ OwnersStay
  /\ JoinedAreMembers
  /\ NobodyBeforeOwner

(* An issued token is for one of the worlds. *)
LEMMA IssuedFacts ==
  ASSUME MembershipTypeOK, NEW t \in Invite, invitation[t] # NoInvitation
  PROVE  /\ invitation[t].state \in {"live", "revoked"}
         /\ invitation[t].world \in World
         /\ invitation[t].max \in Nat
         /\ invitation[t].uses \in Nat
BY DEF MembershipTypeOK, Invitation

LEMMA LiveIsIssued ==
  ASSUME MembershipTypeOK, NEW t \in Invite, Live(t)
  PROVE  invitation[t] # NoInvitation
BY DEF MembershipTypeOK, Live, NoInvitation

(* Whoever joins gets a fresh agent and access, and nobody else is touched. *)
LEMMA JoinFacts ==
  ASSUME MembershipTypeOK, NEW w \in World, NEW u \in User, JoinWorld(w, u)
  PROVE  /\ agents' \in Nat
         /\ agent' \in [World -> [User -> Nat]]
         /\ active' \in [World -> SUBSET User]
         /\ agent'[w][u] # 0
         /\ u \in active'[w]
         /\ \A x \in World, v \in User : x # w \/ v # u => agent'[x][v] = agent[x][v]
         /\ \A x \in World : x # w => active'[x] = active[x]
         /\ \A x \in World : active[x] \subseteq active'[x]
BY DEF MembershipTypeOK, JoinWorld

LEMMA MembershipStarts == MembershipInit => MembershipInv
<1> SUFFICES ASSUME MembershipInit PROVE MembershipInv
  OBVIOUS
<1> USE DEF MembershipInit
<1>1. MembershipTypeOK
  BY DEF MembershipTypeOK, Invitation, NoInvitation
<1>2. SlotsAreSeats /\ OwnersStay
  BY MembershipAssumption DEF SlotsAreSeats, OwnersStay
<1>3. JoinedAreMembers
  BY DEF JoinedAreMembers
<1>4. NobodyBeforeOwner
  BY DEF NobodyBeforeOwner, Member
<1> QED BY <1>1, <1>2, <1>3, <1>4 DEF MembershipInv

LEMMA InstallKeeps ==
  ASSUME MembershipInv, NEW u \in User, NEW w \in World, InstallScenario(u, w)
  PROVE  MembershipInv'
<1> USE DEF MembershipInv, InstallScenario
<1>j. /\ agents' \in Nat
      /\ agent' \in [World -> [User -> Nat]]
      /\ active' \in [World -> SUBSET User]
      /\ agent'[w][u] # 0
      /\ u \in active'[w]
      /\ \A x \in World, v \in User : x # w \/ v # u => agent'[x][v] = agent[x][v]
      /\ \A x \in World : x # w => active'[x] = active[x]
  BY JoinFacts
<1>o. owner' = [owner EXCEPT ![w] = u] /\ owner \in [World -> User \cup {Nobody}] /\ u # Nobody
  BY MembershipAssumption DEF MembershipTypeOK
<1>1. MembershipTypeOK'
  BY <1>j, <1>o DEF MembershipTypeOK
<1>2. SlotsAreSeats'
  BY DEF SlotsAreSeats
<1>3. OwnersStay'
  BY <1>j, <1>o DEF OwnersStay, Member, MembershipTypeOK
<1>4. JoinedAreMembers'
  <2> SUFFICES ASSUME NEW t \in Invite, NEW v \in joined[t]
               PROVE  invitation[t] # NoInvitation /\ agent'[invitation[t].world][v] # 0
    BY DEF JoinedAreMembers, Member
  <2>1. invitation[t] # NoInvitation /\ agent[invitation[t].world][v] # 0 /\ v \in User
    BY DEF JoinedAreMembers, Member, MembershipTypeOK
  <2>2. invitation[t].world \in World
    BY <2>1, IssuedFacts
  <2> QED BY <2>1, <2>2, <1>j
<1>5. NobodyBeforeOwner'
  <2>1. \A t \in Invite : invitation[t] # NoInvitation => owner'[invitation[t].world] # Nobody
    BY <1>o, IssuedFacts DEF NobodyBeforeOwner
  <2>2. \A x \in World : owner'[x] = Nobody => \A v \in User : agent'[x][v] = 0
    BY <1>j, <1>o DEF NobodyBeforeOwner, Member
  <2> QED BY <2>1, <2>2 DEF NobodyBeforeOwner, Member
<1> QED BY <1>1, <1>2, <1>3, <1>4, <1>5

LEMMA InviteKeeps ==
  ASSUME MembershipInv, NEW u \in User, NEW t \in Invite, NEW w \in World, NEW limit \in Limit,
         CreateInvitation(u, t, w, limit)
  PROVE  MembershipInv'
<1> USE DEF MembershipInv, CreateInvitation
<1> DEFINE new == [state |-> "live", world |-> w, max |-> limit, uses |-> 0]
<1>n. new \in Invitation /\ new # NoInvitation
  BY MembershipAssumption DEF Invitation, NoInvitation
<1>i. /\ invitation'[t] = new
      /\ \A s \in Invite : s # t => invitation'[s] = invitation[s]
      /\ invitation' \in [Invite -> Invitation]
  BY <1>n DEF MembershipTypeOK
<1>e. joined[t] = {}
  BY DEF JoinedAreMembers
<1>1. MembershipTypeOK'
  BY <1>i DEF MembershipTypeOK
<1>2. SlotsAreSeats'
  <2> SUFFICES ASSUME NEW s \in Invite, invitation'[s] # NoInvitation
               PROVE  /\ invitation'[s].uses = Cardinality(joined[s])
                      /\ invitation'[s].max # NoLimit => invitation'[s].uses <= invitation'[s].max
    BY DEF SlotsAreSeats
  <2>1. CASE s = t
    BY <2>1, <1>i, <1>e, FS_EmptySet, MembershipAssumption
  <2>2. CASE s # t
    BY <2>2, <1>i DEF SlotsAreSeats
  <2> QED BY <2>1, <2>2
<1>3. OwnersStay'
  BY DEF OwnersStay, Member
<1>4. JoinedAreMembers'
  BY <1>i, <1>e DEF JoinedAreMembers, Member
<1>5. NobodyBeforeOwner'
  <2>1. owner[w] # Nobody
    BY MembershipAssumption DEF Owns
  <2> QED BY <2>1, <1>i DEF NobodyBeforeOwner, Member
<1> HIDE DEF new
<1> QED BY <1>1, <1>2, <1>3, <1>4, <1>5

LEMMA RevokeKeeps ==
  ASSUME MembershipInv, NEW u \in User, NEW t \in Invite, NEW w \in World,
         RevokeInvitation(u, t, w)
  PROVE  MembershipInv'
<1> USE DEF MembershipInv, RevokeInvitation
<1>l. invitation[t] # NoInvitation
  BY LiveIsIssued
<1>t. invitation'[t] = [invitation[t] EXCEPT !.state = "revoked"]
  BY DEF MembershipTypeOK
<1>i. /\ invitation'[t] \in Invitation /\ invitation'[t] # NoInvitation
      /\ invitation'[t].world = invitation[t].world
      /\ invitation'[t].max = invitation[t].max
      /\ invitation'[t].uses = invitation[t].uses
  BY <1>l, <1>t DEF MembershipTypeOK, Invitation, NoInvitation
<1>k. \A s \in Invite : s # t => invitation'[s] = invitation[s]
  BY DEF MembershipTypeOK
<1>1. MembershipTypeOK'
  BY <1>i, <1>k DEF MembershipTypeOK
<1>2. SlotsAreSeats'
  BY <1>l, <1>i, <1>k DEF SlotsAreSeats
<1>3. OwnersStay'
  BY DEF OwnersStay, Member
<1>4. JoinedAreMembers'
  BY <1>l, <1>i, <1>k DEF JoinedAreMembers, Member
<1>5. NobodyBeforeOwner'
  BY <1>l, <1>i, <1>k DEF NobodyBeforeOwner, Member
<1> QED BY <1>1, <1>2, <1>3, <1>4, <1>5

LEMMA RemoveKeeps ==
  ASSUME MembershipInv, NEW u \in User, NEW v \in User, NEW w \in World, RemoveMember(u, v, w)
  PROVE  MembershipInv'
<1> USE DEF MembershipInv, RemoveMember
<1>1. MembershipTypeOK'
  BY DEF MembershipTypeOK
<1>2. SlotsAreSeats'
  BY DEF SlotsAreSeats
<1>3. OwnersStay'
  BY DEF OwnersStay, Member, Owns, MembershipTypeOK
<1>4. JoinedAreMembers'
  BY DEF JoinedAreMembers, Member
<1>5. NobodyBeforeOwner'
  BY DEF NobodyBeforeOwner, Member
<1> QED BY <1>1, <1>2, <1>3, <1>4, <1>5

(* A new member takes one slot; a returning one takes none. *)
LEMMA AcceptKeeps ==
  ASSUME MembershipInv, NEW u \in User, NEW t \in Invite, AcceptInvitation(u, t)
  PROVE  MembershipInv'
<1> DEFINE w == invitation[t].world
<1> USE DEF MembershipInv
<1>l. Live(t) /\ invitation[t] # NoInvitation
  BY LiveIsIssued DEF AcceptInvitation
<1>w. /\ w \in World /\ invitation[t].uses \in Nat /\ invitation[t].max \in Nat
      /\ owner[w] # Nobody
  BY <1>l, IssuedFacts DEF NobodyBeforeOwner
<1>1. CASE /\ active' = [active EXCEPT ![w] = @ \cup {u}]
           /\ UNCHANGED <<owner, agent, invitation, agents, joined>>
  <2>1. MembershipTypeOK'
    BY <1>1 DEF MembershipTypeOK
  <2>2. SlotsAreSeats'
    BY <1>1 DEF SlotsAreSeats
  <2>3. OwnersStay'
    BY <1>1, <1>w DEF OwnersStay, Member, MembershipTypeOK
  <2>4. JoinedAreMembers'
    BY <1>1 DEF JoinedAreMembers, Member
  <2>5. NobodyBeforeOwner'
    BY <1>1 DEF NobodyBeforeOwner, Member
  <2> QED BY <2>1, <2>2, <2>3, <2>4, <2>5
<1>2. CASE /\ ~Existing(w, u)
           /\ UnlimitedOrFree(invitation[t])
           /\ invitation' = [invitation EXCEPT ![t].uses = @ + 1]
           /\ joined' = [joined EXCEPT ![t] = @ \cup {u}]
           /\ JoinWorld(w, u)
           /\ UNCHANGED owner
  <2> HIDE DEF w
  <2>j. /\ agents' \in Nat
        /\ agent' \in [World -> [User -> Nat]]
        /\ active' \in [World -> SUBSET User]
        /\ agent'[w][u] # 0
        /\ u \in active'[w]
        /\ \A x \in World, v \in User : x # w \/ v # u => agent'[x][v] = agent[x][v]
        /\ \A x \in World : x # w => active'[x] = active[x]
        /\ \A x \in World : active[x] \subseteq active'[x]
    BY <1>2, <1>w, JoinFacts
  <2>t. invitation'[t] = [invitation[t] EXCEPT !.uses = @ + 1]
    BY <1>2 DEF MembershipTypeOK
  <2>i. /\ invitation'[t] \in Invitation /\ invitation'[t] # NoInvitation
        /\ invitation'[t].world = w
        /\ invitation'[t].max = invitation[t].max
        /\ invitation'[t].uses = invitation[t].uses + 1
    BY <1>l, <1>w, <2>t DEF MembershipTypeOK, Invitation, NoInvitation, w
  <2>k. /\ \A s \in Invite : s # t => invitation'[s] = invitation[s] /\ joined'[s] = joined[s]
        /\ joined'[t] = joined[t] \cup {u}
    BY <1>2 DEF MembershipTypeOK
  <2>1. MembershipTypeOK'
    BY <1>2, <2>j, <2>i, <2>k DEF MembershipTypeOK
  <2>2. SlotsAreSeats'
    <3>1. u \notin joined[t]
      BY <1>2 DEF JoinedAreMembers, Existing, w
    <3>2. IsFiniteSet(joined[t])
      BY MembershipAssumption, FS_Subset DEF MembershipTypeOK
    <3>3. Cardinality(joined'[t]) = Cardinality(joined[t]) + 1
      BY <3>1, <3>2, <2>k, FS_AddElement
    <3>4. invitation[t].uses = Cardinality(joined[t])
      BY <1>l DEF SlotsAreSeats
    <3>5. invitation'[t].max # NoLimit => invitation'[t].uses <= invitation'[t].max
      BY <1>2, <1>w, <2>i DEF UnlimitedOrFree
    <3>6. \A s \in Invite : s # t /\ invitation'[s] # NoInvitation =>
            /\ invitation'[s].uses = Cardinality(joined'[s])
            /\ invitation'[s].max # NoLimit => invitation'[s].uses <= invitation'[s].max
      BY <2>k DEF SlotsAreSeats
    <3> QED BY <3>3, <3>4, <3>5, <3>6, <2>i DEF SlotsAreSeats
  <2>3. OwnersStay'
    BY <1>2, <1>w, <2>j DEF OwnersStay, Member, MembershipTypeOK
  <2>4. JoinedAreMembers'
    <3> SUFFICES ASSUME NEW s \in Invite, NEW v \in joined'[s]
                 PROVE  invitation'[s] # NoInvitation /\ agent'[invitation'[s].world][v] # 0
      BY DEF JoinedAreMembers, Member
    <3>1. v \in User
      BY <2>1 DEF MembershipTypeOK
    <3>2. CASE s = t /\ v = u
      BY <3>2, <2>i, <2>j
    <3>3. CASE v \in joined[s]
      <4>1. invitation[s] # NoInvitation /\ agent[invitation[s].world][v] # 0
        BY <3>3 DEF JoinedAreMembers, Member
      <4>2. invitation'[s] # NoInvitation /\ invitation'[s].world = invitation[s].world
        BY <4>1, <2>i, <2>k DEF w
      <4>3. invitation[s].world \in World
        BY <4>1, IssuedFacts
      <4> QED BY <4>1, <4>2, <4>3, <3>1, <2>j
    <3> QED BY <3>2, <3>3, <2>k
  <2>5. NobodyBeforeOwner'
    <3>1. \A s \in Invite : invitation'[s] # NoInvitation => owner[invitation'[s].world] # Nobody
      BY <1>w, <2>i, <2>k DEF NobodyBeforeOwner
    <3>2. \A x \in World : owner[x] = Nobody => \A v \in User : agent'[x][v] = 0
      BY <1>w, <2>j DEF NobodyBeforeOwner, Member
    <3> QED BY <1>2, <3>1, <3>2 DEF NobodyBeforeOwner, Member
  <2> QED BY <2>1, <2>2, <2>3, <2>4, <2>5
<1> QED BY <1>1, <1>2 DEF AcceptInvitation

LEMMA MembershipInvariance ==
  ASSUME MembershipInv, [MembershipStep]_memberVars
  PROVE  MembershipInv'
<1>1. CASE UNCHANGED memberVars
  BY <1>1 DEF memberVars, MembershipInv, MembershipTypeOK, SlotsAreSeats, OwnersStay,
     JoinedAreMembers, NobodyBeforeOwner, Member
<1>2. CASE MembershipStep
  BY <1>2, InstallKeeps, InviteKeeps, RevokeKeeps, RemoveKeeps, AcceptKeeps DEF MembershipStep
<1> QED BY <1>1, <1>2

(* A member keeps the agent through every step. *)
LEMMA SeatKept ==
  ASSUME MembershipInv, [MembershipStep]_memberVars, NEW w \in World, NEW u \in User, Member(w, u)
  PROVE  agent'[w][u] = agent[w][u]
<1> USE DEF MembershipInv
<1>1. CASE \E x \in User, y \in World : InstallScenario(x, y)
  <2>1. PICK x \in User, y \in World : InstallScenario(x, y)
    BY <1>1
  <2>2. y # w
    BY <2>1 DEF InstallScenario, NobodyBeforeOwner
  <2> QED BY <2>1, <2>2, JoinFacts DEF InstallScenario
<1>2. CASE \E x \in User, t \in Invite : AcceptInvitation(x, t)
  <2>1. PICK x \in User, t \in Invite : AcceptInvitation(x, t)
    BY <1>2
  <2>2. invitation[t].world \in World
    BY <2>1, LiveIsIssued, IssuedFacts DEF AcceptInvitation
  <2>3. CASE UNCHANGED agent
    BY <2>3
  <2>4. CASE ~Existing(invitation[t].world, x) /\ JoinWorld(invitation[t].world, x)
    BY <2>2, <2>4, JoinFacts DEF Existing
  <2> QED BY <2>1, <2>3, <2>4 DEF AcceptInvitation
<1>3. CASE UNCHANGED agent
  BY <1>3
<1> QED BY <1>1, <1>2, <1>3 DEF MembershipStep, memberVars, CreateInvitation, RevokeInvitation,
     RemoveMember

-----------------------------------------------------------------------------
(* Whatever users do in whatever order, the invariant holds: accept,       *)
(* remove, re-invite and revoke (store.rs) leave seats, slots and owners   *)
(* in step.                                                                *)
THEOREM MembershipHolds == MembershipSpec => []MembershipInv
BY MembershipStarts, MembershipInvariance, PTL DEF MembershipSpec
=============================================================================
