------------------------------ MODULE Library ------------------------------
(***************************************************************************)
(* Worlds as installed from scenario files and exported to them            *)
(* (scenario.rs, the import and export commands of main.rs), and the       *)
(* handles by which characters are named to the model (store.rs).  Members *)
(* come and go (Membership) and take items (Play) meanwhile: an export is  *)
(* another process on the same database and reads it in several steps.     *)
(*                                                                         *)
(* A file keeps its references; prose, sheets and notes are left out.      *)
(***************************************************************************)
EXTENDS Membership, Integers, Sequences

CONSTANTS
  Name,          \* what files call locations, types and spells
  Scenario,      \* the files to install
  Base           \* characters get handles of the fewest digits to this base (10)

ASSUME LibraryAssumption == Base \in Nat \ {0, 1}

ASSUME ScenarioAssumption ==
  Scenario \subseteq
    [locations : Seq(Name), start : Name, npcs : Seq(Name),
     paths : Seq([from : Name, to : Name, time : Int]),
     types : Seq(Name), spells : Seq(Name), items : Seq([type : Name, at : Name])]

VARIABLES
  file,          \* per world the file it was installed from
  rows,          \* per world its rows: references are positions in the tables
  held,          \* per world the items in item_character, not in item_location
  handles,       \* character.tool_id
  characters,    \* rows of character
  export         \* the running or last export

libraryVars == <<file, rows, held, handles, characters, export>>
vars        == <<memberVars, libraryVars>>

NoWorld  == [locations |-> <<>>]
Idle     == [stage |-> "none"]
Exists(w) == owner[w] # Nobody

-----------------------------------------------------------------------------
(* Scenario::validate *)
Names(list)  == {list[k] : k \in DOMAIN list}
Unique(list) == Cardinality(Names(list)) = Len(list)

LocationsResolve(s) ==
  /\ Unique(s.locations)
  /\ s.start \in Names(s.locations)
  /\ \A n \in DOMAIN s.npcs : s.npcs[n] \in Names(s.locations)

PathsResolve(s) ==
  \A p \in Names(s.paths) :
    /\ {p.from, p.to} \subseteq Names(s.locations)
    /\ p.from # p.to
    /\ p.time >= 0

ItemsResolve(s) ==
  /\ Unique(s.types) /\ Unique(s.spells)
  /\ \A i \in Names(s.items) : i.type \in Names(s.types) /\ i.at \in Names(s.locations)

ValidButItems(s) == LocationsResolve(s) /\ PathsResolve(s)   \* faulty: items unchecked
Validate(s)      == LocationsResolve(s) /\ PathsResolve(s) /\ ItemsResolve(s)

(* The row a name stands for: a HashMap keeps the last one inserted.  With *)
(* none the lookup panics, which no row is.                                *)
Row(list, name) ==
  LET found == {k \in DOMAIN list : list[k] = name}
  IN IF found = {} THEN 0 ELSE CHOOSE k \in found : \A j \in found : j <= k

Install(s) ==
  [locations |-> s.locations, types |-> s.types, spells |-> s.spells,
   start |-> Row(s.locations, s.start),
   npcs  |-> [n \in DOMAIN s.npcs |-> Row(s.locations, s.npcs[n])],
   paths |-> [p \in DOMAIN s.paths |->
     [from |-> Row(s.locations, s.paths[p].from), to |-> Row(s.locations, s.paths[p].to),
      time |-> s.paths[p].time]],
   items |-> [i \in DOMAIN s.items |->
     [type |-> Row(s.types, s.items[i].type), at |-> Row(s.locations, s.items[i].at)]]]

(* export_scenario joins the rows back to names; an item that is held has  *)
(* no row of item_location to join.                                        *)
ExportOf(r, away) ==
  LET placed == {i \in DOMAIN r.items : i \notin away}
      nth(k) == CHOOSE i \in placed : Cardinality({j \in placed : j <= i}) = k
  IN [locations |-> r.locations, types |-> r.types, spells |-> r.spells,
      start |-> r.locations[r.start],
      npcs  |-> [n \in DOMAIN r.npcs |-> r.locations[r.npcs[n]]],
      paths |-> [p \in DOMAIN r.paths |->
        [from |-> r.locations[r.paths[p].from], to |-> r.locations[r.paths[p].to],
         time |-> r.paths[p].time]],
      items |-> [k \in 1..Cardinality(placed) |->
        [type |-> r.types[r.items[nth(k)].type], at |-> r.locations[r.items[nth(k)].at]]]]

-----------------------------------------------------------------------------
(* next_character_tool_id: any free handle of the fewest digits that has   *)
(* one; ten is the first, and each range begins where the last one ended.  *)
Lower[k \in Nat] == IF k = 0 THEN 1 ELSE Base * Lower[k - 1]
HandleRange(k)   == Lower[k] .. (Lower[k + 1] - 1)
Full(used, k)    == HandleRange(k) \subseteq used

AnyDigits(used) == (Lower[1] .. Lower[Cardinality(used) + 2]) \ used  \* faulty: not the shortest
FreeHandles(used) ==
  LET k == CHOOSE k \in 1..(Cardinality(used) + 1) :
             ~Full(used, k) /\ \A j \in 1..(k - 1) : Full(used, j)
  IN HandleRange(k) \ used

(* insert_character, for n characters of one transaction. *)
Draws(n) ==
  LET after[k \in 0..n] ==
        IF k = 0 THEN {handles}
        ELSE UNION {{used \cup {h} : h \in FreeHandles(used)} : used \in after[k - 1]}
  IN after[n]

InsertCharacters(n) ==
  /\ handles' \in Draws(n)
  /\ characters' = characters + n

-----------------------------------------------------------------------------
LibraryInit ==
  /\ file = [w \in World |-> NoWorld] /\ rows = [w \in World |-> NoWorld]
  /\ held = [w \in World |-> {}]
  /\ handles = {} /\ characters = 0
  /\ export = Idle

Init == MembershipInit /\ LibraryInit

(* import_scenario and create_bread_thief_world: one transaction makes the *)
(* world, its rows, its NPCs and the owner's Adventurer; an invalid file   *)
(* is refused before it.                                                   *)
ImportScenario(u, w, s) ==
  /\ Validate(s)
  /\ InstallScenario(u, w)
  /\ file' = [file EXCEPT ![w] = s] /\ rows' = [rows EXCEPT ![w] = Install(s)]
  /\ InsertCharacters(Len(s.npcs) + 1)
  /\ UNCHANGED <<held, export>>

(* accept_invitation, of a newcomer or of somebody who returns. *)
Accept(u, t) ==
  /\ AcceptInvitation(u, t)
  /\ InsertCharacters(agents' - agents)
  /\ UNCHANGED <<file, rows, held, export>>

OwnerActs ==
  /\ \E u \in User, t \in Invite, w \in World :
       \/ \E limit \in Limit : CreateInvitation(u, t, w, limit)
       \/ RevokeInvitation(u, t, w)
       \/ \E v \in User : RemoveMember(u, v, w)
  /\ UNCHANGED libraryVars

(* An approved take, by the world's task. *)
TakeItem(w, i) ==
  /\ i \in DOMAIN rows[w].items \ held[w]
  /\ held' = [held EXCEPT ![w] = @ \cup {i}]
  /\ export' = IF export.stage = "checked" /\ export.world = w
               THEN [export EXCEPT !.torn = TRUE] ELSE export
  /\ UNCHANGED <<memberVars, file, rows, handles, characters>>

(* export_scenario counts the held items, *)
AnyExport(w)  == Exists(w)                     \* faulty: held items are left out
MayExport(w)  == Exists(w) /\ held[w] = {}

BeginExport(w) ==
  /\ export.stage # "checked"
  /\ MayExport(w)
  /\ export' = [stage |-> "checked", world |-> w, torn |-> FALSE]
  /\ UNCHANGED <<memberVars, file, rows, held, handles, characters>>

(* and reads the tables after that: of all it reads only the places of the *)
(* items can have changed.                                                 *)
FinishExport ==
  /\ export.stage = "checked"
  /\ export' = [stage |-> "written", world |-> export.world, torn |-> export.torn,
                file |-> ExportOf(rows[export.world], held[export.world])]
  /\ UNCHANGED <<memberVars, file, rows, held, handles, characters>>

Next ==
  \/ \E u \in User, w \in World, s \in Scenario : ImportScenario(u, w, s)
  \/ \E u \in User, t \in Invite : Accept(u, t)
  \/ OwnerActs
  \/ \E w \in World : Exists(w) /\ \E i \in DOMAIN rows[w].items : TakeItem(w, i)
  \/ \E w \in World : BeginExport(w)
  \/ FinishExport

Spec == Init /\ [][Next]_vars

-----------------------------------------------------------------------------
(* Handles are numbers, one character has one, and an export is of a world. *)
TypeOK ==
  /\ MembershipTypeOK
  /\ \A w \in World : held[w] # {} => Exists(w) /\ held[w] \subseteq DOMAIN rows[w].items
  /\ handles \subseteq Nat /\ characters \in Nat
  /\ export.stage # "none" => export.world \in World /\ Exists(export.world)

(* Every reference of an installed world stands for a row of that world:   *)
(* no lookup of the installation or of an export can miss, whatever file   *)
(* was offered, and no path leads nowhere.                                 *)
GraphsAreWhole ==
  \A w \in World : Exists(w) =>
    LET r == rows[w]
        places == DOMAIN r.locations
    IN /\ r.start \in places
       /\ \A n \in DOMAIN r.npcs : r.npcs[n] \in places
       /\ \A p \in DOMAIN r.paths :
            {r.paths[p].from, r.paths[p].to} \subseteq places /\ r.paths[p].from # r.paths[p].to
       /\ \A i \in DOMAIN r.items : r.items[i].at \in places /\ r.items[i].type \in DOMAIN r.types

(* What is exported is the file the world came from, reference for         *)
(* reference, unless an item was taken between the check and the reading;  *)
(* even then it is a file that can be installed.                           *)
ExportsAreWhole ==
  export.stage = "written" =>
    /\ Validate(export.file)
    /\ ~export.torn => export.file = file[export.world]

(* No two characters of any worlds share a handle, and none has more       *)
(* digits than it takes: a handle of k digits only once all shorter ones   *)
(* are in use.                                                             *)
HandlesAreShort ==
  /\ Cardinality(handles) = characters
  /\ \A h \in handles, k \in 1..characters : h >= Lower[k + 1] => Full(handles, k)
=============================================================================
