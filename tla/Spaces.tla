------------------------------- MODULE Spaces -------------------------------
(***************************************************************************)
(* The spaces of a tenant (chatv3-dm, service.space.ts): anybody may       *)
(* create one, or ensure that there is one under a slug, which clients do  *)
(* on every start with a fixed slug.  Look-up and insert are statements of *)
(* their own; the unique index on (tenant, slug) decides races.  No        *)
(* operation deletes a space.                                              *)
(***************************************************************************)
EXTENDS Naturals, FiniteSets

CONSTANTS
  Slugs,       (* slugs of the tenant                                      *)
  MaxAsks      (* bound: requests, each may insert the space of its number *)

ASSUME AsksAssumption == MaxAsks \in Nat

Ids      == 1..MaxAsks
NoSpace  == 0            (* no row                                         *)
Conflict == 0            (* the answer that there is a space already       *)

VARIABLES
  space,     (* space[g]: the id of the row with the slug                  *)
  archived,  (* ids of archived spaces                                     *)
  asks,      (* requests so far: [id, does, slug, step], the id for a row  *)
  answers    (* [does, slug, answer]                                       *)

spaceVars == <<space, archived, asks, answers>>

SpacesInit ==
  /\ space = [g \in Slugs |-> NoSpace]
  /\ archived = {} /\ asks = {} /\ answers = {}

-----------------------------------------------------------------------------
(* A request arrives: an ensure looks for the slug first.                  *)
Ask(does, g) ==
  /\ Cardinality(asks) < MaxAsks
  /\ asks' = asks \cup
       {[id |-> Cardinality(asks) + 1, does |-> does, slug |-> g,
         step |-> IF does = "ensure" THEN "find" ELSE "insert"]}
  /\ UNCHANGED <<space, archived, answers>>

Goto(x, step) == asks' = (asks \ {x}) \cup {[x EXCEPT !.step = step]}

Reply(x, answer) ==
  /\ Goto(x, "done")
  /\ answers' = answers \cup {[does |-> x.does, slug |-> x.slug, answer |-> answer]}

Find(x) ==
  /\ x.step = "find"
  /\ IF space[x.slug] # NoSpace THEN Reply(x, space[x.slug])
     ELSE Goto(x, "insert") /\ UNCHANGED answers
  /\ UNCHANGED <<space, archived>>

(* The conflict of an ensure is answered (a variant of Collide).           *)
Collide_Surfaces(x) == Reply(x, Conflict)

(* The unique index refuses the insert: a create answers conflict, an      *)
(* ensure looks for the winner.                                            *)
Collide(x) ==
  IF x.does = "ensure" THEN Goto(x, "winner") /\ UNCHANGED answers ELSE Reply(x, Conflict)

(* Without the unique index there is a second row, and look-ups find that  *)
(* one (a variant of Insert).                                              *)
Insert_NoIndex(x) ==
  /\ x.step = "insert"
  /\ space' = [space EXCEPT ![x.slug] = x.id] /\ Reply(x, x.id)
  /\ UNCHANGED archived

(* The insert, which the unique index allows only for a new slug.          *)
Insert(x) ==
  /\ x.step = "insert"
  /\ IF space[x.slug] = NoSpace
     THEN space' = [space EXCEPT ![x.slug] = x.id] /\ Reply(x, x.id)
     ELSE Collide(x) /\ UNCHANGED space
  /\ UNCHANGED archived

(* Without a winner the conflict would be answered after all.              *)
FindWinner(x) ==
  /\ x.step = "winner"
  /\ Reply(x, IF space[x.slug] # NoSpace THEN space[x.slug] ELSE Conflict)
  /\ UNCHANGED <<space, archived>>

(* A statement fails: the request ends with an error.                      *)
Break(x) ==
  /\ x.step # "done" /\ Goto(x, "done")
  /\ UNCHANGED <<space, archived, answers>>

(* An administrator archives a space; its row and slug stay.               *)
ArchiveSpace(g) ==
  /\ space[g] # NoSpace
  /\ archived' = archived \cup {space[g]}
  /\ UNCHANGED <<space, asks, answers>>

SpacesNext ==
  \/ \E does \in {"create", "ensure"}, g \in Slugs : Ask(does, g)
  \/ \E x \in asks : Find(x) \/ Insert(x) \/ FindWinner(x) \/ Break(x)
  \/ \E g \in Slugs : ArchiveSpace(g)

-----------------------------------------------------------------------------
(* The variables have their types.                                         *)
SpacesTypeOK ==
  /\ space \in [Slugs -> Ids \cup {NoSpace}] /\ archived \subseteq Ids
  /\ asks \subseteq [id : Ids, does : {"create", "ensure"}, slug : Slugs,
                     step : {"find", "insert", "winner", "done"}]
  /\ answers \subseteq [does : {"create", "ensure"}, slug : Slugs, answer : Ids \cup {Conflict}]

(* However ensures and creates of one slug overlap, all that answer with a *)
(* space answer with the same one, the one the slug stands for, archived   *)
(* or not; an ensure never answers with the conflict of a lost race, and a *)
(* create does only if there is a space.                                   *)
EnsureFindsTheSpace ==
  \A x \in answers :
    /\ x.answer = space[x.slug] \/ (x.does = "create" /\ x.answer = Conflict)
    /\ space[x.slug] # NoSpace

(* The statements of creates and ensures implement a directory in which    *)
(* each happens at once: the look-ups before and after a refused insert    *)
(* make no difference that anybody could be told.                          *)
Directory == INSTANCE SpaceDirectory

DirectorySpec == Directory!Spec
=============================================================================
