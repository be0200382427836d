--------------------------- MODULE SpaceDirectory ---------------------------
(***************************************************************************)
(* What the spaces of a tenant promise, without statements and races: a    *)
(* directory from slugs to spaces.  A create makes the space of a slug or  *)
(* is told that there is one; an ensure makes it or is given it.  Either   *)
(* happens at once.                                                        *)
(***************************************************************************)
CONSTANTS
  Slugs,     (* slugs of the tenant                                        *)
  Ids,       (* spaces                                                     *)
  NoSpace,   (* what a slug without a space stands for                     *)
  Conflict   (* the answer that there is a space already                   *)

VARIABLES
  space,     (* space[g]: the space of the slug                            *)
  answers    (* what creates and ensures have been told                    *)

vars == <<space, answers>>

Init == space = [g \in Slugs |-> NoSpace] /\ answers = {}

Tell(does, g, answer) ==
  answers' = answers \cup {[does |-> does, slug |-> g, answer |-> answer]}

(* A create, or an ensure, makes the space: one that is no other slug's.   *)
Make(does, g) ==
  /\ space[g] = NoSpace
  /\ \E id \in Ids \ {space[h] : h \in Slugs} :
       space' = [space EXCEPT ![g] = id] /\ Tell(does, g, id)

Refuse(g) == space[g] # NoSpace /\ Tell("create", g, Conflict) /\ UNCHANGED space

Give(g) == space[g] # NoSpace /\ Tell("ensure", g, space[g]) /\ UNCHANGED space

Next ==
  \E g \in Slugs : Refuse(g) \/ Give(g) \/ \E does \in {"create", "ensure"} : Make(does, g)

Spec == Init /\ [][Next]_vars
=============================================================================
