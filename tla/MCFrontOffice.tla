--------------------------- MODULE MCFrontOffice ---------------------------
(***************************************************************************)
(* What organisers set up and what they and the visitors are shown: rules, *)
(* form builder, event page, figures, the console's server actions and the *)
(* demo script, on small instances.  They share no state here, so a        *)
(* behaviour of this module is a behaviour of one of them, named by part;  *)
(* the others stay as they were.                                           *)
(***************************************************************************)
EXTENDS MCRulesEngine, FormBuilder, EventPage, Dashboard, Console, Seed, TLC

CONSTANT MaxRequest     \* bound on the edits of a behaviour that save

VARIABLES
    part,       \* the component that this behaviour is about
    begun       \* the edits that have started

frontVars ==
    <<vars, formVars, pageVars, dashboardVars, consoleVars, seedVars, part,
      begun>>

MCAsked == {list \in SeqOf(FieldId, Cardinality(FieldId)) :
                Len(list) = Cardinality(FieldId) /\ IsInjective(list)}

\* Nothing ticked, and two sections in another order than any template's.
MCTicked == {{}, {"register", "faq", "about"}}

MCRecoloured == {{}, {"accent"}}

Editing ==
    CASE part = "form" -> Cardinality({a \in Author : ~Unoccupied(a)})
      [] part = "page" ->
            Cardinality({o \in Organizer : organizer[o] # Design!Idle})
      [] OTHER -> 0

FrontOfficeInit ==
    /\ part \in {"rules", "form", "page", "dashboard", "console", "seed"}
    /\ begun = 0
    /\ Init
    /\ part # "rules" => /\ rules = <<>>
                         /\ answers = CHOOSE a \in Answers : TRUE
    /\ FormInit /\ PageInit /\ DashboardInit /\ ConsoleInit /\ SeedInit

FrontOfficeNext ==
    /\ UNCHANGED part
    /\ \/ /\ part = "rules" /\ Next
          /\ UNCHANGED <<formVars, pageVars, dashboardVars, consoleVars,
                         seedVars>>
       \/ /\ part = "form" /\ FormNext
          /\ UNCHANGED <<vars, pageVars, dashboardVars, consoleVars, seedVars>>
       \/ /\ part = "page" /\ PageNext
          /\ UNCHANGED <<vars, formVars, dashboardVars, consoleVars, seedVars>>
       \/ /\ part = "dashboard" /\ DashboardNext
          /\ UNCHANGED <<vars, formVars, pageVars, consoleVars, seedVars>>
       \/ /\ part = "console" /\ ConsoleNext
          /\ UNCHANGED <<vars, formVars, pageVars, dashboardVars, seedVars>>
       \/ /\ part = "seed" /\ SeedNext
          /\ UNCHANGED <<vars, formVars, pageVars, dashboardVars, consoleVars>>
    /\ begun' = IF Editing' > Editing THEN begun + 1 ELSE begun
    /\ begun' <= MaxRequest

FrontOfficeSpec == FrontOfficeInit /\ [][FrontOfficeNext]_frontVars

\* No definition orders keys or slots.  The configuration gives fields and
\* registrations the same keys, and both editors the same slots.
Symmetry == Permutations(FieldId) \cup Permutations(Author)

-----------------------------------------------------------------------------
(* Properties                                                              *)

\* The results of the rules, the form, the page, the figures, the session, the
\* clicks and what the demo script leaves keep their types.
FrontOfficeTypeOK ==
    CASE part = "rules" -> TypeOK
      [] part = "form" -> FormTypeOK
      [] part = "page" -> PageTypeOK
      [] part = "dashboard" -> DashboardTypeOK
      [] part = "console" -> ConsoleTypeOK
      [] part = "seed" -> SeedTypeOK

=============================================================================
