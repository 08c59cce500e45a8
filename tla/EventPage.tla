----------------------------- MODULE EventPage -----------------------------
(***************************************************************************)
(* The public page of an event: organisers pick a template, customise the  *)
(* page and publish the event, visitors look at it.  Every edit is a       *)
(* PUT /events/:id or a change of status, hence a save of the whole entity *)
(* (SavedRows): one that loaded the event before another edit was saved    *)
(* brings old values back.                                                 *)
(*                                                                         *)
(* A colour or a tagline is known by where it comes from: the template     *)
(* (its id) or the event's own configuration.                              *)
(***************************************************************************)
EXTENDS Integers, Sequences, FiniteSets, SequencesExt, TypeOrm

CONSTANTS
    PageEvent,  \* the events that have a page
    Organizer,  \* slots for requests in progress
    Offered,    \* the templates that organisers try
    OwnTagline, \* taglines that organisers write
    Ticked,     \* the sets of sections they leave ticked
    Recoloured  \* the sets of colours they choose: of the four, the form
                \* has the first two

VARIABLES
    pages,      \* [PageEvent -> row]: events, the columns of the page
    organizer,  \* [Organizer -> handler]: the edits in progress
    picked,     \* [PageEvent -> the templates ever applied]
    wentLive,   \* the events ever published
    lastEdit,   \* [PageEvent -> what the last edit of the page asked for, as
                \* long as no request has met another since; or None]
    visit       \* what a page has just shown, and to whom; or None

pageVars == <<pages, organizer, picked, wentLive, lastEdit, visit>>

-----------------------------------------------------------------------------
(* lib/templates.ts                                                        *)

AllSections ==
    <<"hero", "about", "schedule", "speakers", "sponsors", "register",
      "location", "faq">>

TemplateId == {"tech-conf", "workshop", "meetup", "hackathon"}

DefaultSections(template) ==
    CASE template = "tech-conf" ->
            <<"hero", "about", "speakers", "schedule", "sponsors", "location",
              "register">>
      [] template = "workshop" ->
            <<"hero", "about", "schedule", "location", "register", "faq">>
      [] template = "meetup" -> <<"hero", "about", "register", "location">>
      [] template = "hackathon" ->
            <<"hero", "about", "schedule", "sponsors", "register", "faq">>

ASSUME PageAssumption ==
    /\ Offered \subseteq TemplateId
    /\ Ticked \subseteq SUBSET ToSet(AllSections)
    /\ Recoloured \subseteq SUBSET {"primary", "accent"}
    /\ OwnTagline \cap TemplateId = {}
    /\ None \notin TemplateId \cup OwnTagline \cup PageEvent

Colour == {"primary", "accent", "surface", "text"}

\* Event.configuration.  No list of sections and an empty list are the same
\* to every reader.
Configuration ==
    [tagline: TemplateId \cup OwnTagline \cup {None},
     enabledSections: Seq(ToSet(AllSections)),
     paletteOverride: SUBSET Colour]

\* The customiser lists the ticked sections in the order of ALL_SECTIONS.
EnabledSections(ticked) ==
    LET among[i \in 0..Len(AllSections)] ==   \* the first i sections
            IF i = 0 THEN <<>>
            ELSE IF AllSections[i] \in ticked
            THEN Append(among[i - 1], AllSections[i])
            ELSE among[i - 1]
    IN  among[Len(AllSections)]

NoConfiguration ==
    [tagline |-> None, enabledSections |-> <<>>, paletteOverride |-> {}]

\* getTemplate
GetTemplate(id) == IF id \in TemplateId THEN id ELSE None

\* Mutant of ResolvePalette: spread the other way round, the template wins.
PaletteOfTemplate(template, config) == [c \in Colour |-> template]

\* The override comes second and wins.
ResolvePalette(template, config) ==
    [c \in Colour |-> IF c \in config.paletteOverride THEN "event"
                      ELSE template]

\* Mutant of ResolveSections: a list is a list, even an empty one.
SectionsAsSaved(template, config) == config.enabledSections

ResolveSections(template, config) ==
    IF config.enabledSections # <<>> THEN config.enabledSections
    ELSE DefaultSections(template)

\* e/[id]/page.tsx, once there is a template.
Rendering(template, config) ==
    [template |-> template,
     palette |-> ResolvePalette(template, config),
     sections |-> ResolveSections(template, config),
     tagline |-> IF config.tagline # None THEN config.tagline ELSE template]

-----------------------------------------------------------------------------
PageStatus ==
    {"draft", "published", "ongoing", "completed", "cancelled"}

PageRow == [status: PageStatus, templateId: TemplateId \cup {None},
            configuration: Configuration]

PageColumn == {"status", "templateId", "configuration"}

Design == INSTANCE SavedRows WITH Key <- PageEvent, Hidden <- {},
                                  rows <- pages, request <- organizer

PageTypeOK ==
    /\ pages \in [PageEvent -> PageRow]
    /\ organizer \in [Organizer -> Design!Handler(PageRow, PageColumn)]
    /\ picked \in [PageEvent -> SUBSET TemplateId]
    /\ wentLive \subseteq PageEvent
    /\ lastEdit \in [PageEvent -> [templateId: TemplateId \cup {None},
                                   configuration: Configuration] \cup {None}]
    /\ visit # None => /\ visit.event \in PageEvent
                       /\ visit.session \in BOOLEAN

\* The events have just been created.
PageInit ==
    /\ pages = [e \in PageEvent |-> [status |-> "draft", templateId |-> None,
                                     configuration |-> NoConfiguration]]
    /\ organizer = [o \in Organizer |-> Design!Idle]
    /\ picked = [e \in PageEvent |-> {}]
    /\ wentLive = {}
    /\ lastEdit = [e \in PageEvent |-> None]
    /\ visit = None

\* A request has loaded event e and will save entity.  What the last edit
\* asked for is known as long as every request had the event for itself.
Edits(o, e, entity) ==
    /\ Design!Take(o, e, entity)
    /\ lastEdit' = [lastEdit EXCEPT ![e] =
          IF \E p \in Organizer : organizer[p].key = e THEN None
          ELSE [templateId |-> entity.templateId,
                configuration |-> entity.configuration]]
    /\ visit' = None

\* applyTemplateAction.
Apply(o, e, template) ==
    /\ Edits(o, e,
             [pages[e] EXCEPT
                !.templateId = template,
                !.configuration =
                    [tagline |-> template,
                     enabledSections |-> DefaultSections(template),
                     paletteOverride |-> {}]])
    /\ picked' = [picked EXCEPT ![e] = @ \cup {template}]
    /\ UNCHANGED wentLive

\* saveCustomizationAction.  It replaces the configuration as a whole.
Customize(o, e, tagline, ticked, colours) ==
    /\ Edits(o, e,
             [pages[e] EXCEPT
                !.configuration =
                    [tagline |-> tagline,
                     enabledSections |-> EnabledSections(ticked),
                     paletteOverride |-> colours]])
    /\ UNCHANGED <<picked, wentLive>>

\* publish looks at the status, not at the template.
Publish(o, e) ==
    /\ pages[e].status = "draft"
    /\ Edits(o, e, [pages[e] EXCEPT !.status = "published"])
    /\ wentLive' = wentLive \cup {e}
    /\ UNCHANGED picked

Cancel(o, e) ==
    /\ pages[e].status # "completed"
    /\ Edits(o, e, [pages[e] EXCEPT !.status = "cancelled"])
    /\ UNCHANGED <<picked, wentLive>>

ReloadPage(o) ==
    /\ Design!Reload(o)
    /\ visit' = None
    /\ UNCHANGED <<picked, wentLive, lastEdit>>

WritePage(o) ==
    /\ Design!Write(o)
    /\ visit' = None
    /\ UNCHANGED <<picked, wentLive, lastEdit>>

\* A query rejects, or the service goes down: the edit is not saved.
PageFails(o) ==
    /\ organizer[o] # Design!Idle
    /\ lastEdit' = [lastEdit EXCEPT ![organizer[o].key] = None]
    /\ organizer' = [organizer EXCEPT ![o] = Design!Idle]
    /\ visit' = None
    /\ UNCHANGED <<pages, picked, wentLive>>

-----------------------------------------------------------------------------
\* findOnePublic answers.
FindOnePublic(e) == pages[e].status \in {"published", "ongoing", "completed"}

\* GET /e/:id.  With a session the event is read as an organiser reads it.
PublicEventPage(e, session) ==
    LET template == GetTemplate(pages[e].templateId)
        found == session \/ FindOnePublic(e)
    IN  /\ visit' =
            [event |-> e, session |-> session,
             says |-> IF found /\ template # None THEN "Page"
                      ELSE IF session THEN "PickATemplate" ELSE "NotLive",
             shown |-> IF found /\ template # None
                       THEN Rendering(template, pages[e].configuration)
                       ELSE None]
        /\ UNCHANGED <<pages, organizer, picked, wentLive, lastEdit>>

PageNext ==
    \/ \E o \in Organizer :
          \/ \E e \in PageEvent :
                \/ \E template \in Offered : Apply(o, e, template)
                \/ \E tagline \in OwnTagline \cup {None}, ticked \in Ticked,
                      colours \in Recoloured :
                         Customize(o, e, tagline, ticked, colours)
                \/ Publish(o, e)
                \/ Cancel(o, e)
          \/ ReloadPage(o) \/ WritePage(o) \/ PageFails(o)
    \/ \E e \in PageEvent, session \in BOOLEAN : PublicEventPage(e, session)

PageSpec == PageInit /\ [][PageNext]_pageVars

-----------------------------------------------------------------------------
(* Properties                                                              *)

Rendered == visit # None /\ visit.says = "Page"

\* Whatever edits overlap and bring back old values, a page that is rendered
\* has a template that an organiser picked for this event and at least one
\* section, none twice; and a visitor sees it only after it was published.
\* Overlapping edits may take the template or the publication away again, but
\* they make up neither.
PagesWereChosen ==
    Rendered =>
        /\ visit.shown.template \in picked[visit.event]
        /\ visit.shown.sections # <<>>
        /\ IsInjective(visit.shown.sections)
        /\ ~visit.session => visit.event \in wentLive

\* When every edit had the event for itself, the next page shows what the
\* last one asked for: the ticked sections, or the template's when none was
\* ticked; the colours and the tagline of the event where it has its own.
\* "Saved" in the customiser is seen at /e/:id, before and after publication.
LastEditShown ==
    /\ Rendered
    /\ lastEdit[visit.event] # None
    /\ \A o \in Organizer : organizer[o].key # visit.event
    =>
    LET edit == lastEdit[visit.event]
        own  == edit.configuration
    IN  /\ visit.shown.template = edit.templateId
        /\ own.enabledSections # <<>> =>
              visit.shown.sections = own.enabledSections
        /\ \A c \in Colour :
              (visit.shown.palette[c] = "event") = (c \in own.paletteOverride)
        /\ own.tagline # None => visit.shown.tagline = own.tagline

=============================================================================
