\* Every list of at most two rules of the repertoire, every operator, every
\* kind of answer; three questions, two organisers on one page, three
\* registrations, one tab, three demo attendees.
\* An evaluation and a series of runs of the demo script have an end.
CHECK_DEADLOCK FALSE
SPECIFICATION FrontOfficeSpec
CONSTANTS
    None = None
    f1 = f1
    f2 = f2
    t1 = t1
    t2 = t2
    Field = {f1, f2}
    Tier = {t1, t2}
    RuleList <- MCRuleList
    Answers <- MCAnswers
    BasePrice <- MCBasePrice
    FieldId = {k1, k2, k3}
    FormEvent = {e1}
    Author = {q1, q2}
    Wording = {"name"}
    NewIndex = {0}
    Asked <- MCAsked
    PageEvent = {e1}
    Organizer = {q1, q2}
    Offered = {"tech-conf", "meetup"}
    OwnTagline = {own}
    Ticked <- MCTicked
    Recoloured <- MCRecoloured
    Attendee = {k1, k2, k3}
    Price = {0, 10}
    MaxChange = 2
    Tab = {b1}
    MaxTime = 3
    Lifetime = 1
    Guest = {g1, g2, g3}
    Owner = owner
    MaxRun = 2
    MaxRequest = 3
SYMMETRY Symmetry
INVARIANTS
    FrontOfficeTypeOK
    FieldsFollowLastWord
    PriceFollowsLastWord
    RejectedIffEmpty
    StoredAsText
    RenderedAsReordered
    PagesWereChosen
    LastEditShown
    FiguresOffBySaves
    AnswersTrue
    SeedRepeatable
