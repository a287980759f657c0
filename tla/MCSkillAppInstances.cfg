SPECIFICATION Spec
CONSTANTS
    translate = translate
    build = build
    source = source
    tone = tone
    translation = translation
    Ops = {translate, build}
    Inputs = {source, tone}
    Outputs = {translation}
    blank = blank
    x = x
    given = given
    Blank = blank
    Given = given
    InitialValues <- FormValues
    InitialOutput <- FormOutput
    Values = {blank, x}
    Files = {f1, f2}
    Reads <- OpReads
    Required <- OpRequired
    Watches <- OpWatches
    Output <- OpOutput
    Attached = {build}
    Delayed = {translate}
    Interactive = {build}
    Calls = {c1, c2, c3}
    NoCall = NoCall
    MaxEdits = 3
INVARIANTS FreshMeansCurrent WaitersAnswerable CommittedSucceeds
PROPERTIES RequestsAnswered
CHECK_DEADLOCK FALSE
