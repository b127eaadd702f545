----------------------------- MODULE CreateForm -----------------------------
(***************************************************************************)
(* The create form (CreateLaunchForm.tsx), the upload of the token's image *)
(* and metadata behind it (upload/handler.ts, storage.ts, metadata.ts) and *)
(* what of both ends up in the immutable metadata of a launch.  How        *)
(* createLaunch goes about it is AppLaunch; here it is one call.           *)
(***************************************************************************)
EXTENDS Integers, FiniteSets

CONSTANTS
    MaxDescription      \* MAX_DESCRIPTION_CHARS

VARIABLES
    values,        \* the fields and the picked image
    market,        \* where the quote's price is from
    submit,        \* the form's submit state, with what a call in progress was given
    uploaded,      \* the last upload: its key and the URI it got
    session,       \* what createLaunch was given when it built the transactions
    storage        \* this server has one

\* What may be missing is a set of at most one member: a launch's URI the document it names.
OwnUri == {[name |-> "own", text |-> [chars |-> 0, breaks |-> 0], image |-> "none"]}

vars == <<values, market, submit, uploaded, session, storage>>

None == "none"

\* Lengths stand for texts; a break is one character that is typed and two that are sent.
Text(chars, breaks) == [chars |-> chars, breaks |-> breaks]
NoText == Text(0, 0)
Texts == {NoText, Text(MaxDescription - 1, 1), Text(MaxDescription, 1)}

Files == {"cat", "damaged", "document"}
\* The form goes by the declared type and the size, the route by the bytes.
ImageFileError(file) == file = "document"
InspectImage(file) == file = "cat"

\* name: name and ticker; terms: quote asset, preset, vault share, threshold and first buy.
LaunchFormValues ==
    [name : {"a", "b", "reserved"}, text : Texts, image : {None} \cup Files, own : {None, "url"},
     terms : {"s", "t", "low"}]

Idle == [status |-> "idle", stage |-> "none", ok |-> FALSE, resume |-> FALSE, input |-> {}]
Sources == {"jupiter", "stale"}

Init ==
    /\ values = [name |-> "a", text |-> NoText, image |-> None, own |-> None, terms |-> "s"]
    /\ market = "jupiter"
    /\ submit = Idle
    /\ uploaded = {}
    /\ session = {}
    /\ storage \in BOOLEAN

-----------------------------------------------------------------------------
(* The upload: what is sent, judged and stored.                            *)

\* Mutant: an image is not part of what an upload depends on.
UploadKeyText(v) == [name |-> v.name, text |-> v.text, image |-> "any"]
UploadKey(v) == [name |-> v.name, text |-> v.text, image |-> v.image]

Describes(v) == v.text # NoText \/ v.image # None

BuildMetadataJson(v) == [name |-> v.name, text |-> v.text, image |-> v.image]

TokenNameError(name) == name = "reserved"
DescriptionError(length) == length > MaxDescription
ThresholdError(terms) == terms = "low"

\* A multipart body carries a line break as two characters.
HandleUploadRequest(v) ==
    /\ storage /\ ~TokenNameError(v.name) /\ ~DescriptionError(v.text.chars + v.text.breaks)
    /\ v.image # None => InspectImage(v.image)

\* Mutant: the name is left to the route.
ValidateLaunchFormNames(v) == ~DescriptionError(v.text.chars) /\ ~ThresholdError(v.terms)
ValidateLaunchForm(v) == ~TokenNameError(v.name) /\ ~DescriptionError(v.text.chars) /\ ~ThresholdError(v.terms)

-----------------------------------------------------------------------------
(* The form.                                                               *)

\* Mutant: a pending retry does not freeze the form.
LockedWhileBusy == submit.status = "submitting" \/ (submit.status = "done" /\ submit.ok)
Locked == submit.status = "submitting" \/ (submit.status = "done" /\ (submit.ok \/ submit.resume))

ClearFailure == IF submit.status = "done" /\ ~submit.ok THEN Idle ELSE submit

Edit(fields) ==
    /\ ~Locked
    /\ \E v \in LaunchFormValues, field \in fields : v # values /\ v = [values EXCEPT ![field] = v[field]] /\ values' = v
    /\ UNCHANGED <<market, uploaded, session, storage>>

\* Editing takes a failure off the screen, unless it is the first buy that is edited.
Update(fields) == Edit(fields) /\ submit' = ClearFailure
TokenFields == Update({"name", "text", "own"})
ThresholdFields == Update({"terms"})
FirstBuy == Edit({"terms"}) /\ values'.terms # "low" /\ values.terms # "low" /\ UNCHANGED submit

\* A file that is dropped on the form comes past the disabled fieldset.
PickImage ==
    /\ ~Locked
    /\ \E file \in Files :
          values' = IF ImageFileError(file) THEN values ELSE [values EXCEPT !.image = file]
    /\ submit' = ClearFailure
    /\ UNCHANGED <<market, uploaded, session, storage>>

RemoveImage ==
    /\ ~Locked /\ values.image # None
    /\ values' = [values EXCEPT !.image = None]
    /\ UNCHANGED <<market, submit, uploaded, session, storage>>

Poll ==
    /\ market' \in Sources \ {market}
    /\ UNCHANGED <<values, submit, uploaded, session, storage>>

LaunchPriceError == market # "jupiter"
CanSubmit == ValidateLaunchForm(values) /\ ~LaunchPriceError /\ ~Locked

Submitting(stage, resume, input) ==
    submit' = [status |-> "submitting", stage |-> stage, ok |-> FALSE, resume |-> resume, input |-> input]
Done(ok, resume) ==
    submit' = [status |-> "done", stage |-> "none", ok |-> ok, resume |-> resume, input |-> {}]

\* The transactions of a retry are those of the session.
CreateLaunch(resume, input, uri) ==
    /\ Submitting("launch", resume, {})
    /\ session' = IF resume THEN session
                  ELSE {[launch |-> i, uri |-> uri] : i \in input}

\* run: the token's URI is the own one, that of the last upload of the same values, or one
\* that has to be uploaded for.
Run(resume) ==
    LET input == {[name |-> values.name, terms |-> values.terms]} IN
    /\ IF values.own # None THEN CreateLaunch(resume, input, OwnUri)
       ELSE IF ~Describes(values) THEN CreateLaunch(resume, input, {})
       ELSE IF \E u \in uploaded : u.key = UploadKey(values)
       THEN \E u \in uploaded : CreateLaunch(resume, input, u.uri)
       ELSE Submitting("upload", resume, input) /\ UNCHANGED session
    /\ UNCHANGED <<values, market, uploaded, storage>>

OnSubmit == CanSubmit /\ Run(FALSE)
Retry == submit.status = "done" /\ submit.resume /\ Run(TRUE)

StartOver ==
    /\ submit.status = "done" /\ ~submit.ok
    /\ submit' = Idle
    /\ UNCHANGED <<values, market, uploaded, session, storage>>

\* Without storage, over the rate limit, refused, or failed at Pinata or on the way.
UploadFails ==
    /\ submit.status = "submitting" /\ submit.stage = "upload"
    /\ Done(FALSE, FALSE)
    /\ UNCHANGED <<values, market, uploaded, session, storage>>

Uploads ==
    /\ submit.status = "submitting" /\ submit.stage = "upload"
    /\ HandleUploadRequest(values)
    /\ uploaded' = {[key |-> UploadKey(values), uri |-> {BuildMetadataJson(values)}]}
    /\ CreateLaunch(submit.resume, submit.input, {BuildMetadataJson(values)})
    /\ UNCHANGED <<values, market, storage>>

\* createLaunch fails before there is a session, with one, or is through.
LaunchEnds ==
    /\ submit.status = "submitting" /\ submit.stage = "launch"
    /\ \/ Done(TRUE, FALSE) \/ Done(FALSE, TRUE) \/ Done(FALSE, FALSE)
    /\ session' = IF submit'.ok \/ submit'.resume THEN session ELSE {}
    /\ UNCHANGED <<values, market, uploaded, storage>>

Next ==
    \/ TokenFields \/ ThresholdFields \/ FirstBuy \/ PickImage \/ RemoveImage \/ Poll \/ OnSubmit \/ Retry \/ StartOver
    \/ UploadFails \/ Uploads \/ LaunchEnds

\* Calls end.
Fairness == WF_vars(UploadFails \/ Uploads \/ LaunchEnds)

Spec == Init /\ [][Next]_vars /\ Fairness

-----------------------------------------------------------------------------

\* Types of the form and its calls.
TypeOK ==
    /\ values \in LaunchFormValues /\ market \in Sources
    /\ submit.status \in {"idle", "submitting", "done"} /\ submit.stage \in {"none", "upload", "launch"}

Launching == Locked /\ submit.stage # "upload"

\* "A retry re-sends the transactions built from the original input, so an edited form
\* would promise a floor and a threshold that are not the ones being launched"
\* (CreateLaunchForm.tsx:314-317): from the first transaction to the last retry the form
\* shows what is being launched, and the metadata describes the token by the same fields.
LaunchedAsShown ==
    Launching =>
        \E s \in session :
            /\ s.launch.name = values.name /\ s.launch.terms = values.terms
            /\ s.uri = IF values.own # None THEN OwnUri
                       ELSE IF Describes(values) THEN {BuildMetadataJson(values)} ELSE {}

\* What a launch points to has been judged by the route, bytes and all, whatever the form
\* was told of the file.
UriResolves ==
    \A s \in session : \A document \in s.uri \ OwnUri :
        storage /\ (document.image # None => InspectImage(document.image))

\* "Uploaded once per set of values": a retry uploads nothing.
RetryUploadsNothing == [][submit.resume => ~(submit'.status = "submitting" /\ submit'.stage = "upload")]_vars

\* The route that has storage has nothing against what the form let pass but a damaged file, and line breaks
\* in a description that is as long as it may be.
OnlyTheseAreRefused ==
    submit.status = "submitting" /\ submit.stage = "upload" /\ ~HandleUploadRequest(values) =>
        ~storage \/ values.image = "damaged" \/ values.text = Text(MaxDescription, 1)

\* The button comes back.
FormComesBack == submit.status = "submitting" ~> submit.status = "done"

=============================================================================
