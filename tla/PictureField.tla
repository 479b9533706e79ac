---------------------------- MODULE PictureField ----------------------------
(***************************************************************************)
(* ImageField: the picture chosen in a form, scaled down in the background,  *)
(* and its preview.  The dialog that holds the choice outlives the field     *)
(* inside it, and so does a file being read: its onChange reaches the dialog *)
(* whenever it comes.                                                       *)
(***************************************************************************)
EXTENDS OfferPicture

CONSTANT Files

VARIABLES
  chosen,   \* the dialog's image: the file its blob was made from, or None
  reading,  \* by file: "idle", "busy" (the field waits for it) or "orphan"
  field,    \* the field is shown; its form is saving
  preview   \* the object URL of the choice, while the field is shown

fieldVars == <<chosen, reading, field, preview>>

PictureFieldInit ==
  /\ chosen = None /\ preview = None
  /\ reading = [f \in Files |-> "idle"]
  /\ field = [shown |-> FALSE, saving |-> FALSE]

Disabled == field.saving \/ \E f \in Files : reading[f] = "busy"

\* The field is drawn with another choice, or comes or goes: its memo makes the choice's
\* URL and its effect gives the one before back.
Previewed(shown, blob) ==
  LET u == CHOOSE u \in UrlIds \ urls : TRUE
  IN  /\ preview' = IF shown /\ blob # None THEN u ELSE None
      /\ urls' = (urls \ {preview}) \cup ({preview'} \ {None})

Chosen(blob) == chosen' = blob /\ Previewed(field.shown, blob)

OpenField ==
  /\ ~field.shown
  /\ field' = [field EXCEPT !.shown = TRUE]
  /\ Previewed(TRUE, chosen)
  /\ UNCHANGED <<chosen, reading>>

Abandoned == [f \in Files |-> IF reading[f] = "busy" THEN "orphan" ELSE reading[f]]

CloseField ==
  /\ field.shown
  /\ field' = [field EXCEPT !.shown = FALSE]
  /\ reading' = Abandoned
  /\ Previewed(FALSE, chosen)
  /\ UNCHANGED chosen

\* choose, up to the await.
Choose(f) ==
  /\ field.shown /\ ~Disabled /\ reading[f] = "idle"
  /\ reading' = [reading EXCEPT ![f] = "busy"]
  /\ UNCHANGED <<chosen, field, preview, urls>>

\* downscale ends, with a blob or with a file that is not an image.
Read(f) ==
  /\ reading[f] # "idle"
  /\ reading' = [reading EXCEPT ![f] = "idle"]
  /\ Chosen(f) \/ Chosen(None)
  /\ UNCHANGED field

Remove ==
  /\ field.shown /\ ~Disabled /\ preview # None
  /\ Chosen(None)
  /\ UNCHANGED <<reading, field>>

\* The form is sent with the choice as it stands; a file being read does not hold it up.
SendForm ==
  /\ field.shown /\ ~field.saving
  /\ field' = [field EXCEPT !.saving = TRUE]
  /\ UNCHANGED <<chosen, reading, preview, urls>>

\* Accepted, the dialog closes and drops the choice; refused, it stays as it is.
FormSent ==
  /\ field.saving
  /\ \/ /\ field' = [shown |-> FALSE, saving |-> FALSE]
        /\ chosen' = None /\ reading' = Abandoned
        /\ Previewed(FALSE, None)
     \/ /\ field' = [field EXCEPT !.saving = FALSE]
        /\ UNCHANGED <<chosen, reading, preview, urls>>

FieldActs ==
  /\ \/ OpenField \/ CloseField \/ Remove \/ SendForm \/ FormSent
     \/ \E f \in Files : Choose(f) \/ Read(f)
  /\ UNCHANGED <<calls, wanted, fetched, created, stored, httpCache>>

-----------------------------------------------------------------------------
PictureFieldTypeOK ==
  /\ chosen \in Files \cup {None} /\ preview \in UrlIds \cup {None}
  /\ reading \in [Files -> {"idle", "busy", "orphan"}]
  /\ field.shown \in BOOLEAN /\ field.saving \in BOOLEAN

\* "Without this the bytes stay resident for as long as the tab does" (images.ts) and
\* "choosing five pictures in one dialog leaks all five" (image-field.tsx): the only URLs
\* kept are the running effect's and the preview on show, however many were fetched,
\* chosen, replaced, or read to the end after their field had gone.
UrlsAreGivenBack == urls \subseteq {created, preview}
=============================================================================
