------------------------- MODULE MCSkillAppInstances -------------------------
(* An App with a field `source' that is translated after a pause, a field   *)
(* `tone' the translation reads too, and a button that answers in the same  *)
(* place, takes the attachments and may ask.  The form begins with a tone   *)
(* and a text in the place of the answer.                                  *)
EXTENDS SkillAppInstances, TLC

CONSTANTS translate, build, source, tone, translation, blank, given, x

OpReads == translate :> {source, tone} @@ build :> {tone}
OpRequired == translate :> {source} @@ build :> {tone}
OpWatches == translate :> {source} @@ build :> {}
FormValues == source :> blank @@ tone :> x
FormOutput == translation :> given
OpOutput == translate :> translation @@ build :> translation
===============================================================================
