------------------------- MODULE SignaldAttachments -------------------------
(***************************************************************************)
(* src/src/attachments.c: the images in a message of the user become files *)
(* for signald to read, and the files signald has received become links or *)
(* images in what the user is shown.  If the option "external attachments" *)
(* is set, such a file is copied to a directory that a web server serves.  *)
(*                                                                         *)
(* A message of the user is a sequence of texts and "img" tags, and a tag  *)
(* is known by the image it refers to.  A file received by signald is      *)
(* known by its path, which stands for its content too.                    *)
(***************************************************************************)
EXTENDS Naturals, Sequences

CONSTANTS Texts, Images,
          BrokenTag,     \* an "img" tag that refers to no image
          Paths,         \* of files received by signald
          BaseName(_),   \* of a path
          Types,         \* mime types
          Extension(_),  \* of a mime type, or None if there is no known one
          None

ASSUME AttachmentNames ==
  Texts \cap Images = {} /\ BrokenTag \notin Texts \union Images /\ None \notin Paths \union Images

VARIABLES tmp,     \* the temporary files by their number: an image, or None if empty
          served,  \* per name in the served directory: None, or what the file contains
          links    \* the links shown: names with the path they were shown for (history)

attachmentVars == <<tmp, served, links>>

Targets == {<<BaseName(p), e>> : p \in Paths, e \in {Extension(t) : t \in Types} \union {"unknown"}}

AttachmentsInit == tmp = <<>> /\ served = [t \in Targets |-> None] /\ links = {}

-----------------------------------------------------------------------------
(* signald_detach_images.                                                  *)

\* What has become of the message up to a tag: the text without the tags, the
\* files to be attached, and the temporary files.
Start(t) == [body |-> <<>>, files |-> <<>>, tmp |-> t]

\* A mutant of SaveImage: the name of the temporary file is always the same.
SaveImageFixedName(d, image, outcome) ==
  IF outcome = "saved" THEN [d EXCEPT !.tmp = <<image>>, !.files = Append(@, 1)] ELSE d

\* g_file_open_tmp finds a new name, or fails; g_file_set_contents may fail too.
\* Either way the message goes without the image.
SaveImage(d, image, outcome) ==
  CASE outcome = "uncreated" -> d
    [] outcome = "unwritten" -> [d EXCEPT !.tmp = Append(@, None)]
    [] outcome = "saved" -> [d EXCEPT !.tmp = Append(@, image), !.files = Append(@, Len(d.tmp) + 1)]

\* A mutant of Detach: the text between two tags is lost.
DetachFirstText(d, piece, outcome) ==
  IF piece \in Texts /\ d.files = <<>> THEN [d EXCEPT !.body = Append(@, piece)]
  ELSE IF piece \in Images THEN SaveImage(d, piece, outcome)
  ELSE d

\* A tag that refers to no image is skipped.
Detach(d, piece, outcome) ==
  IF piece \in Texts THEN [d EXCEPT !.body = Append(@, piece)]
  ELSE IF piece \in Images THEN SaveImage(d, piece, outcome)
  ELSE d

\* The loop over the pieces: what has become of the first n of them.
\* outcomes[i] is what saving does if the i-th piece is an image.
Detached(message, outcomes, t) ==
  LET d[n \in 0..Len(message)] ==
        IF n = 0 THEN Start(t) ELSE Detach(d[n - 1], message[n], outcomes[n])
  IN d

DetachImages(message, outcomes, t) == Detached(message, outcomes, t)[Len(message)]

Outcomes(message) ==
  {o \in [DOMAIN message -> {"saved", "uncreated", "unwritten"}] :
     \A i \in DOMAIN message : message[i] \notin Images => o[i] = "saved"}

-----------------------------------------------------------------------------
(* signald_write_external_attachment.                                      *)

\* The account options, as the user has set them at the time.
Settings == [external : BOOLEAN, dir : {"", "directory", "other"}, url : BOOLEAN]

\* signald_get_external_attachment_settings
SettingsUsable(s) == s.dir = "directory" /\ s.url

Target(path, type) ==
  <<BaseName(path), IF Extension(type) = None THEN "unknown" ELSE Extension(type)>>

\* A mutant of MayCopy: a file that is there already is overwritten.
MayCopyOver(target) == TRUE

\* g_file_copy without G_FILE_COPY_OVERWRITE
MayCopy(target) == served[target] = None

LinkAttachment(path, target) ==
  /\ served' = [served EXCEPT ![target] = path]
  /\ links' = links \union {<<target, path>>}

\* A copy that fails half way may leave a file behind.
CopyFails(target) ==
  /\ served' \in {served, [served EXCEPT ![target] = "partial"]}
  /\ UNCHANGED links

\* readable: the file can be accessed and is a regular one.  What is not linked to
\* is replaced by an error message.
WriteExternalAttachment(path, type, s, readable) ==
  LET target == Target(path, type) IN
  IF SettingsUsable(s) /\ readable /\ MayCopy(target)
  THEN LinkAttachment(path, target) \/ CopyFails(target)
  ELSE UNCHANGED <<served, links>>

\* signald_parse_attachment.  Otherwise the file itself is linked to, below the
\* image if it can be loaded.
ParseAttachment(path, type, s, readable) ==
  /\ IF s.external THEN WriteExternalAttachment(path, type, s, readable)
     ELSE UNCHANGED <<served, links>>
  /\ UNCHANGED tmp
=============================================================================
