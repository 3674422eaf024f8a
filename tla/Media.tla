------------------------------- MODULE Media -------------------------------
(***************************************************************************)
(* The media of articles and rows: pictures and thumbnails of videos drawn *)
(* into image views that the tables and collections use again for other    *)
(* items (S_IMAGE), and attached files downloaded and opened by name       *)
(* (DOWNLOAD of S_BASE).                                                   *)
(*                                                                         *)
(* A load runs on while its view is given to another item: SDWebImage      *)
(* cancels the view's load when the next one starts; the thumbnails made   *)
(* on a global queue are cancelled by nobody.  Downloads outlive the page, *)
(* and what they stored outlives the process.                              *)
(***************************************************************************)
EXTENDS Naturals

CONSTANTS
    Views,          \* image views of the cells
    Items,          \* what may be drawn into a view
    Kind,           \* of each item: a picture, a video, or no address ("none")
    NoItem,
    Placeholder,
    Files,          \* attached files, by their address
    Name,           \* MEDIA_NAME of each file
    ErrorPage,      \* the body of an answer that is no file (404)
    MaxTasks,       \* bound: loads started
    MaxDownloads    \* bound: downloads started

Names == {Name[file] : file \in Files}
Bodies == Files \cup {ErrorPage}
Nothing == "nothing"

ASSUME MediaAssumption ==
    /\ Kind \in [Items -> {"picture", "video", "none"}]
    /\ NoItem \notin Items /\ Placeholder \notin Items
    /\ ErrorPage \notin Files /\ Nothing \notin Bodies
    /\ MaxTasks \in Nat /\ MaxDownloads \in Nat

VARIABLES
    item,           \* the item each view was given last
    image,          \* the item whose image each view shows
    tasks,          \* loads under way
    started,        \* how many loads were started (names the next one)
    astray,         \* history: the view was given its item with another
                    \* item's load going on, or was set off the main thread
    Documents,      \* the body stored under each name
    downloads,      \* downloads not yet opened
    asked,          \* how many downloads were started
    DIC,            \* the document opened last
    arrived         \* history: the bodies answered for files of each name

views == <<item, image, tasks, started, astray>>
documents == <<Documents, downloads, asked, DIC, arrived>>
mediaVars == <<views, documents>>

Task == [id : Nat, view : Views, item : Items]
Download == [id : Nat, file : Files, stored : BOOLEAN]
Document == [file : Files, body : Bodies \cup {Nothing}]
-----------------------------------------------------------------------------
MediaInit ==
    /\ item = [view \in Views |-> NoItem] /\ image = [view \in Views |-> Placeholder]
    /\ tasks = {} /\ started = 0
    /\ astray = [view \in Views |-> FALSE]
    /\ Documents = [name \in Names |-> Nothing]
    /\ downloads = {} /\ asked = 0
    /\ DIC = {}
    /\ arrived = [name \in Names |-> {}]

(* Mutant of NewTask: view and item swapped.                               *)
NewTaskSwapped(view, i) == [id |-> started, view |-> i, item |-> view]

NewTask(view, i) == [id |-> started, view |-> view, item |-> i]

(* Mutant of SDWEBIMAGE: the load before is not cancelled.                 *)
SdWebImageUncancelled(view, i) ==
    /\ image' = [image EXCEPT ![view] = Placeholder]
    /\ IF Kind[i] = "none"
       THEN UNCHANGED <<tasks, started>>
       ELSE /\ tasks' = tasks \cup {NewTask(view, i)}
            /\ started' = started + 1

(* SDWEBIMAGE: sd_setImage cancels the picture the view was loading; an    *)
(* item without an address only sets the placeholder.                      *)
SDWEBIMAGE(view, i) ==
    /\ image' = [image EXCEPT ![view] = Placeholder]
    /\ IF Kind[i] = "none"
       THEN UNCHANGED <<tasks, started>>
       ELSE /\ tasks' = {t \in tasks : ~(t.view = view /\ Kind[t.item] = "picture")}
                          \cup {NewTask(view, i)}
            /\ started' = started + 1

(* SDWEBVIDEO: the thumbnail is made on a global queue; until then the     *)
(* view keeps its image.                                                   *)
SDWEBVIDEO(view, i) ==
    /\ tasks' = tasks \cup {NewTask(view, i)}
    /\ started' = started + 1
    /\ UNCHANGED image

(* A load of another item goes on that drawing item i does not cancel.     *)
GoesOn(view, i) ==
    \E t \in tasks :
        /\ t.view = view /\ t.item # i
        /\ Kind[t.item] = "video" \/ Kind[i] # "picture"

(* cellForRowAt (cellForItemAt): a view is given an item.                  *)
Draw(view, i) ==
    /\ Kind[i] # "none" => started < MaxTasks
    /\ item' = [item EXCEPT ![view] = i]
    /\ astray' = [astray EXCEPT ![view] = GoesOn(view, i)]
    /\ \/ Kind[i] = "video" /\ SDWEBVIDEO(view, i)
       \/ Kind[i] # "video" /\ SDWEBIMAGE(view, i)
    /\ UNCHANGED documents

(* A load is done: its image is set, whatever the view is for by now.      *)
Loaded(t) ==
    /\ tasks' = tasks \ {t}
    /\ image' = [image EXCEPT ![t.view] = t.item]
    /\ UNCHANGED <<item, started, astray, documents>>

(* A picture fails: the placeholder stays.                                 *)
PictureFails(t) ==
    /\ Kind[t.item] = "picture"
    /\ tasks' = tasks \ {t}
    /\ UNCHANGED <<item, image, started, astray, documents>>

(* A thumbnail fails: the placeholder is set from the global queue, which  *)
(* UIKit does not define: it is drawn or not.                              *)
ThumbnailFails(t) ==
    /\ Kind[t.item] = "video"
    /\ tasks' = tasks \ {t}
    /\ image' \in {image, [image EXCEPT ![t.view] = Placeholder]}
    /\ astray' = [astray EXCEPT ![t.view] = TRUE]
    /\ UNCHANGED <<item, started, documents>>
-----------------------------------------------------------------------------
(* Mutant of Path: one name for every file.                                *)
PathOfAny(file) == CHOOSE name \in Names : TRUE

(* destination: where a file is stored.                                    *)
Path(file) == Name[file]

(* DOWNLOAD, without a network check.                                      *)
DOWNLOAD(file) ==
    /\ asked < MaxDownloads
    /\ downloads' = downloads \cup {[id |-> asked, file |-> file, stored |-> FALSE]}
    /\ asked' = asked + 1
    /\ UNCHANGED <<views, Documents, DIC, arrived>>

(* The session's queue: the body, whatever the answer's status, is moved   *)
(* to its path.  The move fails if something is there; nobody looks.       *)
Store(d, body) ==
    /\ ~d.stored
    /\ Documents' = [Documents EXCEPT ![Path(d.file)] = IF @ = Nothing THEN body ELSE @]
    /\ downloads' = (downloads \ {d}) \cup {[d EXCEPT !.stored = TRUE]}
    /\ arrived' = [arrived EXCEPT ![Name[d.file]] = @ \cup {body}]
    /\ UNCHANGED <<views, asked, DIC>>

(* The completion handler on the main queue, which ignores its error: the  *)
(* file at the path is opened.                                             *)
Open(d) ==
    /\ d.stored
    /\ downloads' = downloads \ {d}
    /\ DIC' = {[file |-> d.file, body |-> Documents[Path(d.file)]]}
    /\ UNCHANGED <<views, Documents, asked, arrived>>

(* The process ends and starts again; what was stored stays.               *)
Restart ==
    /\ item' = [view \in Views |-> NoItem] /\ image' = [view \in Views |-> Placeholder]
    /\ tasks' = {} /\ astray' = [view \in Views |-> FALSE]
    /\ downloads' = {} /\ DIC' = {}
    /\ UNCHANGED <<started, Documents, asked, arrived>>

(* A download fails: its handler takes the path out of an optional that is *)
(* empty, and the process ends.                                            *)
DownloadFails(d) == ~d.stored /\ Restart

MediaNext ==
    \/ \E view \in Views, i \in Items : Draw(view, i)
    \/ \E t \in tasks : Loaded(t) \/ PictureFails(t) \/ ThumbnailFails(t)
    \/ \E file \in Files : DOWNLOAD(file)
    \/ \E d \in downloads :
        \/ \E body \in {d.file, ErrorPage} : Store(d, body)
        \/ Open(d) \/ DownloadFails(d)
    \/ Restart

MediaSpec == MediaInit /\ [][MediaNext]_mediaVars
-----------------------------------------------------------------------------
(* Properties.                                                             *)

(* Types of the views' state and of the documents'.                        *)
MediaTypeOK ==
    /\ item \in [Views -> Items \cup {NoItem}]
    /\ image \in [Views -> Items \cup {Placeholder}]
    /\ tasks \subseteq Task /\ started \in Nat
    /\ astray \in [Views -> BOOLEAN]
    /\ Documents \in [Names -> Bodies \cup {Nothing}]
    /\ downloads \subseteq Download /\ asked \in Nat
    /\ DIC \subseteq Document
    /\ arrived \in [Names -> SUBSET Bodies]

(* A view shows the image of its own item or the placeholder, or waits for *)
(* its item's thumbnail, unless it was given the item while a load of      *)
(* another went on that nobody cancels (S_IMAGE 40, 51: an item without an *)
(* address, such as a resident without a photo, cancels nothing, nor does  *)
(* a video; a thumbnail is never cancelled), or a thumbnail failed         *)
(* (S_IMAGE 56).                                                           *)
ShowsItsOwn ==
    \A view \in Views :
        \/ astray[view]
        \/ image[view] \in {Placeholder, item[view]}
        \/ \E t \in tasks : t.view = view /\ Kind[t.item] = "video" /\ t.item = item[view]

(* The document opened is the file chosen, unless another body was         *)
(* answered under its name, in this run of the app or before: an answer    *)
(* that is no file, or another article's file of the same name, is stored  *)
(* for good (S_BASE 117, 121).                                             *)
FileIsTheOneChosen ==
    \A document \in DIC :
        \/ document.body = document.file
        \/ arrived[Name[document.file]] \ {document.file} # {}

=============================================================================
