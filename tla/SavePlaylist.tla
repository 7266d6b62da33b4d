----------------------------- MODULE SavePlaylist -----------------------------
(***************************************************************************)
(* Saving the queue as a playlist (save_playlist.cxx): a coroutine that    *)
(* asks for a name, and asks once more before it replaces a playlist.      *)
(* While it waits for an answer, other clients of MPD go on, the           *)
(* connection may be lost, and another command may cancel it.              *)
(***************************************************************************)
CONSTANTS
    PlaylistNames,  \* what the user may enter
    NoName          \* the empty string

ASSUME SaveAssumption == NoName \notin PlaylistNames

VARIABLE saving

\* What is stored under a name: nothing, what was there, what another client saved, the queue
Contents == {"none", "old", "other", "queue"}

\* `pc' is where the coroutine waits, `agreed' whether the user has said that `name' is to be
\* replaced; `saved' is the name in the last message, and `news' that there is one.
SaveInit ==
    \E s \in [PlaylistNames -> {"none", "old"}] :
        saving = [stored |-> s, conn |-> TRUE, error |-> FALSE,
                  pc |-> "done", name |-> NoName, agreed |-> FALSE, saved |-> NoName, news |-> FALSE]

Done(s) == [s EXCEPT !.pc = "done", !.name = NoName, !.agreed = FALSE]

\* HandleError(): the error is cleared, or the connection is closed.
HandleError(s) == {Done([s EXCEPT !.error = FALSE]), Done([s EXCEPT !.error = FALSE, !.conn = FALSE])}

\* The end of playlist_save()
Success(s) == Done([s EXCEPT !.news = TRUE, !.saved = s.name])

\* LIST_SAVE: with or without the name of a playlist
Start ==
    /\ saving.pc = "done"
    /\ \E n \in PlaylistNames \cup {NoName} :
          saving' = [saving EXCEPT !.name = n, !.saved = NoName, !.news = FALSE,
                                   !.pc = IF n = NoName THEN "name" ELSE "send"]

EnterName ==
    /\ saving.pc = "name"
    /\ \E n \in PlaylistNames \cup {NoName} :
          saving' = IF n = NoName THEN Done(saving) ELSE [saving EXCEPT !.name = n, !.pc = "send"]

\* mpd_run_save(): MPD does not replace a playlist, and any command may fail.
Save ==
    /\ saving.pc = "send"
    /\ \/ ~saving.conn /\ saving' = Done(saving)
       \/ saving.conn /\ saving.stored[saving.name] = "none"
          /\ saving' = Success([saving EXCEPT !.stored[saving.name] = "queue"])
       \/ saving.conn /\ saving.stored[saving.name] # "none"
          /\ saving' = [saving EXCEPT !.pc = "replace"]
       \/ saving.conn /\ saving' \in HandleError([saving EXCEPT !.error = TRUE])

\* Mutant: an answer other than "no" is a yes.
AnswerNotNo ==
    /\ saving.pc = "replace"
    /\ \E answer \in {"yes", "no", "cancel"} :
          saving' = IF answer = "no" THEN Done(saving)
                    ELSE [saving EXCEPT !.pc = "remove", !.agreed = answer = "yes"]

AnswerReplace ==
    /\ saving.pc = "replace"
    /\ \E answer \in {"yes", "no", "cancel"} :
          saving' = IF answer = "yes" THEN [saving EXCEPT !.pc = "remove", !.agreed = TRUE]
                    ELSE Done(saving)

\* "rm", which fails if another client has been faster, and "save"; either may fail.
Replace ==
    /\ saving.pc = "remove"
    /\ LET removed == [saving EXCEPT !.stored[saving.name] = "none"]
       IN  \/ ~saving.conn /\ saving' = Done(saving)
           \/ saving.conn /\ saving.stored[saving.name] # "none"
              /\ saving' = Success([removed EXCEPT !.stored[saving.name] = "queue"])
           \/ saving.conn /\ saving' \in HandleError([saving EXCEPT !.error = TRUE])
           \/ saving.conn /\ saving.stored[saving.name] # "none"
              /\ saving' \in HandleError([removed EXCEPT !.error = TRUE])

\* Another dialog or command destroys the coroutine where it waits.
CancelSave == saving.pc \in {"name", "replace"} /\ saving' = Done(saving)

\* Other clients, and the connection
Others ==
    \/ \E n \in PlaylistNames, x \in {"none", "other"} :
          saving' = [saving EXCEPT !.stored[n] = x, !.saved = NoName]
    \/ saving.pc \notin {"send", "remove"} /\ \E up \in BOOLEAN : saving' = [saving EXCEPT !.conn = up]

SaveNext == Start \/ EnterName \/ Save \/ AnswerReplace \/ Replace \/ CancelSave \/ Others

SaveSpec == SaveInit /\ [][SaveNext]_saving

-----------------------------------------------------------------------------
(* Properties *)

\* Types; an error is not left on the connection while the user is asked, so that others can
\* use it meanwhile.
SaveTypeOK ==
    /\ saving.stored \in [PlaylistNames -> Contents]
    /\ saving.pc \in {"done", "name", "send", "replace", "remove"}
    /\ saving.name \in PlaylistNames \cup {NoName}
    /\ saving.pc \in {"done", "name"} <=> saving.name = NoName
    /\ ~saving.error

\* The message "Saved" tells the truth, until another client changes the playlist.
SavedIsStored == saving.saved # NoName => saving.stored[saving.saved] = "queue" /\ saving.news

\* What is stored is neither deleted nor replaced by ncmpc unless the user has agreed to it.
ReplacesOnlyIfAgreed ==
    [][\A n \in PlaylistNames :
          saving.stored[n] # "none" /\ saving'.stored[n] # saving.stored[n]
              => Others \/ (n = saving.name /\ saving.agreed)]_saving

\* A playlist that is to be replaced is there as it was or as it shall be, whatever fails.
ReplacedOrKept ==
    [][\A n \in PlaylistNames :
          saving.stored[n] # "none" /\ saving'.stored[n] = "none" => Others]_saving

\* What is stored is replaced only when the user has agreed, and what is said to be saved is.
SavedAsAgreed == [](SaveTypeOK /\ SavedIsStored) /\ ReplacesOnlyIfAgreed
=============================================================================
